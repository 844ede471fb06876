--------------------------- MODULE SessionManager ---------------------------
(***************************************************************************)
(* internal/session/session.go: the records of the sessions, in memory and *)
(* on disk, and the execution leases.  Every method takes m.mu for the     *)
(* critical sections that are the actions below; AcquireExecLease and the  *)
(* release function it returns run partly outside the lock, on two buffered*)
(* channels used as semaphores, and are one action per step.  The module   *)
(* lets any number of goroutines call any method in any order, as the      *)
(* package allows.                                                         *)
(***************************************************************************)
EXTENDS Integers, FiniteSets

CONSTANTS
  Ids,                            \* identifiers GenerateSessionID may return
  Callers,                        \* goroutines that acquire leases
  MaximumSessions,                \* limits.maximum_sessions
  MaximumParallelExecPerSession,  \* limits.maximum_parallel_exec_per_session
  MaximumParallelGlobalExec,      \* limits.maximum_parallel_global_exec
  NoSession,                      \* no record under an identifier
  DiskMayFail,                    \* whether writes to the state directory may fail
  MaxCrashes                      \* bound: crashes of the controller in a behaviour

Modes == {"ephemeral", "persistent"}

Statuses == {"created", "starting", "ready", "running-command", "stopping",
             "stopped", "failed", "cleanup-failed", "expired"}

\* snap: whether the ids of the Docker resources were recorded at startup.
Session == [mode : Modes, status : Statuses, active : Nat, snap : BOOLEAN]

ASSUME LimitsAssumption ==
  /\ MaximumSessions \in Nat \ {0}
  /\ MaximumParallelExecPerSession \in Nat \ {0}
  /\ MaximumParallelGlobalExec \in Nat \ {0}
  /\ MaxCrashes \in Nat

ASSUME DiskAssumption == DiskMayFail \in BOOLEAN

ASSUME NamesAssumption ==
  /\ NoSession \notin Session
  /\ NoSession \notin Ids
  /\ IsFiniteSet(Callers)

VARIABLES
  sessions,     \* Manager.sessions: the record under each identifier
  saved,        \* the record in <state_dir>/sessions/<id>/session.json
  issued,       \* identifiers given out so far (random, never given twice)
  late,         \* sessions whose ExpiresAt has passed (it never changes)
  globalSem,    \* tokens in Manager.globalSem
  sessionSems,  \* tokens in each session's channel
  lease,        \* where each goroutine is in AcquireExecLease or in release
  leftover,     \* history: leases of dead controllers still in ActiveExecCount
  crashes       \* crashes so far

records == <<sessions, saved>>
slots == <<globalSem, sessionSems>>
history == <<leftover, crashes>>
vars == <<sessions, saved, issued, late, globalSem, sessionSems, lease,
          leftover, crashes>>

-----------------------------------------------------------------------------
(* The lease protocol: the program counter of a goroutine.                 *)

Idle == [pc |-> "idle", id |-> NoSession]

\* Waiting to be admitted, or admitted ("held"); then the steps of release
\* and of the three refusals: free the channels and give the count back.
LeaseSteps == {"global", "session", "recheck", "held",
               "freeGlobal", "uncount", "dropSession", "dropGlobal"}

\* The steps at which the goroutine is counted in ActiveExecCount, owns a
\* token of the global channel, owns a token of its session's channel.
Counting == {"global", "session", "recheck", "held",
             "freeGlobal", "uncount"}
GlobalHolding == {"session", "recheck", "held", "freeGlobal",
                  "dropSession", "dropGlobal"}
SessionHolding == {"recheck", "held", "dropSession"}

Counted(s) == {c \in Callers : lease[c].pc \in Counting /\ lease[c].id = s}
GlobalHolders == {c \in Callers : lease[c].pc \in GlobalHolding}
SessionHolders(s) ==
  {c \in Callers : lease[c].pc \in SessionHolding /\ lease[c].id = s}

\* The goroutine goes from one step of the protocol to the next.
Step(c, from, to) ==
  /\ lease[c].pc = from
  /\ lease' = [lease EXCEPT ![c].pc = to]

Done(c, from) ==
  /\ lease[c].pc = from
  /\ lease' = [lease EXCEPT ![c] = Idle]

-----------------------------------------------------------------------------
(* Records.                                                                *)

Exists(s) == sessions[s] # NoSession

\* saveSessionLocked: the new record replaces the file, or the write or the
\* rename fails and leaves the old one, or an earlier save of the same
\* critical section; every caller but CreateSession goes on.
Save(s, r, earlier) ==
  \E file \in {r} \cup (IF DiskMayFail THEN earlier \cup {saved[s]} ELSE {}) :
    saved' = [saved EXCEPT ![s] = file]

Put(s, r) ==
  /\ sessions' = [sessions EXCEPT ![s] = r]
  /\ Save(s, r, {})

Expirable == {"created", "starting", "ready", "running-command"}

\* expireSessionLocked has a status to change.
Overdue(s) == Exists(s) /\ s \in late /\ sessions[s].status \in Expirable

Aged(s) == IF Overdue(s) THEN [sessions[s] EXCEPT !.status = "expired"]
                         ELSE sessions[s]

\* A critical section that only looks a session up, expiring it on the way.
Observe(s) ==
  IF Overdue(s) THEN Put(s, Aged(s)) ELSE UNCHANGED records

\* A fault: only the deadline is checked, not that the session is ready.
Admissible_AnyStatus(s) == Exists(s) /\ s \notin late

\* The checks AcquireExecLease makes, before it reserves and again after it
\* has waited for the two channels.
Admissible(s) ==
  /\ Exists(s)
  /\ s \notin late
  /\ sessions[s].status \in {"ready", "running-command"}

ActiveSessions ==
  {s \in Ids : Exists(s)
               /\ sessions[s].status \in {"starting", "ready", "running-command"}}

-----------------------------------------------------------------------------
(* Methods that run under the lock.                                        *)

Fresh(m) == [mode |-> m, status |-> "created", active |-> 0, snap |-> FALSE]

\* A fault: one session too many.
BelowLimit_OffByOne == Cardinality(ActiveSessions) <= MaximumSessions

BelowLimit == Cardinality(ActiveSessions) < MaximumSessions

CreateSession(s, m) ==
  /\ BelowLimit
  /\ s \notin issued
  /\ issued' = issued \cup {s}
  /\ sessions' = [sessions EXCEPT ![s] = Fresh(m)]
  /\ saved' = [saved EXCEPT ![s] = Fresh(m)]
  /\ UNCHANGED <<late, slots, lease, history>>

\* The first save failed: CreateSession takes the record back.
CreateFails(s) ==
  /\ BelowLimit
  /\ DiskMayFail
  /\ s \notin issued
  /\ issued' = issued \cup {s}
  /\ UNCHANGED <<records, late, slots, lease, history>>

Touch(s, r) ==
  /\ Exists(s)
  /\ Put(s, r)
  /\ UNCHANGED <<issued, late, slots, lease, history>>

GetSession(s) ==
  /\ Observe(s)
  /\ UNCHANGED <<issued, late, slots, lease, history>>

Transition(s, from, to) ==
  /\ Exists(s)
  /\ sessions[s].status = from
  /\ Touch(s, [sessions[s] EXCEPT !.status = to])

\* UpdateSessionState, with the two update functions the engine passes.
MarkReady(s) ==
  Touch(s, [sessions[s] EXCEPT !.status = "ready", !.snap = TRUE])

RecordCleanupFailure(s) ==
  Touch(s, [sessions[s] EXCEPT !.status = "cleanup-failed"])

\* BeginStopping closes the session whatever its status was; the polling
\* that follows reads Drained.
BeginStopping(s) == Touch(s, [sessions[s] EXCEPT !.status = "stopping"])

Drained(s) == sessions[s].active = 0

\* ListSessions expires every persistent session that is due.
ListSessions ==
  LET due == {s \in Ids : Overdue(s) /\ sessions[s].mode = "persistent"} IN
  /\ sessions' = [s \in Ids |-> IF s \in due THEN Aged(s) ELSE sessions[s]]
  /\ \E written \in SUBSET due :
       /\ DiskMayFail \/ written = due
       /\ saved' = [s \in Ids |-> IF s \in written THEN Aged(s) ELSE saved[s]]
  /\ UNCHANGED <<issued, late, slots, lease, history>>

\* A fault: startups that were interrupted are retried, and so are the others.
Retryable_Startups ==
  {"expired", "failed", "cleanup-failed", "created", "starting"}

\* The candidates ListStaleSessions returns; it changes nothing.
Retryable == {"expired", "failed", "cleanup-failed"}

\* A fault: a deadline counts only once some call has recorded it.
StaleSessions_Recorded ==
  {s \in Ids : Exists(s) /\ Drained(s) /\ sessions[s].status \in Retryable}

StaleSessions ==
  {s \in Ids : /\ Exists(s)
               /\ Drained(s)
               /\ s \in late \/ sessions[s].status \in Retryable}

\* A fault: the record is removed without a look at its count.
RemoveSession_Leased(s) ==
  /\ Exists(s)
  /\ sessions' = [sessions EXCEPT ![s] = NoSession]
  /\ saved' = [saved EXCEPT ![s] = NoSession]
  /\ UNCHANGED <<issued, late, slots, lease, history>>

RemoveSession(s) ==
  /\ Exists(s)
  /\ Drained(s)
  /\ sessions' = [sessions EXCEPT ![s] = NoSession]
  /\ saved' = [saved EXCEPT ![s] = NoSession]
  /\ UNCHANGED <<issued, late, slots, lease, history>>

\* A fault: the record leaves the memory before its directory is removed.
RemoveFails_Forgets(s) ==
  /\ DiskMayFail
  /\ Exists(s)
  /\ Drained(s)
  /\ sessions' = [sessions EXCEPT ![s] = NoSession]
  /\ UNCHANGED <<saved, issued, late, slots, lease, history>>

\* os.RemoveAll fails half-way: the record stays in memory, its file may not.
RemoveFails(s) ==
  /\ DiskMayFail
  /\ Exists(s)
  /\ Drained(s)
  /\ \E file \in {saved[s], NoSession} : saved' = [saved EXCEPT ![s] = file]
  /\ UNCHANGED <<sessions, issued, late, slots, lease, history>>

-----------------------------------------------------------------------------
(* AcquireExecLease.                                                       *)

\* Reserve, under the lock: count the request and go and wait.
Reserve(c, s) ==
  /\ Admissible(s)
  /\ lease[c] = Idle
  /\ lease' = [lease EXCEPT ![c] = [pc |-> "global", id |-> s]]
  /\ Put(s, [sessions[s] EXCEPT !.active = @ + 1])
  /\ UNCHANGED <<issued, late, slots, history>>

\* The session is missing, expired or not ready: the request is denied.
RefuseReservation(c, s) ==
  /\ ~ Admissible(s)
  /\ lease[c] = Idle
  /\ GetSession(s)

AcquireGlobal(c) ==
  /\ Step(c, "global", "session")
  /\ globalSem < MaximumParallelGlobalExec
  /\ globalSem' = globalSem + 1
  /\ UNCHANGED <<records, issued, late, sessionSems, history>>

\* A fault: a request cancelled here is forgotten with its count.
CancelAtGlobal_Counted(c) ==
  /\ Done(c, "global")
  /\ UNCHANGED <<records, issued, late, slots, history>>

\* ctx.Done() while waiting for the global channel.
CancelAtGlobal(c) ==
  /\ Step(c, "global", "uncount")
  /\ UNCHANGED <<records, issued, late, slots, history>>

AcquireSession(c) ==
  LET s == lease[c].id IN
  /\ Step(c, "session", "recheck")
  /\ sessionSems[s] < MaximumParallelExecPerSession
  /\ sessionSems' = [sessionSems EXCEPT ![s] = @ + 1]
  /\ UNCHANGED <<records, issued, late, globalSem, history>>

\* A fault: the slot of the session is freed, which the request never got.
CancelAtSession_Frees(c) ==
  /\ Step(c, "session", "dropSession")
  /\ UNCHANGED <<records, issued, late, slots, history>>

\* A fault: the global slot is not freed.
CancelAtSession_Leaks(c) ==
  /\ Step(c, "session", "uncount")
  /\ UNCHANGED <<records, issued, late, slots, history>>

\* ctx.Done() while waiting for the session's channel.
CancelAtSession(c) ==
  /\ Step(c, "session", "freeGlobal")
  /\ UNCHANGED <<records, issued, late, slots, history>>

\* A fault: no second check after the wait.
Admit_Unchecked(c) ==
  /\ Step(c, "recheck", "held")
  /\ UNCHANGED <<records, issued, late, slots, history>>

\* The second check, under the lock: a request that has waited is admitted
\* only to a session that is still ready and within its deadline.
Admit(c) ==
  /\ Step(c, "recheck", "held")
  /\ Admissible(lease[c].id)
  /\ UNCHANGED <<records, issued, late, slots, history>>

\* A fault: the denied request stays counted.
Refuse_Counted(c) ==
  /\ Step(c, "recheck", "dropSession")
  /\ ~ Admissible(lease[c].id)
  /\ Observe(lease[c].id)
  /\ UNCHANGED <<issued, late, slots, history>>

\* The denied request gives its count back under the same lock, after the
\* save that recorded an expiry.
Refuse(c) ==
  LET s == lease[c].id
      r == [Aged(s) EXCEPT !.active = @ - 1] IN
  /\ Step(c, "recheck", "dropSession")
  /\ ~ Admissible(s)
  /\ IF Exists(s)
       THEN /\ sessions' = [sessions EXCEPT ![s] = r]
            /\ Save(s, r, IF Overdue(s) THEN {Aged(s)} ELSE {})
       ELSE UNCHANGED records
  /\ UNCHANGED <<issued, late, slots, history>>

FreeSessionSlot(c, from, to) ==
  /\ Step(c, from, to)
  /\ sessionSems' = [sessionSems EXCEPT ![lease[c].id] = @ - 1]
  /\ UNCHANGED <<records, issued, late, globalSem, history>>

\* A fault: the slot of the session is freed over and over.
DropSession_Repeats(c) == FreeSessionSlot(c, "dropSession", "dropSession")

DropSession(c) == FreeSessionSlot(c, "dropSession", "dropGlobal")

DropGlobal(c) ==
  /\ Done(c, "dropGlobal")
  /\ globalSem' = globalSem - 1
  /\ UNCHANGED <<records, issued, late, sessionSems, history>>

-----------------------------------------------------------------------------
(* release: the command is over.                                           *)

Release(c) == FreeSessionSlot(c, "held", "freeGlobal")

\* A fault: release keeps the global slot.
FreeGlobal_Leaks(c) ==
  /\ Step(c, "freeGlobal", "uncount")
  /\ UNCHANGED <<records, issued, late, slots, history>>

FreeGlobal(c) ==
  /\ Step(c, "freeGlobal", "uncount")
  /\ globalSem' = globalSem - 1
  /\ UNCHANGED <<records, issued, late, sessionSems, history>>

\* decrementExecCount, which also ends a cancelled wait.
Uncount(c) ==
  LET s == lease[c].id
      n == sessions[s].active IN
  /\ Done(c, "uncount")
  /\ IF Exists(s)
       THEN Put(s, [sessions[s] EXCEPT !.active = IF n > 0 THEN n - 1 ELSE 0])
       ELSE UNCHANGED records
  /\ UNCHANGED <<issued, late, slots, history>>

-----------------------------------------------------------------------------
(* The world around the manager.                                           *)

DeadlinePasses(s) ==
  /\ Exists(s)
  /\ s \notin late
  /\ late' = late \cup {s}
  /\ UNCHANGED <<records, issued, slots, lease, history>>

\* The controller dies and NewManager loads what the disk holds: fresh
\* channels, no goroutine, but the active counts the files recorded.
Crash ==
  /\ crashes < MaxCrashes
  /\ crashes' = crashes + 1
  /\ sessions' = saved
  /\ leftover' = [s \in Ids |-> IF saved[s] = NoSession THEN 0
                                 ELSE saved[s].active]
  /\ globalSem' = 0
  /\ sessionSems' = [s \in Ids |-> 0]
  /\ lease' = [c \in Callers |-> Idle]
  /\ UNCHANGED <<saved, issued, late>>

-----------------------------------------------------------------------------
Init ==
  /\ sessions = [s \in Ids |-> NoSession]
  /\ saved = [s \in Ids |-> NoSession]
  /\ issued = {}
  /\ late = {}
  /\ globalSem = 0
  /\ sessionSems = [s \in Ids |-> 0]
  /\ lease = [c \in Callers |-> Idle]
  /\ leftover = [s \in Ids |-> 0]
  /\ crashes = 0

ManagerCall(s) ==
  \/ \E m \in Modes : CreateSession(s, m)
  \/ CreateFails(s)
  \/ GetSession(s)
  \/ Transition(s, "created", "starting")
  \/ MarkReady(s)
  \/ RecordCleanupFailure(s)
  \/ BeginStopping(s)
  \/ RemoveSession(s)
  \/ RemoveFails(s)

\* What a goroutine does by itself once it has started: all of it but the
\* cancellation of its request.
LeaseProgress(c) ==
  \/ AcquireGlobal(c)
  \/ AcquireSession(c)
  \/ Admit(c)
  \/ Refuse(c)
  \/ DropSession(c)
  \/ DropGlobal(c)
  \/ Release(c)
  \/ FreeGlobal(c)
  \/ Uncount(c)

LeaseStep(c) ==
  \/ \E s \in Ids : Reserve(c, s) \/ RefuseReservation(c, s)
  \/ CancelAtGlobal(c)
  \/ CancelAtSession(c)
  \/ LeaseProgress(c)

Next ==
  \/ \E s \in Ids : ManagerCall(s) \/ DeadlinePasses(s)
  \/ ListSessions
  \/ \E c \in Callers : LeaseStep(c)
  \/ Crash

Spec == Init /\ [][Next]_vars

(***************************************************************************)
(* Go serves the goroutines blocked on a channel in the order they came,   *)
(* so a slot that is freed again and again reaches each of them (SF on the *)
(* two acquisitions); a goroutine that is not blocked runs, and a command  *)
(* ends by its timeout (internal/docker, ExecInRunner) (WF).               *)
(***************************************************************************)
Fairness ==
  \A c \in Callers :
    /\ SF_vars(AcquireGlobal(c))
    /\ SF_vars(AcquireSession(c))
    /\ WF_vars(LeaseProgress(c))

FairSpec == Spec /\ Fairness

-----------------------------------------------------------------------------
(* Properties.                                                             *)

TypeOK ==
  /\ sessions \in [Ids -> Session \cup {NoSession}]
  /\ saved \in [Ids -> Session \cup {NoSession}]
  /\ issued \subseteq Ids
  /\ late \subseteq issued
  /\ globalSem \in Nat
  /\ sessionSems \in [Ids -> Nat]
  /\ lease \in [Callers -> [pc : LeaseSteps, id : Ids] \cup {Idle}]
  /\ leftover \in [Ids -> Nat]
  /\ crashes \in 0 .. MaxCrashes

\* ActiveExecCount is exact at every moment: the requests that wait, run or
\* are being released now, plus those a dead controller left on disk.  It is
\* what BeginStopping drains and what RemoveSession and the reaper trust.
LeaseAccounting ==
  \A s \in Ids :
    Exists(s) => sessions[s].active = leftover[s] + Cardinality(Counted(s))

\* The channels hold exactly the tokens of the goroutines between acquiring
\* and freeing them, on every path of grant, cancellation, denial and
\* release: no slot leaks, none is freed twice, and neither limit on parallel
\* commands is exceeded, across restarts too.
SlotAccounting ==
  /\ globalSem = Cardinality(GlobalHolders)
  /\ globalSem <= MaximumParallelGlobalExec
  /\ \A s \in Ids :
       /\ sessionSems[s] = Cardinality(SessionHolders(s))
       /\ sessionSems[s] <= MaximumParallelExecPerSession

\* RemoveSession never takes a record away under a request that is waiting
\* for a slot, running its command or releasing it, however late the session.
LeasedSessionExists ==
  \A c \in Callers : lease[c].pc \in Counting => Exists(lease[c].id)

\* The disk never knows a session the controller has forgotten, so that no
\* restart brings a removed session back, whichever writes failed.
NoResurrection == \A s \in Ids : saved[s] # NoSession => Exists(s)

\* Identifiers come from CreateSession only; nothing is kept or counted under
\* one it has not given out.
Provenance ==
  /\ \A s \in Ids \ issued : ~ Exists(s) /\ leftover[s] = 0
  /\ \A c \in Callers : lease[c] = Idle \/ lease[c].id \in issued

\* The inductive invariant.
IInv ==
  /\ TypeOK
  /\ LeaseAccounting
  /\ SlotAccounting
  /\ LeasedSessionExists
  /\ NoResurrection
  /\ Provenance

\* What session.go promises the engine: ExecLeases.
Running(s) == {c \in Callers : lease[c].pc = "held" /\ lease[c].id = s}

Leases == INSTANCE ExecLeases WITH
  running <- [s \in Ids |-> Running(s)],
  expired <- late,
  gone <- {s \in issued : ~ Exists(s)},
  SessionLimit <- MaximumParallelExecPerSession,
  GlobalLimit <- MaximumParallelGlobalExec

\* The two checks and the two channels of AcquireExecLease together admit a
\* command only to a session that exists and is within its deadline at the
\* instant of admission, and never beyond the limits.
ImplementsExecLeases == Leases!Spec

\* A request that waits is answered: the slots it waits for come back and no
\* circle of requests holds each other's slots.
RequestSettles ==
  \A c \in Callers :
    (lease[c].pc \in {"global", "session", "recheck"})
      ~> (lease[c].pc \in {"held", "idle"})

\* BeginStopping's wait ends: as long as the session stays in "stopping",
\* its running commands finish and the requests queued on it are denied, down
\* to the count inherited from a dead controller.
DrainEnds ==
  \A s \in Ids :
    (Exists(s) /\ sessions[s].status = "stopping")
      ~> (\/ ~ Exists(s)
          \/ sessions[s].status # "stopping"
          \/ sessions[s].active = leftover[s])
=============================================================================
