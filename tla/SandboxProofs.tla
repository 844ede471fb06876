--------------------------- MODULE SandboxProofs ---------------------------
(***************************************************************************)
(* A command that runs has its whole sandbox.  The argument: a session that*)
(* admits commands is whole, because it was opened by a startup that had   *)
(* seen all its resources and had the session to itself; every step that   *)
(* takes resources away is made by a goroutine that closed the session     *)
(* before (BeginStopping) and then saw no execution counted; and a command *)
(* is counted from before its second look at the status (AcquireExecLease) *)
(* until it has ended.  The disk has to take every write: with a failed    *)
(* one, a restart can bring back as ready a session that was being torn    *)
(* down.                                                                   *)
(*                                                                         *)
(* The last section is about limits.maximum_sessions, which CreateSession  *)
(* checks before the session it makes counts: a startup that is under way  *)
(* is charged to the limit from its first step, and only a creation adds   *)
(* to what is charged.                                                     *)
(***************************************************************************)
EXTENDS LabEngineProofs

\* Network, volume and runner of the session all exist.
Whole(s) == present[s] = Kinds

\* The steps at which a session is not open, and those of them at which its
\* resources may be going.
Closed == {"transition", "network", "volume", "runner", "check"}
            \cup RollbackSteps \cup {"drain", "down", "verify", "remove"}
Dismantling == {"down", "verify", "remove"} \cup RollbackSteps

\* The six parts of the invariant Sandboxes.
OpenIsWhole == \A s \in Ids : Open(s) => Whole(s)

StartedIsWhole ==
  \A c \in Callers : proc[c].pc \in {"record", "command"} => Whole(proc[c].id)

ClosedFirst == \A p \in Procs : proc[p].pc \in Closed => ~ Open(proc[p].id)

HeldIsWhole ==
  \A c \in Callers : lease[c].pc = "held" =>
    /\ Whole(lease[c].id)
    /\ \A p \in Procs : proc[p].id = lease[c].id => proc[p].pc \notin Dismantling

LeaseOfProc ==
  \A c \in Callers :
    /\ lease[c] # Idle => /\ lease[c].id = proc[c].id
                          /\ proc[c].pc \in {"lease", "leased", "release"}
    /\ proc[c].pc = "leased" => lease[c].pc = "held"

DiskExact == saved = sessions

Sandboxes ==
  /\ OpenIsWhole /\ StartedIsWhole /\ ClosedFirst /\ HeldIsWhole /\ LeaseOfProc
  /\ DiskExact

-----------------------------------------------------------------------------
\* saveSessionLocked on a disk that takes every write: the file is the record.
LEMMA SaveExact ==
  ASSUME IInv, ~ DiskMayFail, DiskExact, NEW s \in Ids, NEW r, NEW e, Save(s, r, e),
         sessions' = [sessions EXCEPT ![s] = r]
  PROVE  DiskExact'
BY DEF DiskExact, Save

\* With such a disk the files are the records, after every method of the manager.
LEMMA StepExact ==
  ASSUME IInv, ~ DiskMayFail, DiskExact, [Next]_vars
  PROVE  DiskExact'
<1>1. ASSUME NEW s \in Ids, NEW r, Put(s, r)
      PROVE  DiskExact'
  BY <1>1, SaveExact DEF Put
<1>2. ASSUME NEW s \in Ids, Observe(s)
      PROVE  DiskExact'
  BY <1>1, <1>2 DEF Observe, records, DiskExact
<1>3. ASSUME NEW s \in Ids, ManagerCall(s) \/ DeadlinePasses(s)
      PROVE  DiskExact'
  BY <1>1, <1>2, <1>3 DEF ManagerCall, CreateSession, CreateFails, GetSession,
     Transition, MarkReady, RecordCleanupFailure, BeginStopping, Touch, RemoveSession,
     RemoveFails, DeadlinePasses, DiskExact, records
<1>4. CASE ListSessions
  <2> DEFINE due == {s \in Ids : Overdue(s) /\ sessions[s].mode = "persistent"}
  <2>1. /\ sessions' = [s \in Ids |-> IF s \in due THEN Aged(s) ELSE sessions[s]]
        /\ saved' = [s \in Ids |-> IF s \in due THEN Aged(s) ELSE saved[s]]
    BY <1>4 DEF ListSessions
  <2> QED
    BY <2>1 DEF DiskExact
<1>5. ASSUME NEW c \in Callers, LeaseStep(c)
      PROVE  DiskExact'
  <2>1. CASE UNCHANGED records
    BY <2>1 DEF records, DiskExact
  <2>2. CASE \E s \in Ids : Reserve(c, s) \/ RefuseReservation(c, s)
    BY <1>1, <1>2, <2>2 DEF Reserve, RefuseReservation, GetSession
  <2>3. CASE Refuse(c)
    <3>1. lease[c].id \in Ids
      BY <2>3, StepMoves DEF Refuse, LeaseSteps, IInv
    <3> QED
      BY <2>3, <3>1, SaveExact DEF Refuse, records, DiskExact
  <2>4. CASE Uncount(c)
    <3>1. lease[c].id \in Ids
      BY <2>4, DoneMoves DEF Uncount, LeaseSteps, IInv
    <3> QED
      BY <1>1, <2>4, <3>1 DEF Uncount, records, DiskExact
  <2> QED
    BY <1>5, <2>1, <2>2, <2>3, <2>4 DEF LeaseStep, LeaseProgress, CancelAtGlobal,
       CancelAtSession, AcquireGlobal, AcquireSession, Admit, DropSession, DropGlobal,
       Release, FreeSessionSlot, FreeGlobal
<1>6. CASE Crash \/ UNCHANGED vars
  BY <1>6 DEF Crash, vars, DiskExact
<1> QED
  BY <1>3, <1>4, <1>5, <1>6 DEF Next

\* No step opens a session, but the one that records a startup.
LEMMA OpensOnlyAtRecord ==
  ASSUME LabInv, [LabNext]_labVars, ~ ControllerDies, NEW x \in Ids, ~ Open(x)
  PROVE  ~ Open(x)' \/ \E c \in Callers : proc[c].pc = "record" /\ proc[c].id = x
<1>0. IInv
  BY DEF LabInv
<1>1. CASE UNCHANGED vars \/ (\E s \in Ids : DeadlinePasses(s))
  BY <1>1 DEF vars, DeadlinePasses, records, Open, Exists
<1>2. CASE \/ \E s \in Ids : OtherCall(s)
           \/ ListSessions
           \/ \E c \in Callers : LeaseStep(c)
  BY <1>0, <1>2, OtherDown, ListDown, LeasesDown DEF Down
<1>3. CASE \E s \in Ids, m \in Modes : CreateSession(s, m)
  BY <1>0, <1>3, CreateDown
<1>4. CASE \E c \in Callers : Starts(c)
  BY <1>0, <1>4, StartupOn, ReadyDown, TransitDown DEF Starts, StartupSteps, Down
<1> QED
  BY <1>1, <1>2, <1>3, <1>4, RecordStep

-----------------------------------------------------------------------------
\* Only a docker compose up, a rollback and a docker compose down touch the
\* resources of a session.
LEMMA PresentFrame ==
  ASSUME LabInv, [LabNext]_labVars, ~ ControllerDies, NEW x \in Ids
  PROVE  \/ present'[x] = present[x]
         \/ \E c \in Callers : /\ proc[c].id = x
                               /\ proc[c].pc \in {"network", "volume", "runner", "rbdown"}
         \/ \E p \in Procs : proc[p].id = x /\ proc[p].pc = "down"
<1>0. present \in [Ids -> SUBSET Kinds]
  BY StartupOn
<1>1. ASSUME NEW c \in Callers, Request(c)
      PROVE  present' = present
  BY <1>1 DEF Request, BeginStartup, BeginStop, BeginExec, Status, Create, engine
<1>2. ASSUME NEW c \in Callers, ComposeUp(c)
      PROVE  \/ present'[x] = present[x]
             \/ proc[c].id = x /\ proc[c].pc \in {"network", "volume", "runner"}
  BY <1>0, <1>2 DEF ComposeUp, BringUp, Goto
<1>3. ASSUME NEW c \in Callers, RollbackDown(c)
      PROVE  present'[x] = present[x] \/ (proc[c].id = x /\ proc[c].pc = "rbdown")
  BY <1>0, <1>3 DEF RollbackDown, Goto
<1>4. ASSUME NEW c \in Callers, Work(c), ~ ComposeUp(c), ~ RollbackDown(c)
      PROVE  present' = present
  BY <1>4 DEF Work, Restart, Create, Transit, ComposeUpFails, RecordReady,
     CommandReturns, RollbackLookup, RollbackVerify, RollbackRemove, RollbackFails,
     ReadAgain, WaitForLease, LeaseDenied, RunLeased, CommandEnds, ReleaseLease, engine
<1>5. ASSUME NEW p \in Procs, Cleanup(p)
      PROVE  present'[x] = present[x] \/ (proc[p].id = x /\ proc[p].pc = "down")
  BY <1>0, <1>5 DEF Cleanup, Lookup, Inspect, InspectFails, Mark, Drain,
     DrainTimesOut, ComposeDown, ComposeDownFails, Verify, VerifyFails, Remove,
     Failed, Return, Goto
<1>6. Sweep \/ NextCandidate \/ (\E s \in Ids : Deadline(s)) \/ UNCHANGED labVars
        => present' = present
  BY DEF Sweep, NextCandidate, Deadline, engine, labVars
<1> QED
  BY <1>1, <1>2, <1>3, <1>4, <1>5, <1>6 DEF LabNext

\* Session x is open afterwards.
Opened(x) ==
  sessions'[x] # NoSession /\ sessions'[x].status \in {"ready", "running-command"}

\* Where a goroutine may have come from.
Path(p) ==
  LET o == proc[p]
      n == proc'[p] IN
  /\ n.pc \in {"record", "command"} =>
       /\ n.id = o.id
       /\ o.pc \in {"record", "command"} \/ (o.pc = "check" /\ Whole(o.id))
  /\ n.pc \in Closed => (o.pc \in Closed /\ n.id = o.id) \/ ~ Opened(n.id)
  /\ n.pc \in Dismantling =>
       /\ n.id = o.id
       /\ o.pc \in Closed
       /\ \/ o.pc \in Dismantling
          \/ o.pc = "drain" /\ (Exists(o.id) => Drained(o.id))
          \/ p \in Callers /\ o.pc \in StartupSteps

\* The next step of an operation, as the record of the goroutine.
LEMMA GotoPath ==
  ASSUME LabInv, NEW p \in Procs, NEW from, NEW to, Goto(p, from, to)
  PROVE  /\ proc[p].pc = from /\ proc'[p].pc = to /\ proc'[p].id = proc[p].id
         /\ \A q \in Procs : q # p => proc'[q] = proc[q]
BY GotoTo, StartupOn

\* An operation that returns or turns to another step, as that record.
LEMMA BecomePath ==
  ASSUME LabInv, NEW p \in Procs, NEW from, NEW r, Become(p, from, r)
  PROVE  /\ proc[p].pc = from /\ proc'[p] = r
         /\ \A q \in Procs : q # p => proc'[q] = proc[q]
BY StartupOn DEF Become

\* A goroutine that is at none of the steps in question has nothing to show.
LEMMA ElsewherePath ==
  ASSUME NEW p, proc'[p].pc \notin {"record", "command"} \cup Closed
  PROVE  Path(p)
BY DEF Path, Closed, Dismantling

\* Run, StartSession and the ephemeral HTTPRequest record a startup only after
\* ComposeUp has seen one resource of each kind.
LEMMA StartupPath ==
  ASSUME LabInv, Owned, NEW c \in Callers,
         \/ \E s \in Ids, op \in Ops : BeginStartup(c, op, s)
         \/ Restart(c) \/ Transit(c) \/ ComposeUp(c) \/ ComposeUpFails(c)
         \/ RecordReady(c) \/ CommandReturns(c)
  PROVE  \A p \in Procs : proc'[p] = proc[p] \/ Path(p)
<1>0. c \in Procs /\ Ops \subseteq OpNames /\ IInv /\ proc \in [Procs -> ProcRecords]
  BY EngineAssumption, StartupOn DEF Procs, LabInv
<1>1. ASSUME NEW s \in Ids, NEW op \in OpNames, Create(c, op, s)
      PROVE  \A p \in Procs : proc'[p] = proc[p] \/ Path(p)
  <2>1. /\ \A p \in Procs : p # c => proc'[p] = proc[p]
        /\ proc'[c].pc \in {"transition", "network"} /\ proc'[c].id = s
    BY <1>0, <1>1 DEF Create, FirstStep
  <2>2. PICK m \in Modes : CreateSession(s, m)
    BY <1>1 DEF Create, ModeOf, Modes
  <2>3. ~ Opened(s)
    <3>1. Fresh(m).status \notin {"ready", "running-command"}
      BY DEF Fresh
    <3> QED
      BY <1>0, <2>2, <3>1 DEF CreateSession, Opened, IInv, TypeOK
  <2>4. Path(c)
    BY <2>1, <2>3 DEF Path, Dismantling, RollbackSteps
  <2> QED
    BY <2>1, <2>4
<1>2. Unoccupied.pc = "idle" /\ "idle" \notin {"record", "command"} \cup Closed
      /\ "lookup" \notin {"record", "command"} \cup Closed
  BY DEF Unoccupied, Closed, RollbackSteps
<1>3. CASE \E s \in Ids, op \in Ops : BeginStartup(c, op, s)
  BY <1>0, <1>1, <1>3 DEF BeginStartup, engine
<1>4. CASE Restart(c)
  <2>1. CASE Become(c, "restart", Unoccupied)
    BY <1>0, <1>2, <2>1, BecomePath, ElsewherePath
  <2> QED
    BY <1>1, <1>4, <2>1 DEF Restart, OpNames
<1>5. CASE Transit(c)
  BY <1>0, <1>5, GotoPath DEF Transit, Path, Closed, Dismantling, RollbackSteps
<1>6. CASE ComposeUp(c)
  <2>1. CASE \/ BringUp(c, "network", "volume") \/ BringUp(c, "volume", "runner")
             \/ BringUp(c, "runner", "check")
    BY <1>0, <2>1, GotoPath DEF BringUp, Path, Closed, Dismantling, RollbackSteps
  <2>2. CASE Goto(c, "check", "record") /\ present[proc[c].id] = Kinds
    BY <1>0, <2>2, GotoPath DEF Path, Closed, Dismantling, RollbackSteps, Whole
  <2> QED
    BY <1>6, <2>1, <2>2 DEF ComposeUp
<1>7. CASE ComposeUpFails(c)
  <2>1. Goto(c, proc[c].pc, "rblookup") /\ proc[c].pc \in StartupSteps \cap Closed
    BY <1>7 DEF ComposeUpFails, Goto, StartupSteps, Closed
  <2> QED
    BY <1>0, <2>1, GotoPath DEF Path
<1>8. CASE RecordReady(c)
  <2>1. CASE Become(c, "record", Unoccupied)
    BY <1>0, <1>2, <2>1, BecomePath, ElsewherePath
  <2>2. CASE Goto(c, "record", "command")
    BY <1>0, <2>2, GotoPath DEF Path, Closed, Dismantling, RollbackSteps
  <2> QED
    BY <1>8, <2>1, <2>2 DEF RecordReady
<1>9. CASE CommandReturns(c)
  <2>1. CASE Goto(c, "command", "lookup")
    BY <1>0, <1>2, <2>1, GotoPath, ElsewherePath
  <2>2. CASE proc' = [proc EXCEPT ![c].op = "answered", ![c].pc = "lookup"]
    <3>1. /\ \A p \in Procs : p # c => proc'[p] = proc[p]
          /\ proc'[c] = [proc[c] EXCEPT !.op = "answered", !.pc = "lookup"]
      BY <1>0, <2>2
    <3>2. proc'[c].pc = "lookup"
      BY <1>0, <3>1 DEF ProcRecords
    <3> QED
      BY <1>2, <3>1, <3>2, ElsewherePath
  <2> QED
    BY <1>9, <2>1, <2>2 DEF CommandReturns
<1> QED
  BY <1>3, <1>4, <1>5, <1>6, <1>7, <1>8, <1>9

\* rollbackStartup follows a startup that has not been recorded.
LEMMA RollbackPath ==
  ASSUME LabInv, NEW c \in Callers,
         \/ RollbackLookup(c) \/ RollbackDown(c) \/ RollbackVerify(c)
         \/ RollbackRemove(c) \/ RollbackFails(c)
  PROVE  \A p \in Procs : proc'[p] = proc[p] \/ Path(p)
<1>0. c \in Procs /\ proc \in [Procs -> ProcRecords]
  BY StartupOn DEF Procs
<1>1. CASE \E from : Become(c, from, AfterRollback(c))
  <2>1. AfterRollback(c).pc \in {"idle", "lookup"}
    BY <1>0 DEF AfterRollback, Unoccupied, ProcRecords
  <2>2. "idle" \notin {"record", "command"} \cup Closed
        /\ "lookup" \notin {"record", "command"} \cup Closed
    BY DEF Closed, RollbackSteps
  <2> QED
    BY <1>0, <1>1, <2>1, <2>2, BecomePath, ElsewherePath
<1>2. CASE \E from \in RollbackSteps, to \in RollbackSteps : Goto(c, from, to)
  <2>1. RollbackSteps \subseteq Dismantling \cap Closed
        /\ RollbackSteps \cap {"record", "command"} = {}
    BY DEF Dismantling, Closed, RollbackSteps
  <2> QED
    BY <1>0, <1>2, <2>1, GotoPath DEF Path
<1> QED
  BY <1>1, <1>2 DEF RollbackLookup, RollbackDown, RollbackVerify, RollbackRemove,
     RollbackFails, RollbackSteps

\* cleanupSession marks the session as stopping and waits for its executions
\* before it calls docker compose down.
LEMMA CleanupPath ==
  ASSUME LabInv, NEW p \in Procs, Cleanup(p)
  PROVE  \A q \in Procs : proc'[q] = proc[q] \/ Path(q)
<1>0. proc \in [Procs -> ProcRecords] /\ IInv
  BY StartupOn DEF LabInv
<1>1. \A st \in {"idle", "restart", "lookup", "inspect", "mark", "failed"} :
        st \notin {"record", "command"} \cup Closed
  BY DEF Closed, RollbackSteps
<1>2. CASE \E from, b : Return(p, from, b)
  <2>1. \A b : AfterCleanup(p, b).pc \in {"idle", "restart"}
    BY DEF AfterCleanup, Unoccupied
  <2> QED
    BY <1>0, <1>1, <1>2, <2>1, BecomePath, ElsewherePath DEF Return
<1>3. CASE \E from : \E to \in {"mark", "failed"} : Goto(p, from, to)
  BY <1>1, <1>3, GotoPath, ElsewherePath
<1>4. CASE proc' = [proc EXCEPT ![p].pc = "inspect",
                                ![p].snap = sessions[proc[p].id].snap]
  <2>1. /\ \A q \in Procs : q # p => proc'[q] = proc[q]
        /\ proc'[p] = [proc[p] EXCEPT !.pc = "inspect",
                                      !.snap = sessions[proc[p].id].snap]
    BY <1>0, <1>4
  <2>2. proc'[p].pc = "inspect"
    BY <1>0, <2>1 DEF ProcRecords
  <2> QED
    BY <1>1, <2>1, <2>2, ElsewherePath
<1>5. CASE Goto(p, "mark", "drain") /\ BeginStopping(proc[p].id)
  <2>1. proc[p].id \in Ids
    BY <1>5 DEF Goto, LabInv, EngineOK, IInv, TypeOK, Resting
  <2>2. ~ Opened(proc[p].id)
    <3>1. sessions[proc[p].id] \in Session
      BY <1>0, <1>5, <2>1 DEF BeginStopping, Touch, Exists, IInv, TypeOK
    <3>2. sessions'[proc[p].id].status = "stopping"
      BY <1>0, <1>5, <2>1, <3>1 DEF BeginStopping, Touch, Put, IInv, TypeOK, Session
    <3> QED
      BY <3>2 DEF Opened
  <2> QED
    BY <1>5, <2>2, GotoPath DEF Path, Dismantling, RollbackSteps
<1>6. CASE Drain(p)
  BY <1>6, GotoPath DEF Drain, Path, Closed, Dismantling
<1>7. CASE Goto(p, "down", "verify") \/ Goto(p, "verify", "remove")
  BY <1>7, GotoPath DEF Path, Closed, Dismantling
<1> QED
  BY <1>2, <1>3, <1>4, <1>5, <1>6, <1>7 DEF Cleanup, Lookup, Inspect, InspectFails,
     Mark, DrainTimesOut, ComposeDown, ComposeDownFails, Verify, VerifyFails, Remove,
     Failed

\* Requests, leases and commands take no resource and record no startup.
LEMMA LeasedPath ==
  ASSUME LabInv, NEW c \in Callers,
         \/ \E s \in Ids : BeginExec(c, s) \/ \E op \in Ops : BeginStop(c, op, s)
         \/ Status(c) \/ ReadAgain(c) \/ WaitForLease(c) \/ LeaseDenied(c)
         \/ RunLeased(c) \/ CommandEnds(c) \/ ReleaseLease(c)
  PROVE  \A p \in Procs : proc'[p] = proc[p] \/ Path(p)
<1>0. c \in Procs /\ proc \in [Procs -> ProcRecords]
  BY StartupOn DEF Procs
<1> DEFINE rest == {"idle", "lookup", "panic"} \cup LeasedSteps
<1>1. \A st \in rest : st \notin {"record", "command"} \cup Closed
  BY DEF Closed, RollbackSteps, LeasedSteps
<1>2. ASSUME NEW r, proc' = [proc EXCEPT ![c] = r], r.pc \in rest
      PROVE  \A p \in Procs : proc'[p] = proc[p] \/ Path(p)
  BY <1>0, <1>1, <1>2, ElsewherePath
<1>3. ASSUME NEW from, NEW to \in rest, Goto(c, from, to)
      PROVE  \A p \in Procs : proc'[p] = proc[p] \/ Path(p)
  BY <1>0, <1>1, <1>3, GotoPath, ElsewherePath
<1>4. "lookup" \in rest /\ "lease" \in rest /\ "leased" \in rest
      /\ "release" \in rest /\ "again" \in rest /\ "panic" \in rest
      /\ Unoccupied.pc \in rest
  BY DEF LeasedSteps, Unoccupied
<1>5. Erred(c).pc \in rest
  BY <1>0, <1>4 DEF Erred, ProcRecords
<1> HIDE DEF rest
<1>6. ASSUME NEW op, NEW s, TakeLease(c, op, s)
      PROVE  \A p \in Procs : proc'[p] = proc[p] \/ Path(p)
  <2>1. \A x : \A st \in rest :
          [op |-> op, pc |-> st, id |-> x, snap |-> FALSE].pc \in rest
    OBVIOUS
  <2> QED
    BY <1>2, <1>4, <1>6, <2>1 DEF TakeLease
<1>7. CASE \E s \in Ids : BeginExec(c, s) \/ \E op \in Ops : BeginStop(c, op, s)
  BY <1>2, <1>4, <1>6, <1>7 DEF BeginExec, BeginStop, Become
<1>8. CASE Status(c) \/ WaitForLease(c)
  BY <1>8 DEF Status, WaitForLease, engine
<1>9. CASE ReadAgain(c) \/ LeaseDenied(c)
  BY <1>2, <1>5, <1>6, <1>9 DEF ReadAgain, LeaseDenied, Become
<1>10. CASE RunLeased(c) \/ CommandEnds(c)
  BY <1>3, <1>4, <1>10 DEF RunLeased, CommandEnds
<1>11. CASE ReleaseLease(c)
  BY <1>2, <1>3, <1>4, <1>5, <1>11 DEF ReleaseLease, Become
<1> QED
  BY <1>7, <1>8, <1>9, <1>10, <1>11

\* So it is for every step but the controller's death.
LEMMA StepPath ==
  ASSUME LabInv, Owned, [LabNext]_labVars, ~ ControllerDies
  PROVE  \A p \in Procs : proc'[p] = proc[p] \/ Path(p)
<1>1. CASE UNCHANGED labVars \/ Sweep \/ \E s \in Ids : Deadline(s)
  BY <1>1 DEF labVars, engine, Sweep, Deadline
<1>2. CASE NextCandidate
  <2>1. PICK s \in todo :
          Become(Reaper, "idle",
                 [op |-> "reap", pc |-> "lookup", id |-> s, snap |-> FALSE])
    BY <1>2 DEF NextCandidate
  <2>2. Reaper \in Procs /\ "lookup" \notin {"record", "command"} \cup Closed
    BY DEF Procs, Closed, RollbackSteps
  <2>3. proc'[Reaper].pc = "lookup"
        /\ \A q \in Procs : q # Reaper => proc'[q] = proc[q]
    BY <2>1, <2>2, StartupOn DEF Become
  <2> QED
    BY <2>2, <2>3, ElsewherePath
<1>3. ASSUME NEW p \in Procs, Cleanup(p)
      PROVE  \A q \in Procs : proc'[q] = proc[q] \/ Path(q)
  BY <1>3, CleanupPath
<1>4. ASSUME NEW c \in Callers, Request(c) \/ Work(c)
      PROVE  \A p \in Procs : proc'[p] = proc[p] \/ Path(p)
  BY <1>4, StartupPath, RollbackPath, LeasedPath DEF Request, Work
<1> QED
  BY <1>1, <1>2, <1>3, <1>4 DEF LabNext

-----------------------------------------------------------------------------
\* A lease is held only after the second check of AcquireExecLease.
LEMMA HeldComes ==
  ASSUME IInv, [Next]_vars, ~ Crash, NEW c \in Callers, lease'[c].pc = "held"
  PROVE  \/ lease'[c] = lease[c]
         \/ lease'[c].id = lease[c].id /\ Admissible(lease[c].id)
<1>0. TypeOK /\ lease \in [Callers -> {Idle} \cup [pc : LeaseSteps, id : Ids]]
  BY DEF IInv, TypeOK
<1>1. CASE UNCHANGED lease
  BY <1>1
<1>2. ASSUME NEW d \in Callers, d # c, NEW r, lease' = [lease EXCEPT ![d] = r]
      PROVE  lease'[c] = lease[c]
  BY <1>0, <1>2
<1>5. ASSUME NEW d \in Callers, NEW from \in LeaseSteps, NEW to \in LeaseSteps,
             Step(d, from, to)
      PROVE  /\ d # c => lease'[c] = lease[c]
             /\ d = c => to = "held" /\ lease'[c].id = lease[c].id
  <2> DEFINE r == [pc |-> to, id |-> lease[d].id]
  <2>1. lease' = [lease EXCEPT ![d] = r]
    BY <1>0, <1>5, StepMoves
  <2>2. d = c => lease'[c] = r
    BY <1>0, <2>1
  <2> QED
    BY <1>2, <2>1, <2>2
<1>3. ASSUME NEW d \in Callers, LeaseStep(d)
      PROVE  \/ lease'[c] = lease[c]
             \/ lease'[c].id = lease[c].id /\ Admissible(lease[c].id)
  <2>1. CASE \E s \in Ids : RefuseReservation(d, s)
    BY <2>1 DEF RefuseReservation, GetSession
  <2>2. CASE \E s \in Ids : Reserve(d, s)
    BY <1>0, <2>2 DEF Reserve
  <2>3. CASE Admit(d)
    BY <1>5, <2>3 DEF Admit, LeaseSteps
  <2>4. CASE \E from \in LeaseSteps : Done(d, from)
    BY <1>0, <2>4 DEF Done, Idle
  <2>5. CASE \E from, to \in LeaseSteps \ {"held"} : Step(d, from, to)
    BY <1>5, <2>5
  <2>6. CASE Step(d, "held", "freeGlobal")
    BY <1>5, <2>6 DEF LeaseSteps
  <2> QED
    BY <1>3, <2>1, <2>2, <2>3, <2>4, <2>5, <2>6 DEF LeaseStep, LeaseProgress,
       CancelAtGlobal, CancelAtSession, AcquireGlobal, AcquireSession, Refuse,
       DropSession, DropGlobal, Release, FreeSessionSlot, FreeGlobal, Uncount,
       LeaseSteps
<1>4. ASSUME NEW s \in Ids, ManagerCall(s) \/ DeadlinePasses(s)
      PROVE  UNCHANGED lease
  BY <1>4 DEF ManagerCall, CreateSession, CreateFails, GetSession, Transition,
     MarkReady, RecordCleanupFailure, BeginStopping, Touch, RemoveSession,
     RemoveFails, DeadlinePasses
<1> QED
  BY <1>1, <1>3, <1>4 DEF Next, ListSessions, vars

-----------------------------------------------------------------------------
\* The steps of execInternal at which the manager's lease may be taken.
LeaseAt == {"lease", "leased", "release"}

\* Goroutine p is outside the protocol and stays so, or is about to enter it.
Outside(p) == proc[p].pc \notin LeaseAt /\ proc'[p].pc # "leased"

\* What happens outside the lease protocol leaves the leases where they are.
LEMMA OutsideKeeps ==
  ASSUME LabInv, LeaseOfProc, lease' = lease,
         \A p \in Callers : proc'[p] = proc[p] \/ Outside(p)
  PROVE  LeaseOfProc'
BY DEF LeaseOfProc, Outside, LeaseAt

\* Startups take no lease: their command runs without one (engine.go:162).
LEMMA StartupOutside ==
  ASSUME LabInv, LeaseOfProc, NEW c \in Callers,
         \/ \E s \in Ids, op \in Ops : BeginStartup(c, op, s)
         \/ Restart(c) \/ Transit(c) \/ ComposeUp(c) \/ ComposeUpFails(c)
         \/ RecordReady(c) \/ CommandReturns(c)
  PROVE  LeaseOfProc'
<1>0. c \in Procs /\ proc \in [Procs -> ProcRecords] /\ Callers \subseteq Procs
  BY StartupOn DEF Procs
<1>1. lease' = lease
  BY DEF BeginStartup, Create, CreateSession, CreateFails, Restart, Transit,
     Transition, Touch, ComposeUp, BringUp, ComposeUpFails, RecordReady, MarkReady,
     CommandReturns, vars
<1>2. ASSUME NEW from, from \notin LeaseAt, NEW to, to # "leased", Goto(c, from, to)
      PROVE  LeaseOfProc'
  BY <1>0, <1>1, <1>2, GotoPath, OutsideKeeps DEF Outside
<1>3. ASSUME NEW r, r.pc # "leased", proc[c].pc \notin LeaseAt,
             proc' = [proc EXCEPT ![c] = r]
      PROVE  LeaseOfProc'
  BY <1>0, <1>1, <1>3, OutsideKeeps DEF Outside
<1>4. Unoccupied.pc # "leased"
  BY DEF Unoccupied
<1>5. ASSUME NEW s, NEW op, Create(c, op, s), proc[c].pc \notin LeaseAt
      PROVE  LeaseOfProc'
  <2>1. [op |-> op, pc |-> FirstStep(op), id |-> s, snap |-> FALSE].pc # "leased"
    BY DEF FirstStep
  <2> QED
    BY <1>3, <1>5, <2>1 DEF Create
<1>6. CASE \E s \in Ids, op \in Ops : BeginStartup(c, op, s)
  BY <1>1, <1>5, <1>6, OutsideKeeps DEF BeginStartup, engine, LeaseAt
<1>7. CASE Restart(c)
  <2>1. proc[c].pc = "restart"
    BY <1>7 DEF Restart
  <2> QED
    BY <1>3, <1>4, <1>5, <1>7, <2>1 DEF Restart, Become, LeaseAt
<1>8. CASE Transit(c) \/ ComposeUp(c)
  BY <1>2, <1>8 DEF Transit, ComposeUp, BringUp, LeaseAt
<1>9. CASE ComposeUpFails(c)
  <2>1. Goto(c, proc[c].pc, "rblookup") /\ proc[c].pc \notin LeaseAt
    BY <1>9 DEF ComposeUpFails, Goto, LeaseAt
  <2> QED
    BY <1>2, <2>1
<1>10. CASE RecordReady(c)
  <2>1. CASE Become(c, "record", Unoccupied)
    BY <1>3, <1>4, <2>1 DEF Become, LeaseAt
  <2>2. CASE Goto(c, "record", "command")
    BY <1>2, <2>2 DEF LeaseAt
  <2> QED
    BY <1>10, <2>1, <2>2 DEF RecordReady
<1>11. CASE CommandReturns(c)
  <2>1. CASE Goto(c, "command", "lookup")
    BY <1>2, <2>1 DEF LeaseAt
  <2>2. CASE proc' = [proc EXCEPT ![c].op = "answered", ![c].pc = "lookup"]
    <3> DEFINE r == [proc[c] EXCEPT !.op = "answered", !.pc = "lookup"]
    <3>1. proc' = [proc EXCEPT ![c] = r]
      BY <1>0, <2>2
    <3>2. r.pc = "lookup"
      BY <1>0 DEF ProcRecords
    <3>3. proc[c].pc = "command"
      BY <1>11 DEF CommandReturns
    <3> HIDE DEF r
    <3> QED
      BY <1>3, <3>1, <3>2, <3>3 DEF LeaseAt
  <2> QED
    BY <1>11, <2>1, <2>2 DEF CommandReturns
<1> QED
  BY <1>6, <1>7, <1>8, <1>9, <1>10, <1>11

\* Rollbacks and cleanups take no lease.
LEMMA CleanupOutside ==
  ASSUME LabInv, LeaseOfProc, NEW p \in Procs,
         \/ Cleanup(p)
         \/ p \in Callers /\ (RollbackLookup(p) \/ RollbackDown(p) \/ RollbackVerify(p)
                             \/ RollbackRemove(p) \/ RollbackFails(p))
  PROVE  LeaseOfProc'
<1>0. proc \in [Procs -> ProcRecords] /\ Callers \subseteq Procs
  BY StartupOn DEF Procs
<1>1. lease' = lease
  BY DEF RollbackLookup, RollbackDown, RollbackVerify, RollbackRemove, RollbackFails,
     GetSession, RemoveSession, RemoveFails, RecordCleanupFailure, Touch, Cleanup,
     Lookup, Inspect, InspectFails, Mark, BeginStopping, Drain, DrainTimesOut,
     ComposeDown, ComposeDownFails, Verify, VerifyFails, Remove, Failed, vars
<1>2. /\ proc[p].pc \in RollbackSteps \cup CleanupSteps
      /\ \A q \in Procs \ {p} : proc'[q] = proc[q]
  BY <1>0 DEF RollbackLookup, RollbackDown, RollbackVerify, RollbackRemove,
     RollbackFails, Cleanup, Lookup, Inspect, InspectFails, Mark, Drain, DrainTimesOut,
     ComposeDown, ComposeDownFails, Verify, VerifyFails, Remove, Failed, Return,
     Become, Goto, RollbackSteps, CleanupSteps
<1>3. proc[p].pc \notin LeaseAt
  BY <1>2 DEF RollbackSteps, CleanupSteps, LeaseAt
<1>4. proc'[p].pc # "leased"
  <2>1. CASE \E from, b : Return(p, from, b)
    <3>1. \A b : AfterCleanup(p, b).pc # "leased"
      BY DEF AfterCleanup, Unoccupied
    <3> QED
      BY <1>0, <2>1, <3>1, BecomePath DEF Return
  <2>2. CASE \E from : \E to \in RollbackSteps \cup CleanupSteps : Goto(p, from, to)
    <3>1. "leased" \notin RollbackSteps \cup CleanupSteps
      BY DEF RollbackSteps, CleanupSteps
    <3> QED
      BY <1>0, <2>2, <3>1, GotoPath
  <2>3. CASE proc' = [proc EXCEPT ![p].pc = "inspect",
                                  ![p].snap = sessions[proc[p].id].snap]
    <3>1. proc'[p] = [proc[p] EXCEPT !.pc = "inspect",
                                     !.snap = sessions[proc[p].id].snap]
      BY <1>0, <2>3
    <3> QED
      BY <1>0, <3>1 DEF ProcRecords
  <2>4. CASE \E from : Become(p, from, AfterRollback(p))
    <3>1. AfterRollback(p).pc # "leased"
      BY <1>0 DEF AfterRollback, Unoccupied, ProcRecords
    <3> QED
      BY <1>0, <2>4, <3>1, BecomePath
  <2> QED
    BY <2>1, <2>2, <2>3, <2>4 DEF RollbackLookup, RollbackDown, RollbackVerify,
       RollbackRemove, RollbackFails, Cleanup, Lookup, Inspect, InspectFails, Mark,
       Drain, DrainTimesOut, ComposeDown, ComposeDownFails, Verify, VerifyFails, Remove,
       Failed, RollbackSteps, CleanupSteps
<1>5. \A q \in Callers : proc'[q] = proc[q] \/ Outside(q)
  BY <1>0, <1>2, <1>3, <1>4 DEF Outside
<1> QED
  BY <1>1, <1>5, OutsideKeeps

\* execInternal takes its lease for its own session, runs its command only
\* while it holds it and releases it before anything else.
LEMMA LeasedInside ==
  ASSUME LabInv, LeaseOfProc, NEW c \in Callers,
         \/ \E s \in Ids : BeginExec(c, s) \/ \E op \in Ops : BeginStop(c, op, s)
         \/ Status(c) \/ ReadAgain(c) \/ WaitForLease(c) \/ LeaseDenied(c)
         \/ RunLeased(c) \/ CommandEnds(c) \/ ReleaseLease(c)
  PROVE  LeaseOfProc'
<1>0. /\ c \in Procs /\ proc \in [Procs -> ProcRecords] /\ Callers \subseteq Procs
      /\ TypeOK /\ lease \in [Callers -> {Idle} \cup [pc : LeaseSteps, id : Ids]]
  BY StartupOn DEF Procs, LabInv, IInv, TypeOK
\* c is at r in the engine and at l in the manager.
<1>1. ASSUME NEW r, NEW l, proc' = [proc EXCEPT ![c] = r],
             lease' = [lease EXCEPT ![c] = l],
             l # Idle => l.id = r.id /\ r.pc \in LeaseAt,
             r.pc = "leased" => l.pc = "held"
      PROVE  LeaseOfProc'
  BY <1>0, <1>1 DEF LeaseOfProc, LeaseAt
<1>2. ASSUME NEW from \in LeaseSteps, NEW to \in LeaseSteps, Step(c, from, to)
      PROVE  /\ lease[c].pc = from /\ lease[c].id = proc[c].id /\ lease[c] # Idle
             /\ lease' = [lease EXCEPT ![c] = [pc |-> to, id |-> proc[c].id]]
             /\ proc[c].pc \in LeaseAt
  <2>1. /\ lease[c].pc = from /\ lease[c] # Idle
        /\ lease' = [lease EXCEPT ![c] = [pc |-> to, id |-> lease[c].id]]
    BY <1>0, <1>2, StepMoves
  <2>2. lease[c].id = proc[c].id /\ proc[c].pc \in LeaseAt
    BY <2>1 DEF LeaseOfProc, LeaseAt
  <2> QED
    BY <2>1, <2>2
<1>3. ASSUME NEW from, NEW to, Goto(c, from, to)
      PROVE  \E r : proc' = [proc EXCEPT ![c] = r] /\ r.pc = to /\ r.id = proc[c].id
  BY <1>0, <1>3, GotoTo
<1>4. Unoccupied.pc = "idle"
  BY DEF Unoccupied
<1>5. ASSUME NEW op, NEW s, TakeLease(c, op, s)
      PROVE  LeaseOfProc'
  <2>1. CASE /\ Reserve(c, s)
             /\ proc' = [proc EXCEPT ![c] =
                           [op |-> op, pc |-> "lease", id |-> s, snap |-> FALSE]]
    <3> DEFINE r == [op |-> op, pc |-> "lease", id |-> s, snap |-> FALSE]
               l == [pc |-> "global", id |-> s]
    <3>1. lease' = [lease EXCEPT ![c] = l] /\ proc' = [proc EXCEPT ![c] = r]
      BY <2>1 DEF Reserve
    <3>2. l.id = r.id /\ r.pc = "lease"
      OBVIOUS
    <3> HIDE DEF r, l
    <3> QED
      BY <1>1, <3>1, <3>2 DEF LeaseAt
  <2>2. CASE /\ RefuseReservation(c, s)
             /\ proc' = [proc EXCEPT ![c] =
                   IF op = "exec" THEN Unoccupied
                   ELSE [op |-> op, pc |-> "panic", id |-> s, snap |-> FALSE]]
    <3>1. lease[c] = Idle /\ lease' = lease
      BY <2>2 DEF RefuseReservation, GetSession
    <3>2. PICK r : proc' = [proc EXCEPT ![c] = r] /\ r.pc \in {"idle", "panic"}
      <4>1. CASE op = "exec"
        BY <1>4, <2>2, <4>1
      <4>2. CASE op # "exec"
        <5> DEFINE r == [op |-> op, pc |-> "panic", id |-> s, snap |-> FALSE]
        <5>1. proc' = [proc EXCEPT ![c] = r] /\ r.pc = "panic"
          BY <2>2, <4>2
        <5> HIDE DEF r
        <5> QED
          BY <5>1
      <4> QED
        BY <4>1, <4>2
    <3>3. lease' = [lease EXCEPT ![c] = Idle]
      BY <1>0, <3>1
    <3> QED
      BY <1>1, <3>2, <3>3
  <2> QED
    BY <1>5, <2>1, <2>2 DEF TakeLease
<1>6. CASE \E s \in Ids : BeginExec(c, s)
  BY <1>5, <1>6 DEF BeginExec
<1>7. CASE \E s \in Ids, op \in Ops : BeginStop(c, op, s)
  <2>1. PICK s \in Ids, op \in Ops : BeginStop(c, op, s)
    BY <1>7
  <2> DEFINE r == [op |-> op, pc |-> "lookup", id |-> s, snap |-> FALSE]
  <2>2. proc[c].pc = "idle" /\ proc' = [proc EXCEPT ![c] = r] /\ r.pc = "lookup"
    BY <2>1 DEF BeginStop, Become
  <2>3. lease' = lease
    BY <2>1 DEF BeginStop, GetSession, vars
  <2>4. lease[c] = Idle /\ lease' = [lease EXCEPT ![c] = Idle]
    BY <1>0, <2>2, <2>3 DEF LeaseOfProc
  <2> HIDE DEF r
  <2> QED
    BY <1>1, <2>2, <2>4
<1>8. CASE Status(c)
  BY <1>8 DEF Status, ListSessions, GetSession, engine, LeaseOfProc
<1>9. CASE ReadAgain(c)
  BY <1>5, <1>9 DEF ReadAgain
<1>10. CASE WaitForLease(c)
  <2>1. PICK from, to \in LeaseSteps : Step(c, from, to)
    BY <1>10 DEF WaitForLease, AcquireGlobal, AcquireSession, Admit, Refuse,
       DropSession, FreeSessionSlot, LeaseSteps
  <2>2. proc' = [proc EXCEPT ![c] = proc[c]] /\ proc[c].pc = "lease"
    BY <1>0, <1>10 DEF WaitForLease, engine
  <2> DEFINE l == [pc |-> to, id |-> proc[c].id]
  <2>3. lease' = [lease EXCEPT ![c] = l] /\ l.id = proc[c].id
    BY <1>2, <2>1
  <2> HIDE DEF l
  <2> QED
    BY <1>1, <2>2, <2>3 DEF LeaseAt
<1>11. CASE LeaseDenied(c)
  <2>1. lease' = [lease EXCEPT ![c] = Idle]
    BY <1>11 DEF LeaseDenied, DropGlobal, Done
  <2>2. Erred(c).pc # "leased"
    BY <1>0, <1>4 DEF Erred, ProcRecords
  <2> QED
    BY <1>1, <1>11, <2>1, <2>2 DEF LeaseDenied, Become
<1>12. CASE RunLeased(c)
  <2>1. lease' = lease /\ lease[c].pc = "held" /\ proc[c].pc = "lease"
    BY <1>12 DEF RunLeased, GetSession, Goto
  <2>2. PICK r : proc' = [proc EXCEPT ![c] = r] /\ r.pc = "leased" /\ r.id = proc[c].id
    BY <1>3, <1>12 DEF RunLeased
  <2>3. lease' = [lease EXCEPT ![c] = lease[c]]
    BY <1>0, <2>1
  <2>4. lease[c].id = proc[c].id
    BY <2>1 DEF LeaseOfProc, Idle
  <2> QED
    BY <1>1, <2>1, <2>2, <2>3, <2>4 DEF LeaseAt
<1>13. CASE CommandEnds(c)
  <2> DEFINE l == [pc |-> "freeGlobal", id |-> proc[c].id]
  <2>1. lease' = [lease EXCEPT ![c] = l]
    BY <1>2, <1>13 DEF CommandEnds, Release, FreeSessionSlot, LeaseSteps
  <2>2. PICK r : proc' = [proc EXCEPT ![c] = r] /\ r.pc = "release"
                 /\ r.id = proc[c].id
    BY <1>3, <1>13 DEF CommandEnds
  <2>3. l.id = proc[c].id
    OBVIOUS
  <2> HIDE DEF l
  <2> QED
    BY <1>1, <2>1, <2>2, <2>3 DEF LeaseAt
<1>14. CASE ReleaseLease(c)
  <2>1. CASE FreeGlobal(c) /\ UNCHANGED proc
    <3> DEFINE l == [pc |-> "uncount", id |-> proc[c].id]
    <3>1. lease' = [lease EXCEPT ![c] = l] /\ l.id = proc[c].id
      BY <1>2, <2>1 DEF FreeGlobal, LeaseSteps
    <3>2. proc' = [proc EXCEPT ![c] = proc[c]] /\ proc[c].pc = "release"
      BY <1>0, <1>14, <2>1 DEF ReleaseLease
    <3> HIDE DEF l
    <3> QED
      BY <1>1, <3>1, <3>2 DEF LeaseAt
  <2>2. CASE Uncount(c) /\ (\/ \E next \in {Unoccupied, Erred(c)} :
                                  Become(c, "release", next)
                            \/ Goto(c, "release", "again"))
    <3>1. lease' = [lease EXCEPT ![c] = Idle]
      BY <2>2 DEF Uncount, Done
    <3>2. Unoccupied.pc # "leased" /\ Erred(c).pc # "leased"
      BY <1>0 DEF Erred, Unoccupied, ProcRecords
    <3>3. PICK r : proc' = [proc EXCEPT ![c] = r] /\ r.pc # "leased"
      BY <1>3, <2>2, <3>2 DEF Become
    <3> QED
      BY <1>1, <3>1, <3>3
  <2> QED
    BY <1>14, <2>1, <2>2 DEF ReleaseLease
<1> QED
  BY <1>6, <1>7, <1>8, <1>9, <1>10, <1>11, <1>12, <1>13, <1>14

\* Leases belong to the goroutines that run under them, after every step.
LEMMA StepInside ==
  ASSUME LabInv, LeaseOfProc, [LabNext]_labVars
  PROVE  LeaseOfProc'
<1>1. CASE UNCHANGED labVars \/ Sweep \/ \E s \in Ids : Deadline(s)
  BY <1>1 DEF labVars, engine, vars, Sweep, Deadline, DeadlinePasses, LeaseOfProc
<1>2. CASE NextCandidate
  <2>1. lease' = lease /\ Reaper \notin Callers
    BY <1>2, EngineAssumption DEF NextCandidate, vars
  <2>2. \A c \in Callers : proc'[c] = proc[c]
    BY <1>2, <2>1, StartupOn DEF NextCandidate, Become
  <2> QED
    BY <2>1, <2>2 DEF LeaseOfProc
<1>3. CASE ControllerDies
  BY <1>3 DEF ControllerDies, Crash, Unoccupied, Procs, LeaseOfProc
<1>4. ASSUME NEW p \in Procs, Cleanup(p)
      PROVE  LeaseOfProc'
  BY <1>4, CleanupOutside
<1>5. ASSUME NEW c \in Callers, Request(c) \/ Work(c)
      PROVE  LeaseOfProc'
  <2>1. c \in Procs
    BY DEF Procs
  <2> QED
    BY <1>5, <2>1, StartupOutside, CleanupOutside, LeasedInside DEF Request, Work
<1> QED
  BY <1>1, <1>2, <1>3, <1>4, <1>5 DEF LabNext

-----------------------------------------------------------------------------
\* A session that is being started, rolled back or torn down is closed to
\* commands, and stays so.
LEMMA StepClosed ==
  ASSUME LabInv, Owned, Sandboxes, [LabNext]_labVars, ~ ControllerDies
  PROVE  ClosedFirst'
<1> SUFFICES ASSUME NEW p \in Procs, proc'[p].pc \in Closed, Opened(proc'[p].id)
             PROVE  FALSE
  BY DEF ClosedFirst, Open, Exists, Opened
<1>1. proc[p].pc \in Closed /\ proc'[p].id = proc[p].id
  BY StepPath DEF Path
<1> DEFINE x == proc[p].id
<1>2. ~ Open(x)
  BY <1>1 DEF Sandboxes, ClosedFirst
<1>3. x \in Ids
  BY <1>1, StartupOn DEF LabInv, EngineOK, Closed, RollbackSteps, Resting
<1>4. PICK c \in Callers : proc[c].pc = "record" /\ proc[c].id = x
  BY <1>1, <1>2, <1>3, OpensOnlyAtRecord DEF Open, Exists, Opened
<1>5. Owns(c)
  BY <1>4 DEF Owned, StartupsOwned, StartupSteps
<1>6. p # c
  BY <1>1, <1>4 DEF Closed, RollbackSteps
<1> QED
  BY <1>4, <1>5, <1>6 DEF Owns, Alone

\* A session in use by one startup only keeps its resources through a step
\* that is not the startup's own.
LEMMA StartedStays ==
  ASSUME LabInv, Owned, [LabNext]_labVars, ~ ControllerDies, NEW c \in Callers,
         proc[c].pc \in {"record", "command", "check"}
  PROVE  proc[c].id \in Ids /\ present'[proc[c].id] = present[proc[c].id]
<1> DEFINE x == proc[c].id
<1>1. x \in Ids /\ Callers \subseteq Procs
  BY StartupOn DEF StartupSteps
<1>2. \A p \in Procs : p # c => proc[p].id # x
  BY DEF Owned, StartupsOwned, Owns, Alone, StartupSteps
<1> QED
  BY <1>1, <1>2, PresentFrame

\* A recorded startup keeps its resources, whatever the others do.
LEMMA StepStarted ==
  ASSUME LabInv, Owned, Sandboxes, [LabNext]_labVars, ~ ControllerDies
  PROVE  StartedIsWhole'
<1> SUFFICES ASSUME NEW c \in Callers, proc'[c].pc \in {"record", "command"}
             PROVE  present'[proc'[c].id] = Kinds
  BY DEF StartedIsWhole, Whole
<1>1. /\ proc'[c].id = proc[c].id
      /\ \/ proc[c].pc \in {"record", "command"}
         \/ proc[c].pc = "check" /\ Whole(proc[c].id)
  BY StepPath, StartupOn DEF Path
<1>2. Whole(proc[c].id)
  BY <1>1 DEF Sandboxes, StartedIsWhole
<1> QED
  BY <1>1, <1>2, StartedStays DEF Whole

\* A session that admits commands is whole after every step.
LEMMA StepOpen ==
  ASSUME LabInv, Owned, Sandboxes, [LabNext]_labVars, ~ ControllerDies
  PROVE  OpenIsWhole'
<1> SUFFICES ASSUME NEW x \in Ids, Open(x)'
             PROVE  present'[x] = Kinds
  BY DEF OpenIsWhole, Whole
<1>1. CASE Open(x)
  <2>1. \A p \in Procs : proc[p].id = x => proc[p].pc \notin Closed
    BY <1>1 DEF Sandboxes, ClosedFirst
  <2>2. present'[x] = present[x]
    BY <2>1, PresentFrame, StartupOn DEF Closed, RollbackSteps
  <2> QED
    BY <1>1, <2>2 DEF Sandboxes, OpenIsWhole, Whole
<1>2. CASE ~ Open(x)
  <2>1. PICK c \in Callers : proc[c].pc = "record" /\ proc[c].id = x
    BY <1>2, OpensOnlyAtRecord
  <2> QED
    BY <2>1, StartedStays DEF Sandboxes, StartedIsWhole, Whole
<1> QED
  BY <1>1, <1>2

\* The session of a held lease stays whole: nobody gets from waiting in
\* BeginStopping to docker compose down while the lease is counted.
LEMMA StepHeld ==
  ASSUME LabInv, Owned, Sandboxes, [LabNext]_labVars, ~ ControllerDies
  PROVE  HeldIsWhole'
<1> SUFFICES ASSUME NEW c \in Callers, lease'[c].pc = "held"
             PROVE  /\ present'[lease'[c].id] = Kinds
                    /\ \A p \in Procs : proc'[p].id = lease'[c].id
                                         => proc'[p].pc \notin Dismantling
  BY DEF HeldIsWhole, Whole
<1> DEFINE x == lease[c].id
<1>0. IInv /\ [Next]_vars /\ Callers \subseteq Procs /\ c \in Procs
  BY StepSound DEF LabInv, Procs
<1>1. ~ Crash
  <2>1. Crash => lease'[c] = Idle
    BY DEF Crash
  <2> QED
    BY <2>1 DEF Idle
<1>2. lease'[c].id = x /\ (lease[c].pc = "held" \/ Admissible(x))
  BY <1>0, <1>1, HeldComes
<1>3. CASE Admissible(x)
  <2>1. Open(x)
    BY <1>3 DEF Admissible, Open
  <2>2. x \in Ids
    <3>1. lease'[c].id \in Ids
      BY <1>0, NextKeeps DEF IInv, TypeOK, Idle
    <3> QED
      BY <1>2, <3>1
  <2>3. \A p \in Procs : proc[p].id = x => proc[p].pc \notin Closed
    BY <2>1 DEF Sandboxes, ClosedFirst
  <2>4. present'[x] = Kinds
    BY <1>0, <2>1, <2>2, <2>3, PresentFrame DEF Closed, RollbackSteps, Sandboxes,
       OpenIsWhole, Whole
  <2>5. \A p \in Procs : proc'[p].pc \in Dismantling =>
          proc'[p].id = proc[p].id /\ proc[p].pc \in Closed
    <3>1. Dismantling \subseteq Closed
      BY DEF Dismantling, Closed
    <3> QED
      BY <3>1, StepPath DEF Path
  <2> QED
    BY <1>2, <2>3, <2>4, <2>5
<1>4. CASE lease[c].pc = "held"
  <2>1. /\ Whole(x)
        /\ \A p \in Procs : proc[p].id = x => proc[p].pc \notin Dismantling
        /\ proc[c].id = x /\ proc[c].pc \in {"lease", "leased", "release"}
    BY <1>4 DEF Sandboxes, HeldIsWhole, LeaseOfProc, Idle
  <2>2. x \in Ids
    BY <1>0, <1>4 DEF IInv, TypeOK, Idle
  <2>3. ~ (Exists(x) => Drained(x))
    BY <1>0, <1>4, <2>2, CountedRecord DEF Counting, Drained
  <2>4. \A d \in Callers : proc[d].id = x => proc[d].pc \notin StartupSteps
    <3> SUFFICES ASSUME NEW d \in Callers, proc[d].id = x, proc[d].pc \in StartupSteps
                 PROVE  FALSE
      OBVIOUS
    <3>1. Owns(d) /\ d # c
      BY <2>1 DEF Owned, StartupsOwned, StartupSteps
    <3> QED
      BY <1>0, <2>1, <3>1 DEF Owns, Alone
  <2>5. present'[x] = Kinds
    BY <1>0, <2>1, <2>2, <2>4, PresentFrame DEF Dismantling, RollbackSteps,
       StartupSteps, Whole
  <2>6. \A p \in Procs : proc'[p].id = x => proc'[p].pc \notin Dismantling
    BY <2>1, <2>3, <2>4, StepPath DEF Path
  <2> QED
    BY <1>2, <2>5, <2>6
<1> QED
  BY <1>2, <1>3, <1>4

\* The controller's death ends every operation, and the sessions it reloads as
\* ready are whole.
LEMMA DeathKeeps ==
  ASSUME LabInv, Sandboxes, ControllerDies
  PROVE  OpenIsWhole' /\ StartedIsWhole' /\ ClosedFirst' /\ HeldIsWhole'
<1>1. /\ proc' = [p \in Procs |-> Unoccupied] /\ lease' = [c \in Callers |-> Idle]
      /\ sessions' = sessions /\ Callers \subseteq Procs
  BY StartupOn DEF ControllerDies, Crash, Sandboxes, DiskExact
<1>2. \A x \in Ids : present'[x] = present[x] \/ present'[x] = Kinds
  BY StartupOn DEF ControllerDies
<1>3. \A x \in Ids : Open(x)' <=> Open(x)
  BY <1>1 DEF Open, Exists
<1>4. OpenIsWhole'
  BY <1>2, <1>3 DEF Sandboxes, OpenIsWhole, Whole
<1>5. /\ \A p \in Procs : proc'[p].pc = "idle"
      /\ \A c \in Callers : lease'[c].pc = "idle"
  BY <1>1 DEF Unoccupied, Idle
<1>6. "idle" \notin Closed
  BY DEF Closed, RollbackSteps
<1> QED
  BY <1>1, <1>4, <1>5, <1>6 DEF StartedIsWhole, ClosedFirst, HeldIsWhole

\* No step of the controller breaks the invariant.
LEMMA StepSandboxes ==
  ASSUME LabInv, Owned, Sandboxes, ~ DiskMayFail, [LabNext]_labVars
  PROVE  Sandboxes'
<1>1. IInv /\ [Next]_vars
  BY StepSound DEF LabInv
<1>2. DiskExact' /\ LeaseOfProc'
  BY <1>1, StepExact, StepInside DEF Sandboxes
<1>3. CASE ControllerDies
  BY <1>2, <1>3, DeathKeeps DEF Sandboxes
<1>4. CASE ~ ControllerDies
  BY <1>2, <1>4, StepClosed, StepStarted, StepOpen, StepHeld DEF Sandboxes
<1> QED
  BY <1>3, <1>4

\* As long as deadlines leave time for startups and the state directory takes
\* every write, no stop, reset, rollback or sweep, nor a restart, takes anything
\* from the sandbox of a command that runs in it.
THEOREM CommandsUndisturbed ==
  ASSUME TTLCoversWork, ~ DiskMayFail
  PROVE  LabSpec => []CommandsKeepSandbox
<1>1. LabInit => Sandboxes
  BY DEF LabInit, Init, Sandboxes, OpenIsWhole, StartedIsWhole, ClosedFirst,
     HeldIsWhole, LeaseOfProc, DiskExact, Open, Exists, Unoccupied, Idle, Procs,
     Closed, RollbackSteps
<1>2. LabInv /\ Owned /\ Sandboxes /\ [LabNext]_labVars => Sandboxes'
  BY StepSandboxes
<1>3. Sandboxes => CommandsKeepSandbox
  <2> SUFFICES ASSUME Sandboxes, NEW c \in Callers, CommandInSandbox(c)
               PROVE  present[proc[c].id] = Kinds
    BY DEF CommandsKeepSandbox
  <2>1. CASE proc[c].pc = "command"
    BY <2>1 DEF Sandboxes, StartedIsWhole, Whole
  <2>2. CASE proc[c].pc = "leased"
    BY <2>2 DEF Sandboxes, LeaseOfProc, HeldIsWhole, Whole, Idle
  <2> QED
    BY <2>1, <2>2 DEF CommandInSandbox
<1> QED
  BY <1>1, <1>2, <1>3, EngineInvariance, StartupsAlone, PTL DEF LabSpec

-----------------------------------------------------------------------------
\* Sessions that a startup works on, whether they count as active yet or not.
Underway == {proc[c].id : c \in {d \in Callers : proc[d].pc \in StartupSteps}}

\* What is charged to the limit.
Charged == ActiveSessions \cup Underway

\* Every caller but one may have checked the limit too early.
Overshoot(S) ==
  IsFiniteSet(S) /\ Cardinality(S) <= MaximumSessions + Cardinality(Callers) - 1

\* Goroutine q goes on to r, which is a step of a startup only if q was in that
\* startup before.
GoesOn(q, r) ==
  /\ proc' = [proc EXCEPT ![q] = r]
  /\ r.pc \in StartupSteps => proc[q].pc \in StartupSteps /\ r.id = proc[q].id

\* Goto goes on when it stays in a startup or ends outside one.
LEMMA GotoGoesOn ==
  ASSUME LabInv, NEW p \in Procs, NEW from, NEW to, Goto(p, from, to),
         from \in StartupSteps \/ to \notin StartupSteps
  PROVE  \E r : GoesOn(p, r)
BY GotoTo DEF GoesOn

\* So does every step of an operation outside startups.
LEMMA LeavingGoesOn ==
  ASSUME NEW p, NEW r, proc' = [proc EXCEPT ![p] = r], r.pc \notin StartupSteps
  PROVE  \E next : GoesOn(p, next)
BY DEF GoesOn

\* What a request, a startup and a rollback do to their goroutine.
LEMMA CallersGoOn ==
  ASSUME LabInv, NEW c \in Callers,
         ~ \E op \in OpNames, s \in Ids : Create(c, op, s),
         Request(c) \/ Work(c)
  PROVE  UNCHANGED proc \/ \E r : GoesOn(c, r)
<1>0. proc \in [Procs -> ProcRecords] /\ c \in Procs /\ Ops \subseteq OpNames
  BY StartupOn, EngineAssumption
<1>1. /\ Unoccupied.pc \notin StartupSteps
      /\ \A op, pc, x : [op |-> op, pc |-> pc, id |-> x, snap |-> FALSE].pc = pc
      /\ \A pc \in {"lookup", "lease", "panic"} : pc \notin StartupSteps
  BY DEF Unoccupied, StartupSteps
<1>2. AfterRollback(c).pc \notin StartupSteps /\ Erred(c).pc \notin StartupSteps
  BY <1>0, <1>1 DEF AfterRollback, Erred, ProcRecords
<1>3. CASE Request(c)
  BY <1>0, <1>1, <1>3, LeavingGoesOn DEF Request, BeginStartup, BeginStop, BeginExec,
     TakeLease, Status, Become, engine
<1>4. CASE Restart(c) \/ ReadAgain(c)
  BY <1>1, <1>4, LeavingGoesOn DEF Restart, ReadAgain, TakeLease, Become, OpNames
<1>5. CASE \E from \in StartupSteps : \E to : Goto(c, from, to)
  BY <1>0, <1>5, GotoGoesOn
<1>6. CASE \/ Transit(c) \/ ComposeUp(c) \/ RecordReady(c)
  BY <1>1, <1>5, <1>6, LeavingGoesOn DEF Transit, ComposeUp, BringUp, RecordReady,
     Become, StartupSteps
<1>7. CASE ComposeUpFails(c)
  BY <1>5, <1>7 DEF ComposeUpFails, Goto, StartupSteps
<1>8. CASE CommandReturns(c)
  <2>1. CASE proc' = [proc EXCEPT ![c].op = "answered", ![c].pc = "lookup"]
    <3> DEFINE r == [proc[c] EXCEPT !.op = "answered", !.pc = "lookup"]
    <3>1. proc' = [proc EXCEPT ![c] = r] /\ r.pc = "lookup"
      BY <1>0, <2>1 DEF ProcRecords
    <3> HIDE DEF r
    <3> QED
      BY <1>1, <3>1, LeavingGoesOn
  <2> QED
    BY <1>5, <1>8, <2>1 DEF CommandReturns, StartupSteps
<1>9. CASE \E from, to : Goto(c, from, to) /\ to \notin StartupSteps
  BY <1>0, <1>9, GotoGoesOn
<1>10. CASE \/ RollbackLookup(c) \/ RollbackDown(c) \/ RollbackVerify(c)
             \/ RollbackRemove(c) \/ RollbackFails(c)
  BY <1>2, <1>9, <1>10, LeavingGoesOn DEF RollbackLookup, RollbackDown, RollbackVerify,
     RollbackRemove, RollbackFails, Become, StartupSteps
<1>11. CASE \/ WaitForLease(c) \/ LeaseDenied(c) \/ RunLeased(c) \/ CommandEnds(c)
            \/ ReleaseLease(c)
  BY <1>1, <1>2, <1>9, <1>11, LeavingGoesOn DEF WaitForLease, LeaseDenied, RunLeased,
     CommandEnds, ReleaseLease, Become, engine, StartupSteps
<1> QED
  BY <1>3, <1>4, <1>6, <1>7, <1>8, <1>10, <1>11 DEF Work

\* A cleanup is no part of a startup.
LEMMA CleanupGoesOn ==
  ASSUME LabInv, NEW p \in Procs, Cleanup(p)
  PROVE  \E r : GoesOn(p, r)
<1>0. proc \in [Procs -> ProcRecords]
  BY StartupOn
<1>1. CASE \E from, b : Return(p, from, b)
  <2>1. \A b : AfterCleanup(p, b).pc \notin StartupSteps
    BY DEF AfterCleanup, Unoccupied, StartupSteps
  <2> QED
    BY <1>1, <2>1, LeavingGoesOn DEF Return, Become
<1>2. CASE \E from, to \in CleanupSteps : Goto(p, from, to)
  BY <1>2, GotoGoesOn DEF CleanupSteps, StartupSteps
<1>3. CASE proc' = [proc EXCEPT ![p].pc = "inspect",
                                ![p].snap = sessions[proc[p].id].snap]
  <2> DEFINE r == [proc[p] EXCEPT !.pc = "inspect", !.snap = sessions[proc[p].id].snap]
  <2>1. proc' = [proc EXCEPT ![p] = r]
    BY <1>0, <1>3
  <2>2. r.pc = "inspect"
    BY <1>0 DEF ProcRecords
  <2> HIDE DEF r
  <2> QED
    BY <2>1, <2>2, LeavingGoesOn DEF StartupSteps
<1> QED
  BY <1>1, <1>2, <1>3 DEF Cleanup, Lookup, Inspect, InspectFails, Mark, Drain,
     DrainTimesOut, ComposeDown, ComposeDownFails, Verify, VerifyFails, Remove, Failed,
     CleanupSteps

\* A step that creates no session begins no startup.
LEMMA StartupsGoOn ==
  ASSUME LabInv, [LabNext]_labVars, ~ ControllerDies,
         \A c \in Callers, op \in OpNames, s \in Ids : ~ Create(c, op, s)
  PROVE  Underway' \subseteq Underway
<1> SUFFICES ASSUME NEW d \in Callers, proc'[d].pc \in StartupSteps
             PROVE  proc[d].pc \in StartupSteps /\ proc'[d].id = proc[d].id
  BY DEF Underway
<1>0. /\ proc \in [Procs -> ProcRecords] /\ d \in Procs
      /\ Reaper \in Procs /\ Callers \subseteq Procs
  BY StartupOn DEF Procs
<1>1. ASSUME NEW q \in Procs, NEW r, GoesOn(q, r)
      PROVE  proc[d].pc \in StartupSteps /\ proc'[d].id = proc[d].id
  BY <1>0, <1>1 DEF GoesOn
<1>2. CASE \E c \in Callers : Request(c) \/ Work(c)
  BY <1>0, <1>1, <1>2, CallersGoOn
<1>3. CASE \E p \in Procs : Cleanup(p)
  BY <1>1, <1>3, CleanupGoesOn
<1>4. CASE Sweep \/ (\E s \in Ids : Deadline(s)) \/ UNCHANGED labVars
  BY <1>4 DEF Sweep, Deadline, engine, labVars
<1>5. CASE NextCandidate
  <2>1. PICK s \in todo :
          proc' = [proc EXCEPT ![Reaper] =
                    [op |-> "reap", pc |-> "lookup", id |-> s, snap |-> FALSE]]
    BY <1>5 DEF NextCandidate, Become
  <2> QED
    BY <1>0, <1>1, <2>1, LeavingGoesOn DEF StartupSteps
<1> QED
  BY <1>2, <1>3, <1>4, <1>5 DEF LabNext

\* Nor does it charge a session to the limit: a session becomes active only by
\* its own startup, which was charged already.
LEMMA NothingCharged ==
  ASSUME LabInv, [LabNext]_labVars, ~ ControllerDies,
         \A c \in Callers, op \in OpNames, s \in Ids : ~ Create(c, op, s)
  PROVE  Charged' \subseteq Charged
<1> SUFFICES ASSUME NEW x \in Ids, Active(x)', ~ Active(x)
             PROVE  x \in Underway
  BY StartupsGoOn DEF Charged, ActiveSessions, Active, Exists
<1>0. IInv
  BY DEF LabInv
<1>1. PICK c \in Callers : Starts(c)
  <2>1. ~ UNCHANGED vars /\ \A s \in Ids : ~ DeadlinePasses(s)
    BY DEF vars, DeadlinePasses, records, Active, Exists
  <2>2. ~ ListSessions /\ \A s \in Ids : ~ OtherCall(s)
    BY <1>0, OtherDown, ListDown DEF Down
  <2>3. \A c \in Callers : ~ LeaseStep(c)
    BY <1>0, LeasesDown DEF Down
  <2>4. \A s \in Ids, m \in Modes : ~ CreateSession(s, m)
    BY <1>0, CreateDown
  <2> QED
    BY <2>1, <2>2, <2>3, <2>4, RecordStep
<1>2. proc[c].pc \in StartupSteps /\ proc[c].id \in Ids
  BY <1>1, StartupOn DEF Starts, StartupSteps
<1>3. x = proc[c].id
  BY <1>0, <1>1, <1>2, ReadyDown, TransitDown DEF Starts, Down
<1> QED
  BY <1>2, <1>3 DEF Underway

\* CreateSession leaves at most one session less than the limit active, and each
\* caller charges at most one more.
LEMMA CreateCharges ==
  ASSUME LabInv, Overshoot(Charged), NEW c \in Callers, NEW op \in OpNames,
         NEW s \in Ids, Create(c, op, s)
  PROVE  Overshoot(Charged)'
<1> DEFINE T == {proc'[d].id : d \in Callers}
           f == [d \in Callers |-> proc'[d].id]
           A == ActiveSessions
<1>1. IsFiniteSet(A) /\ Cardinality(A) \in Nat /\ Cardinality(A) < MaximumSessions
  <2>1. A \in SUBSET Charged
    BY DEF Charged
  <2>2. IsFiniteSet(A)
    BY <2>1, FS_Subset DEF Overshoot
  <2> QED
    BY <2>2, FS_CardinalityType DEF Create, CreateSession, BelowLimit
<1>2. IsFiniteSet(T) /\ Cardinality(T) <= Cardinality(Callers)
  <2>1. f \in Surjection(Callers, T)
    BY DEF Surjection
  <2> QED
    BY <2>1, NamesAssumption, FS_Surjection
<1>3. Cardinality(Callers) \in Nat /\ Cardinality(T) \in Nat
  BY <1>2, NamesAssumption, FS_CardinalityType
<1>4. /\ IsFiniteSet(A \cup T) /\ IsFiniteSet(A \cap T)
      /\ Cardinality(A \cup T)
           = Cardinality(A) + Cardinality(T) - Cardinality(A \cap T)
  BY <1>1, <1>2, FS_Union, FS_Subset
<1>5. Cardinality(A \cup T) \in Nat /\ Cardinality(A \cap T) \in Nat
  BY <1>4, FS_CardinalityType
<1>6. Cardinality(A \cup T) <= MaximumSessions + Cardinality(Callers) - 1
  BY <1>1, <1>2, <1>3, <1>4, <1>5, LimitsAssumption
<1>7. Charged' \in SUBSET (A \cup T)
  <2>1. \A x \in Ids : ~ Active(x) => ~ Active(x)'
    <3>1. CreateSession(s, ModeOf(op)) /\ ModeOf(op) \in Modes /\ IInv
      BY DEF Create, ModeOf, Modes, LabInv
    <3> QED
      BY <3>1, CreateDown
  <2>2. ActiveSessions' \subseteq A
    BY <2>1 DEF ActiveSessions, Active, Exists
  <2> QED
    BY <2>2 DEF Charged, Underway
<1> HIDE DEF A, T
<1>8. /\ IsFiniteSet(Charged')
      /\ Cardinality(Charged') <= Cardinality(A \cup T) /\ Cardinality(Charged') \in Nat
  BY <1>4, <1>7, FS_Subset, FS_CardinalityType
<1>9. Cardinality(Charged') <= MaximumSessions + Cardinality(Callers) - 1
  BY <1>3, <1>5, <1>6, <1>8, LimitsAssumption
<1> QED
  BY <1>8, <1>9 DEF Overshoot

\* A step that charges nothing keeps the bound.
LEMMA OvershootKept ==
  ASSUME Overshoot(Charged), Charged' \subseteq Charged
  PROVE  Overshoot(Charged)'
<1>1. /\ IsFiniteSet(Charged') /\ Cardinality(Charged') <= Cardinality(Charged)
      /\ Cardinality(Charged) \in Nat /\ Cardinality(Charged') \in Nat
      /\ Cardinality(Callers) \in Nat
  BY NamesAssumption, FS_Subset, FS_CardinalityType DEF Overshoot
<1>2. Cardinality(Charged') <= MaximumSessions + Cardinality(Callers) - 1
  BY <1>1, LimitsAssumption DEF Overshoot
<1> QED
  BY <1>1, <1>2 DEF Overshoot

\* The files are the records where it matters: if the disk takes every write, or
\* the controller never restarts.
Restored == DiskExact \/ MaxCrashes = 0

\* The charges are bounded after every step of the controller.
LEMMA StepCharges ==
  ASSUME LabInv, Restored, Overshoot(Charged), [LabNext]_labVars
  PROVE  Overshoot(Charged)'
<1>1. CASE ControllerDies
  <2>1. sessions' = sessions
    <3>1. crashes < MaxCrashes /\ sessions' = saved
      BY <1>1 DEF ControllerDies, Crash
    <3>2. crashes \in Nat
      BY LimitsAssumption DEF LabInv, IInv, TypeOK
    <3> QED
      BY <3>1, <3>2 DEF Restored, DiskExact
  <2>2. Underway' = {}
    <3>1. \A c \in Callers : proc'[c].pc \notin StartupSteps
      BY <1>1 DEF ControllerDies, Unoccupied, Procs, StartupSteps
    <3> QED
      BY <3>1 DEF Underway
  <2>3. Charged' \subseteq Charged
    BY <2>1, <2>2 DEF Charged, ActiveSessions, Exists
  <2> QED
    BY <2>3, OvershootKept
<1>2. CASE \E c \in Callers, op \in OpNames, s \in Ids : Create(c, op, s)
  BY <1>2, CreateCharges
<1>3. CASE /\ ~ ControllerDies
           /\ \A c \in Callers, op \in OpNames, s \in Ids : ~ Create(c, op, s)
  BY <1>3, NothingCharged, OvershootKept
<1> QED
  BY <1>1, <1>2, <1>3

\* Before anything has started, nothing is charged.
LEMMA InitCharges == LabInit => Overshoot(Charged)
<1> SUFFICES ASSUME LabInit
             PROVE  Overshoot(Charged)
  OBVIOUS
<1>1. Charged = {}
  BY DEF LabInit, Init, Charged, ActiveSessions, Underway, Exists, Unoccupied, Procs,
     StartupSteps
<1>2. IsFiniteSet({}) /\ Cardinality({}) = 0 /\ Cardinality(Callers) \in Nat
  BY NamesAssumption, FS_EmptySet, FS_CardinalityType
<1> QED
  BY <1>1, <1>2, LimitsAssumption DEF Overshoot

\* CreateSession counts the active sessions under the lock, but the session it makes
\* counts only from "starting" on, which another critical section sets: callers
\* that create at the same time all pass the check.  They exceed the limit by one
\* session less than there are callers, never by more: a session that was created
\* and not started, or expired, or was abandoned by a dead controller becomes
\* active no more.  If a write of session.json can fail, a restart must not follow:
\* it brings sessions back that were being stopped.
THEOREM OvershootBounded ==
  ASSUME ~ DiskMayFail \/ MaxCrashes = 0
  PROVE  LabSpec => []Overshoot(ActiveSessions)
<1>1. LabInit => Overshoot(Charged) /\ Restored
  BY InitCharges DEF LabInit, Init, Restored, DiskExact
<1>2. LabInv /\ Restored /\ Overshoot(Charged) /\ [LabNext]_labVars
        => Overshoot(Charged)' /\ Restored'
  <2> SUFFICES ASSUME LabInv, Restored, Overshoot(Charged), [LabNext]_labVars
               PROVE  Overshoot(Charged)' /\ Restored'
    OBVIOUS
  <2>1. CASE MaxCrashes = 0
    BY <2>1, StepCharges DEF Restored
  <2>2. CASE MaxCrashes # 0
    <3>1. DiskExact /\ ~ DiskMayFail /\ IInv /\ [Next]_vars
      BY <2>2, StepSound DEF Restored, LabInv
    <3>2. DiskExact'
      BY <3>1, StepExact
    <3> QED
      BY <3>2, StepCharges DEF Restored
  <2> QED
    BY <2>1, <2>2
<1>3. Overshoot(Charged) => Overshoot(ActiveSessions)
  <2> SUFFICES ASSUME Overshoot(Charged)
               PROVE  Overshoot(ActiveSessions)
    OBVIOUS
  <2>1. ActiveSessions \in SUBSET Charged /\ IsFiniteSet(Charged)
    BY DEF Charged, Overshoot
  <2>2. /\ IsFiniteSet(ActiveSessions)
        /\ Cardinality(ActiveSessions) <= Cardinality(Charged)
        /\ Cardinality(ActiveSessions) \in Nat /\ Cardinality(Charged) \in Nat
        /\ Cardinality(Callers) \in Nat
    BY <2>1, NamesAssumption, FS_Subset, FS_CardinalityType
  <2> QED
    BY <2>2, LimitsAssumption DEF Overshoot
<1> QED
  BY <1>1, <1>2, <1>3, EngineInvariance, PTL DEF LabSpec

\* With one request at a time, as in the loop of "lab-runner serve" over standard
\* input and output, limits.maximum_sessions holds.
THEOREM LimitHolds ==
  ASSUME ~ DiskMayFail \/ MaxCrashes = 0, \A c, d \in Callers : c = d
  PROVE  LabSpec => []ActiveWithinLimit
<1>1. Cardinality(Callers) \in {0, 1}
  <2>1. CASE Callers = {}
    BY <2>1, FS_EmptySet
  <2>2. CASE Callers # {}
    <3>1. PICK c \in Callers : Callers = {c}
      BY <2>2
    <3> QED
      BY <3>1, FS_Singleton
  <2> QED
    BY <2>1, <2>2
<1>2. Overshoot(ActiveSessions) => ActiveWithinLimit
  <2> SUFFICES ASSUME Overshoot(ActiveSessions)
               PROVE  Cardinality(ActiveSessions) <= MaximumSessions
    BY DEF ActiveWithinLimit
  <2>1. Cardinality(ActiveSessions) \in Nat
    BY FS_CardinalityType DEF Overshoot
  <2> QED
    BY <1>1, <2>1, LimitsAssumption DEF Overshoot
<1> QED
  BY <1>2, OvershootBounded, PTL
=============================================================================
