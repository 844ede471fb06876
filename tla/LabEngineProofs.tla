-------------------------- MODULE LabEngineProofs --------------------------
(***************************************************************************)
(* Proofs about LabEngine, for any number of clients, sessions, crashes    *)
(* and limits.  First that every step of the engine is a step of the       *)
(* manager's module (LabSpec => Spec), which brings the manager's          *)
(* inductive invariant along; then that a startup has its session to       *)
(* itself, which is what keeps the reaper away from healthy sessions,      *)
(* resources from being forgotten and reports of removal true.             *)
(***************************************************************************)
EXTENDS LabEngine, SessionManagerProofs

\* The steps a goroutine can be at, and the records it can have.
PCs == {"idle", "restart", "panic"} \cup StartupSteps \cup RollbackSteps
         \cup CleanupSteps \cup LeasedSteps

ProcRecords == [op : ProcOps, pc : PCs, id : Ids \cup {NoSession}, snap : BOOLEAN]

\* A goroutine that is at work, is at work on a session.
Resting == {"idle", "restart"}

\* The engine's own variables have their types, and only identifiers that were
\* given out appear in them.
EngineOK ==
  /\ proc \in [Procs -> ProcRecords]
  /\ \A p \in Procs : /\ proc[p].id \in issued \cup {NoSession}
                      /\ proc[p].pc \notin Resting => proc[p].id \in issued
  /\ present \in [Ids -> SUBSET Kinds]
  /\ todo \subseteq issued
  /\ claims \subseteq issued

LabInv == IInv /\ EngineOK

-----------------------------------------------------------------------------
\* Goroutine p is at r afterwards.
Moves(p, r) ==
  /\ proc' = [proc EXCEPT ![p] = r]
  /\ r \in ProcRecords
  /\ r.id \in issued' \cup {NoSession}
  /\ r.pc \notin Resting => r.id \in issued'

\* CreateSession gives identifiers out and nothing ever takes one back.
LEMMA IssuedGrows == [Next]_vars => issued \subseteq issued'
<1> USE DEF Next, records, slots, history
<1>1. ASSUME NEW s \in Ids, ManagerCall(s) \/ DeadlinePasses(s)
      PROVE  issued \subseteq issued'
  BY <1>1 DEF ManagerCall, DeadlinePasses, CreateSession, CreateFails, GetSession,
     Transition, MarkReady, RecordCleanupFailure, BeginStopping, Touch,
     RemoveSession, RemoveFails
<1>2. ASSUME NEW c \in Callers, LeaseStep(c)
      PROVE  issued \subseteq issued'
  BY <1>2 DEF LeaseStep, LeaseProgress, Reserve, RefuseReservation, GetSession,
     CancelAtGlobal, CancelAtSession, AcquireGlobal, AcquireSession, Admit, Refuse,
     DropSession, DropGlobal, Release, FreeSessionSlot, FreeGlobal, Uncount
<1> QED
  BY <1>1, <1>2 DEF ListSessions, Crash, vars

\* A step that moves one goroutine to a well-formed record keeps the engine's
\* variables well-formed, as every line of engine.go that goes on to the next does.
LEMMA MovedKeeps ==
  ASSUME EngineOK, [Next]_vars, NEW p \in Procs, NEW r, Moves(p, r),
         present' \in [Ids -> SUBSET Kinds], todo' \subseteq issued',
         claims' \subseteq issued'
  PROVE  EngineOK'
BY IssuedGrows DEF EngineOK, Moves

\* Going from one step of an operation to the next moves the goroutine.
LEMMA GotoMoves ==
  ASSUME EngineOK, [Next]_vars, NEW p \in Procs, NEW from, NEW to \in PCs,
         from \notin Resting, Goto(p, from, to)
  PROVE  /\ Moves(p, [proc[p] EXCEPT !.pc = to])
         /\ proc[p].pc = from /\ proc[p].id \in issued
<1>1. proc[p] \in ProcRecords /\ proc[p].id \in issued /\ proc[p].pc = from
  BY DEF EngineOK, Goto
<1>2. [proc[p] EXCEPT !.pc = to] \in ProcRecords
  BY <1>1 DEF ProcRecords
<1>3. proc' = [proc EXCEPT ![p] = [proc[p] EXCEPT !.pc = to]]
  BY DEF Goto, EngineOK
<1> QED
  BY <1>1, <1>2, <1>3, IssuedGrows DEF Moves, ProcRecords

\* Returning from an operation moves the goroutine.
LEMMA RestMoves ==
  ASSUME NEW p \in Procs, NEW from, Become(p, from, Unoccupied)
  PROVE  Moves(p, Unoccupied)
BY DEF Become, Moves, Unoccupied, ProcRecords, PCs, ProcOps, Resting

\* So does an error that a leased execution returned, panic or not.
LEMMA ErredMoves ==
  ASSUME LabInv, [Next]_vars, NEW p \in Procs, NEW from, from \notin Resting,
         Become(p, from, Erred(p))
  PROVE  Moves(p, Erred(p))
<1>1. proc[p] \in ProcRecords /\ proc[p].id \in issued
  BY DEF LabInv, EngineOK, Become
<1>2. [proc[p] EXCEPT !.pc = "panic"] \in ProcRecords
      /\ [proc[p] EXCEPT !.pc = "panic"].id = proc[p].id
  BY <1>1 DEF ProcRecords, PCs
<1>3. Unoccupied \in ProcRecords /\ Unoccupied.id = NoSession
      /\ Unoccupied.pc \in Resting
  BY DEF Unoccupied, ProcRecords, ProcOps, PCs, Resting
<1>4. Erred(p) \in ProcRecords /\ Erred(p).id \in issued \cup {NoSession}
      /\ (Erred(p).pc \notin Resting => Erred(p).id \in issued)
  BY <1>1, <1>2, <1>3 DEF Erred
<1> QED
  BY <1>4, IssuedGrows DEF Become, Moves

-----------------------------------------------------------------------------
\* What every step of the engine has to give: it is a step of the manager's
\* module or leaves its variables alone, and it keeps the types.
Sound == [Next]_vars /\ EngineOK'

\* Engine.Run, StartSession and HTTPRequest without a session: CreateSession is
\* the only thing they do to the manager.
LEMMA CreateSound ==
  ASSUME LabInv, NEW c \in Callers, NEW op \in OpNames, NEW s \in Ids,
         Create(c, op, s)
  PROVE  Sound
<1> DEFINE r == [op |-> op, pc |-> FirstStep(op), id |-> s, snap |-> FALSE]
<1>1. CreateSession(s, ModeOf(op)) /\ ModeOf(op) \in Modes
  BY DEF Create, ModeOf, Modes
<1>2. Next
  BY <1>1 DEF Next, ManagerCall
<1>3. s \in issued'
  BY <1>1 DEF CreateSession
<1>4. Moves(c, r)
  <2>1. r \in ProcRecords
    BY DEF ProcRecords, PCs, StartupSteps, ProcOps, FirstStep
  <2> QED
    BY <1>3, <2>1 DEF Moves, Create
<1>5. c \in Procs
  BY DEF Procs
<1> HIDE DEF r
<1> QED
  BY <1>2, <1>4, <1>5, MovedKeeps, IssuedGrows DEF Sound, LabInv, EngineOK, Create

\* Every step of a startup, from CreateSession to the command of an ephemeral
\* sandbox, is one call of the manager or none.
LEMMA StartupSound ==
  ASSUME LabInv, NEW c \in Callers,
         \/ \E s \in Ids, op \in Ops : BeginStartup(c, op, s)
         \/ Restart(c) \/ Transit(c) \/ ComposeUp(c) \/ ComposeUpFails(c)
         \/ RecordReady(c) \/ CommandReturns(c)
  PROVE  Sound
<1> DEFINE s == proc[c].id
<1>0. EngineOK /\ c \in Procs /\ proc \in [Procs -> ProcRecords]
      /\ present \in [Ids -> SUBSET Kinds]
      /\ todo \subseteq issued /\ claims \subseteq issued /\ issued \subseteq Ids
  BY DEF Procs, LabInv, EngineOK, IInv, TypeOK
<1>a. Ops \subseteq OpNames
  BY EngineAssumption
<1>b. StartupSteps \cup RollbackSteps \cup CleanupSteps \subseteq PCs
      /\ StartupSteps \cap Resting = {} /\ proc[c].op \in ProcOps
  BY <1>0 DEF PCs, StartupSteps, Resting, ProcRecords
<1>1. CASE \E x \in Ids, op \in Ops : BeginStartup(c, op, x)
  <2>1. PICK x \in Ids, op \in Ops : BeginStartup(c, op, x)
    BY <1>1
  <2>2. CASE Create(c, op, x)
    BY <1>a, <2>2, CreateSound
  <2>3. CASE CreateFails(x) /\ UNCHANGED engine
    <3>1. Next
      BY <2>3 DEF Next, ManagerCall
    <3> QED
      BY <1>0, <2>3, <3>1, IssuedGrows DEF Sound, EngineOK, engine
  <2> QED
    BY <2>1, <2>2, <2>3 DEF BeginStartup
<1>2. CASE Restart(c)
  <2>1. CASE \E x \in Ids : Create(c, "start", x)
    BY <2>1, CreateSound DEF OpNames
  <2>2. CASE /\ UNCHANGED vars \/ \E x \in Ids : CreateFails(x)
             /\ Become(c, "restart", Unoccupied)
             /\ UNCHANGED <<present, todo, claims>>
    <3>1. [Next]_vars
      BY <2>2 DEF Next, ManagerCall
    <3>2. Moves(c, Unoccupied)
      BY <1>0, <2>2, RestMoves
    <3> QED
      BY <1>0, <2>2, <3>1, <3>2, MovedKeeps, IssuedGrows DEF Sound
  <2> QED
    BY <1>2, <2>1, <2>2 DEF Restart
<1>3. CASE Transit(c)
  <2>1. Goto(c, "transition", "network") /\ UNCHANGED <<present, todo, claims>>
        /\ (Transition(s, "created", "starting") \/ UNCHANGED vars)
    BY <1>3 DEF Transit
  <2>2. s \in Ids
    BY <1>0, <2>1 DEF EngineOK, Goto, Resting
  <2>3. [Next]_vars
    BY <2>1, <2>2 DEF Next, ManagerCall
  <2>4. Moves(c, [proc[c] EXCEPT !.pc = "network"])
    BY <1>0, <1>b, <2>1, <2>3, GotoMoves DEF StartupSteps, Resting
  <2> QED
    BY <1>0, <2>1, <2>3, <2>4, MovedKeeps, IssuedGrows DEF Sound
<1>4. CASE ComposeUp(c)
  <2>1. PICK from \in StartupSteps, to \in StartupSteps :
          /\ Goto(c, from, to)
          /\ \/ present' = present
             \/ \E k \in Kinds : present' = [present EXCEPT ![proc[c].id] = @ \cup {k}]
    BY <1>4 DEF ComposeUp, BringUp, StartupSteps, Kinds
  <2>2. UNCHANGED <<vars, todo, claims>>
    BY <1>4 DEF ComposeUp, BringUp
  <2>3. present' \in [Ids -> SUBSET Kinds]
    BY <1>0, <2>1
  <2>4. Moves(c, [proc[c] EXCEPT !.pc = to])
    BY <1>0, <1>b, <2>1, <2>2, GotoMoves
  <2> QED
    BY <1>0, <2>2, <2>3, <2>4, MovedKeeps, IssuedGrows DEF Sound
<1>5. CASE ComposeUpFails(c)
  <2>1. Goto(c, proc[c].pc, "rblookup") /\ proc[c].pc \in StartupSteps
        /\ UNCHANGED <<vars, present, todo, claims>>
    BY <1>5 DEF ComposeUpFails, Goto, StartupSteps
  <2>2. Moves(c, [proc[c] EXCEPT !.pc = "rblookup"])
    BY <1>0, <1>b, <2>1, GotoMoves DEF RollbackSteps
  <2> QED
    BY <1>0, <2>1, <2>2, MovedKeeps, IssuedGrows DEF Sound
<1>6. CASE RecordReady(c)
  <2>1. /\ proc[c].pc = "record"
        /\ Become(c, "record", Unoccupied) \/ Goto(c, "record", "command")
        /\ MarkReady(s) \/ UNCHANGED vars
        /\ UNCHANGED <<present, todo, claims>>
    BY <1>6 DEF RecordReady, Become, Goto
  <2>2. s \in Ids
    BY <1>0, <2>1 DEF EngineOK, Resting
  <2>3. [Next]_vars
    BY <2>1, <2>2 DEF Next, ManagerCall
  <2>4. \E r : Moves(c, r)
    BY <1>0, <1>b, <2>1, <2>3, GotoMoves, RestMoves DEF StartupSteps, Resting
  <2> QED
    BY <1>0, <2>1, <2>3, <2>4, MovedKeeps, IssuedGrows DEF Sound
<1>7. CASE CommandReturns(c)
  <2>1. proc[c].pc = "command" /\ UNCHANGED <<vars, present, todo, claims>>
    BY <1>7 DEF CommandReturns
  <2>2. CASE Goto(c, "command", "lookup")
    <3>1. Moves(c, [proc[c] EXCEPT !.pc = "lookup"])
      BY <1>0, <1>b, <2>1, <2>2, GotoMoves DEF CleanupSteps, Resting
    <3> QED
      BY <1>0, <2>1, <3>1, MovedKeeps, IssuedGrows DEF Sound
  <2>3. CASE proc' = [proc EXCEPT ![c].op = "answered", ![c].pc = "lookup"]
    <3> DEFINE r == [proc[c] EXCEPT !.op = "answered", !.pc = "lookup"]
    <3>1. proc[c] \in ProcRecords /\ proc[c].id \in issued
      BY <1>0, <2>1 DEF EngineOK, Resting
    <3>2. r \in ProcRecords /\ r.id = proc[c].id
      BY <3>1 DEF ProcRecords, ProcOps, PCs, CleanupSteps
    <3>4. proc' = [proc EXCEPT ![c] = r]
      BY <1>0, <2>3
    <3> HIDE DEF r
    <3>3. Moves(c, r)
      BY <1>0, <2>1, <3>1, <3>2, <3>4 DEF Moves, vars
    <3> QED
      BY <1>0, <2>1, <3>3, MovedKeeps, IssuedGrows DEF Sound
  <2> QED
    BY <1>7, <2>2, <2>3 DEF CommandReturns
<1> QED
  BY <1>1, <1>2, <1>3, <1>4, <1>5, <1>6, <1>7

\* Every step of rollbackStartup is one call of the manager or none.
LEMMA RollbackSound ==
  ASSUME LabInv, NEW c \in Callers,
         \/ RollbackLookup(c) \/ RollbackDown(c) \/ RollbackVerify(c)
         \/ RollbackRemove(c) \/ RollbackFails(c)
  PROVE  Sound
<1> DEFINE s == proc[c].id
<1>0. EngineOK /\ c \in Procs /\ proc \in [Procs -> ProcRecords]
      /\ present \in [Ids -> SUBSET Kinds]
      /\ todo \subseteq issued /\ claims \subseteq issued /\ issued \subseteq Ids
  BY DEF Procs, LabInv, EngineOK, IInv, TypeOK
<1>1. proc[c].pc \in RollbackSteps
  BY DEF RollbackLookup, RollbackDown, RollbackVerify, RollbackRemove, RollbackFails,
     Become, Goto, RollbackSteps
<1>2. s \in issued /\ s \in Ids /\ proc[c] \in ProcRecords
  BY <1>0, <1>1 DEF EngineOK, RollbackSteps, Resting
<1>3. [Next]_vars
  BY <1>2 DEF RollbackLookup, RollbackDown, RollbackVerify, RollbackRemove,
     RollbackFails, Next, ManagerCall
<1>4. UNCHANGED <<todo, claims>> /\ present' \in [Ids -> SUBSET Kinds]
  BY <1>0, <1>2 DEF RollbackLookup, RollbackDown, RollbackVerify, RollbackRemove,
     RollbackFails
<1>5. \E r : Moves(c, r)
  <2>1. CASE \E from : Become(c, from, AfterRollback(c))
    <3>1. [proc[c] EXCEPT !.pc = "lookup"] \in ProcRecords
      BY <1>2 DEF ProcRecords, PCs, CleanupSteps
    <3>2. Unoccupied \in ProcRecords /\ Unoccupied.id = NoSession
          /\ Unoccupied.pc \in Resting
      BY DEF Unoccupied, ProcRecords, ProcOps, PCs, Resting
    <3>3. AfterRollback(c) \in ProcRecords
          /\ AfterRollback(c).id \in issued \cup {NoSession}
          /\ (AfterRollback(c).pc \notin Resting => AfterRollback(c).id \in issued)
      BY <1>2, <3>1, <3>2 DEF AfterRollback, ProcRecords
    <3>4. Moves(c, AfterRollback(c))
      BY <1>3, <2>1, <3>3, IssuedGrows DEF Moves, Become
    <3> QED
      BY <3>4
  <2>2. CASE \E from \in RollbackSteps, to \in RollbackSteps : Goto(c, from, to)
    BY <1>0, <1>3, <2>2, GotoMoves DEF PCs, RollbackSteps, Resting
  <2> QED
    BY <2>1, <2>2 DEF RollbackLookup, RollbackDown, RollbackVerify, RollbackRemove,
       RollbackFails, RollbackSteps
<1> QED
  BY <1>0, <1>3, <1>4, <1>5, MovedKeeps, IssuedGrows DEF Sound

\* Every step of cleanupSession is one call of the manager or none.
LEMMA CleanupSound ==
  ASSUME LabInv, NEW p \in Procs, Cleanup(p)
  PROVE  Sound
<1> DEFINE s == proc[p].id
<1> USE DEF Cleanup
<1>0. EngineOK /\ proc \in [Procs -> ProcRecords]
      /\ present \in [Ids -> SUBSET Kinds]
      /\ todo \subseteq issued /\ claims \subseteq issued /\ issued \subseteq Ids
  BY DEF LabInv, EngineOK, IInv, TypeOK
<1>1. proc[p].pc \in CleanupSteps
  BY DEF Lookup, Inspect, InspectFails, Mark, Drain, DrainTimesOut, ComposeDown,
     ComposeDownFails, Verify, VerifyFails, Remove, Failed, Return, Become, Goto,
     CleanupSteps
<1>2. s \in issued /\ s \in Ids /\ proc[p] \in ProcRecords
  BY <1>0, <1>1 DEF EngineOK, CleanupSteps, Resting
<1>3. [Next]_vars
  BY <1>2 DEF Lookup, Inspect, InspectFails, Mark, Drain, DrainTimesOut,
     ComposeDown, ComposeDownFails, Verify, VerifyFails, Remove, Failed, Next,
     ManagerCall
<1>4. todo' = todo /\ present' \in [Ids -> SUBSET Kinds]
  BY <1>0, <1>2 DEF Lookup, Inspect, InspectFails, Mark, Drain, DrainTimesOut,
     ComposeDown, ComposeDownFails, Verify, VerifyFails, Remove, Failed, Return
<1>5. claims' \subseteq issued
  BY <1>0, <1>2 DEF Lookup, Inspect, InspectFails, Mark, Drain, DrainTimesOut,
     ComposeDown, ComposeDownFails, Verify, VerifyFails, Remove, Failed, Return,
     Report
<1>6. \E r : Moves(p, r)
  <2>1. CASE \E from, success : Return(p, from, success)
    <3>1. PICK from, success : Return(p, from, success)
      BY <2>1
    <3>2. AfterCleanup(p, success) \in ProcRecords
          /\ AfterCleanup(p, success).id = NoSession
          /\ AfterCleanup(p, success).pc \in Resting
      BY DEF AfterCleanup, Unoccupied, ProcRecords, ProcOps, OpNames, PCs, Resting
    <3> QED
      BY <3>1, <3>2 DEF Moves, Return, Become
  <2>2. CASE \E from \in CleanupSteps, to \in CleanupSteps : Goto(p, from, to)
    BY <1>0, <1>3, <2>2, GotoMoves DEF PCs, CleanupSteps, Resting
  <2>3. CASE /\ proc' = [proc EXCEPT ![p].pc = "inspect", ![p].snap = sessions[s].snap]
             /\ Exists(s)
    <3> DEFINE r == [proc[p] EXCEPT !.pc = "inspect", !.snap = sessions[s].snap]
    <3>1. sessions[s].snap \in BOOLEAN
      BY <1>2, <2>3 DEF LabInv, IInv, TypeOK, Exists, Session
    <3>2. r \in ProcRecords /\ r.id = s
      BY <1>2, <3>1 DEF ProcRecords, PCs, CleanupSteps
    <3>3. proc' = [proc EXCEPT ![p] = r]
      BY <1>0, <2>3
    <3> HIDE DEF r
    <3>4. Moves(p, r)
      BY <1>2, <1>3, <3>2, <3>3, IssuedGrows DEF Moves
    <3> QED
      BY <3>4
  <2> QED
    BY <2>1, <2>2, <2>3 DEF Lookup, Inspect, InspectFails, Mark, Drain,
       DrainTimesOut, ComposeDown, ComposeDownFails, Verify, VerifyFails, Remove,
       Failed, CleanupSteps
<1> QED
  BY <1>0, <1>3, <1>4, <1>5, <1>6, MovedKeeps, IssuedGrows DEF Sound

\* Every step of a command under a lease, of a stop's begin and of Status is
\* one call of the manager or none.
LEMMA LeasedSound ==
  ASSUME LabInv, NEW c \in Callers,
         \/ \E s \in Ids : BeginExec(c, s) \/ \E op \in Ops : BeginStop(c, op, s)
         \/ Status(c) \/ ReadAgain(c) \/ WaitForLease(c) \/ LeaseDenied(c)
         \/ RunLeased(c) \/ CommandEnds(c) \/ ReleaseLease(c)
  PROVE  Sound
<1>0. EngineOK /\ c \in Procs /\ proc \in [Procs -> ProcRecords]
      /\ present \in [Ids -> SUBSET Kinds]
      /\ todo \subseteq issued /\ claims \subseteq issued /\ issued \subseteq Ids
  BY DEF Procs, LabInv, EngineOK, IInv, TypeOK
<1>a. Unoccupied \in ProcRecords /\ Unoccupied.id = NoSession
      /\ Unoccupied.pc \in Resting
  BY DEF Unoccupied, ProcRecords, ProcOps, PCs, Resting
<1>b. \A op \in ProcOps, pc \in PCs, s \in issued :
        LET r == [op |-> op, pc |-> pc, id |-> s, snap |-> FALSE] IN
        r \in ProcRecords /\ r.id \in issued
  BY <1>0 DEF ProcRecords
<1>c. [Next]_vars => issued \subseteq issued'
  BY IssuedGrows
<1>1. ASSUME NEW op \in {"exec", "read", "stat"}, NEW s \in issued, TakeLease(c, op, s),
             UNCHANGED <<present, todo, claims>>
      PROVE  Sound
  <2>1. [Next]_vars
    BY <1>0, <1>1 DEF TakeLease, Next, LeaseStep
  <2>2. op \in ProcOps /\ "lease" \in PCs /\ "panic" \in PCs
    BY DEF ProcOps, OpNames, PCs, LeasedSteps
  <2>3. \E r : Moves(c, r)
    BY <1>a, <1>b, <1>c, <1>1, <2>1, <2>2 DEF TakeLease, Moves
  <2> QED
    BY <1>0, <1>1, <1>c, <2>1, <2>3, MovedKeeps DEF Sound
<1>2. CASE \E s \in Ids : BeginExec(c, s)
  BY <1>1, <1>2 DEF BeginExec, Addressable
<1>3. CASE \E s \in Ids, op \in Ops : BeginStop(c, op, s)
  <2>1. PICK s \in Ids, op \in Ops : BeginStop(c, op, s)
    BY <1>3
  <2>2. [Next]_vars /\ s \in issued
    BY <2>1 DEF BeginStop, Next, ManagerCall, Addressable
  <2>3. op \in ProcOps /\ "lookup" \in PCs
    BY <2>1 DEF BeginStop, ProcOps, OpNames, PCs, CleanupSteps
  <2>4. \E r : Moves(c, r)
    BY <1>b, <1>c, <2>1, <2>2, <2>3 DEF BeginStop, Become, Moves
  <2> QED
    BY <1>0, <1>c, <2>1, <2>2, <2>4, MovedKeeps DEF Sound, BeginStop
<1>4. CASE Status(c)
  <2>1. [Next]_vars
    BY <1>4 DEF Status, Next, ManagerCall
  <2> QED
    BY <1>0, <1>c, <1>4, <2>1 DEF Status, Sound, EngineOK, engine
<1>5. CASE ReadAgain(c)
  <2>1. proc[c].id \in issued
    BY <1>0, <1>5 DEF ReadAgain, EngineOK, Resting
  <2> QED
    BY <1>1, <1>5, <2>1 DEF ReadAgain
<1>6. CASE WaitForLease(c)
  <2>1. [Next]_vars
    BY <1>6 DEF WaitForLease, Next, LeaseStep, LeaseProgress
  <2> QED
    BY <1>0, <1>c, <1>6, <2>1 DEF WaitForLease, Sound, EngineOK, engine
<1>7. CASE LeaseDenied(c)
  <2>1. [Next]_vars
    BY <1>7 DEF LeaseDenied, Next, LeaseStep, LeaseProgress
  <2>2. Moves(c, Erred(c))
    BY <1>0, <1>7, <2>1, ErredMoves DEF LeaseDenied, Become, Resting
  <2> QED
    BY <1>0, <1>c, <1>7, <2>1, <2>2, MovedKeeps DEF Sound, LeaseDenied
<1>8. CASE RunLeased(c)
  <2>1. proc[c].id \in Ids
    BY <1>0, <1>8 DEF RunLeased, EngineOK, Goto, Resting
  <2>2. [Next]_vars
    BY <1>8, <2>1 DEF RunLeased, Next, ManagerCall
  <2>3. Moves(c, [proc[c] EXCEPT !.pc = "leased"])
    BY <1>0, <1>8, <2>2, GotoMoves DEF RunLeased, PCs, LeasedSteps, Resting
  <2> QED
    BY <1>0, <1>c, <1>8, <2>2, <2>3, MovedKeeps DEF Sound, RunLeased
<1>9. CASE CommandEnds(c)
  <2>2. [Next]_vars
    BY <1>9 DEF CommandEnds, Next, LeaseStep, LeaseProgress
  <2>3. Moves(c, [proc[c] EXCEPT !.pc = "release"])
    BY <1>0, <1>9, <2>2, GotoMoves DEF CommandEnds, PCs, LeasedSteps, Resting
  <2> QED
    BY <1>0, <1>c, <1>9, <2>2, <2>3, MovedKeeps DEF Sound, CommandEnds
<1>10. CASE ReleaseLease(c)
  <2>2. [Next]_vars
    BY <1>10 DEF ReleaseLease, Next, LeaseStep, LeaseProgress
  <2>3. CASE UNCHANGED proc
    BY <1>0, <1>c, <1>10, <2>2, <2>3 DEF ReleaseLease, Sound, EngineOK
  <2>4. CASE \/ Become(c, "release", Unoccupied) \/ Goto(c, "release", "again")
             \/ Become(c, "release", Erred(c))
    <3>1. \E r : Moves(c, r)
      BY <1>0, <2>2, <2>4, GotoMoves, RestMoves, ErredMoves
         DEF PCs, LeasedSteps, Resting, Become
    <3> QED
      BY <1>0, <1>c, <1>10, <2>2, <3>1, MovedKeeps DEF Sound, ReleaseLease
  <2> QED
    BY <1>10, <2>3, <2>4 DEF ReleaseLease
<1> QED
  BY <1>2, <1>3, <1>4, <1>5, <1>6, <1>7, <1>8, <1>9, <1>10

\* The sweep's own steps, a passing deadline and the controller's death are
\* steps of the manager's module or leave it alone.
LEMMA WorldSound ==
  ASSUME LabInv, Sweep \/ NextCandidate \/ (\E s \in Ids : Deadline(s)) \/ ControllerDies
  PROVE  Sound
<1>0. EngineOK /\ Reaper \in Procs /\ proc \in [Procs -> ProcRecords]
      /\ present \in [Ids -> SUBSET Kinds]
      /\ todo \subseteq issued /\ claims \subseteq issued /\ issued \subseteq Ids
  BY DEF Procs, LabInv, EngineOK, IInv, TypeOK
<1>c. [Next]_vars => issued \subseteq issued'
  BY IssuedGrows
<1>1. CASE Sweep
  <2>1. todo' \subseteq issued
    BY <1>1 DEF Sweep, StaleSessions, LabInv, IInv, Provenance
  <2> QED
    BY <1>0, <1>1, <2>1 DEF Sweep, Sound, EngineOK, vars
<1>2. CASE NextCandidate
  <2>1. PICK s \in todo :
          /\ todo' = todo \ {s}
          /\ Become(Reaper, "idle",
                    [op |-> "reap", pc |-> "lookup", id |-> s, snap |-> FALSE])
          /\ UNCHANGED <<vars, present, claims>>
    BY <1>2 DEF NextCandidate
  <2>2. issued' = issued /\ s \in issued
    BY <1>0, <2>1 DEF vars
  <2>3. Moves(Reaper, [op |-> "reap", pc |-> "lookup", id |-> s, snap |-> FALSE])
    BY <1>0, <2>1, <2>2 DEF Become, Moves, ProcRecords, ProcOps, PCs, CleanupSteps
  <2> QED
    BY <1>0, <2>1, <2>2, <2>3, MovedKeeps DEF Sound
<1>3. CASE \E s \in Ids : Deadline(s)
  <2>1. [Next]_vars
    BY <1>3 DEF Deadline, Next
  <2> QED
    BY <1>0, <1>c, <1>3, <2>1 DEF Deadline, Sound, EngineOK, engine
<1>4. CASE ControllerDies
  <2>1. [Next]_vars
    BY <1>4 DEF ControllerDies, Next
  <2>2. Unoccupied \in ProcRecords /\ Unoccupied.id = NoSession
        /\ Unoccupied.pc \in Resting
    BY DEF Unoccupied, ProcRecords, ProcOps, PCs, Resting
  <2>3. present' \in [Ids -> SUBSET Kinds] /\ todo' = {} /\ claims' = claims
    BY <1>0, <1>4 DEF ControllerDies
  <2>4. proc' = [p \in Procs |-> Unoccupied]
    BY <1>4 DEF ControllerDies
  <2> QED
    BY <1>0, <1>c, <2>1, <2>2, <2>3, <2>4 DEF Sound, EngineOK
<1> QED
  BY <1>1, <1>2, <1>3, <1>4

\* Every step of the engine is a step of the manager's module, so its inductive
\* invariant IInv holds here too.
LEMMA StepSound ==
  ASSUME LabInv, [LabNext]_labVars
  PROVE  [Next]_vars /\ LabInv'
<1>1. Sound
  <2>1. CASE UNCHANGED labVars
    BY <2>1 DEF Sound, EngineOK, LabInv, labVars, engine, vars
  <2> QED
    BY <2>1, StartupSound, RollbackSound, CleanupSound, LeasedSound, WorldSound
       DEF LabNext, Request, Work
<1> QED
  BY <1>1, NextKeeps DEF Sound, LabInv

\* NewEngine starts well-formed.
LEMMA LabInitSound ==
  ASSUME LabInit
  PROVE  LabInv
<1>1. IInv
  BY InitEstablishes DEF LabInit
<1>2. EngineOK
  BY DEF LabInit, Init, EngineOK, Unoccupied, ProcRecords, ProcOps, PCs, Resting
<1> QED
  BY <1>1, <1>2 DEF LabInv

\* The manager's invariant and the types of the engine hold in every state of
\* the controller, whatever overlaps, fails or crashes.
THEOREM EngineInvariance == LabSpec => []LabInv
<1>1. LabInit => LabInv
  BY LabInitSound
<1>2. LabInv /\ [LabNext]_labVars => LabInv'
  BY StepSound
<1> QED
  BY <1>1, <1>2, PTL DEF LabSpec

\* The engine implements the manager's module: whatever is proved of
\* session.go for any callers holds for the calls that engine.go makes.
THEOREM EngineUsesManager == LabSpec => Spec
<1>1. LabInit => Init
  BY DEF LabInit
<1>2. LabInv /\ [LabNext]_labVars => [Next]_vars
  BY StepSound
<1> QED
  BY <1>1, <1>2, EngineInvariance, PTL DEF LabSpec, Spec

\* The records, the goroutines, the Docker resources, the sweep and the reports
\* keep their types.
THEOREM LabTypeCorrect == LabSpec => []LabTypeOK
<1>1. LabInv => LabTypeOK
  BY DEF LabInv, IInv, EngineOK, LabTypeOK, ProcRecords, PCs, TypeOK
<1> QED
  BY <1>1, EngineInvariance, PTL

-----------------------------------------------------------------------------
\* Nobody else, and no sweep, has the session that goroutine c works on.
Alone(c) == \A p \in Procs \ {c} : proc[p].id # proc[c].id

\* The startup of c has a live record, in memory and on disk, all to itself.
Owns(c) ==
  LET s == proc[c].id IN
  /\ Exists(s)
  /\ saved[s] # NoSession
  /\ sessions[s].status \notin Retryable
  /\ s \notin late
  /\ s \notin todo
  /\ Alone(c)

StartupsOwned == \A c \in Callers : proc[c].pc \in StartupSteps => Owns(c)

Removing == {"remove", "rbremove"}

\* RemoveSession is called only when nothing of the session is left in Docker.
GoneBeforeRecord ==
  \A p \in Procs : proc[p].pc \in Removing => present[proc[p].id] = {}

Owned == StartupsOwned /\ GoneBeforeRecord /\ RecordOutlivesResources

\* What a startup relies on in the record of x is not taken away.
Undisturbed(x) ==
  /\ Exists(x) => Exists(x)'
  /\ saved[x] # NoSession => saved'[x] # NoSession
  /\ Exists(x) /\ x \notin late /\ sessions[x].status \notin Retryable
       => sessions'[x].status \notin Retryable
  /\ x \notin late => x \notin late'

\* Rewriting the record of s.
LEMMA TouchUndisturbed ==
  ASSUME TypeOK, NEW s \in Ids, Exists(s), NEW r \in Session, NEW e \in SUBSET Session,
         sessions' = [sessions EXCEPT ![s] = r], Save(s, r, e), late' = late
  PROVE  /\ \A x \in Ids \ {s} : Undisturbed(x)
         /\ Exists(s)' /\ (saved[s] # NoSession => saved'[s] # NoSession)
         /\ (s \notin late /\ sessions[s].status \notin Retryable
               => r.status \notin Retryable) => Undisturbed(s)
<1>1. r # NoSession /\ \A y \in e : y # NoSession
  BY NamesAssumption
<1> QED
  BY <1>1 DEF Undisturbed, Exists, Save, TypeOK

\* A look that may expire a session (expireSessionLocked) disturbs nobody: only
\* a session past its deadline changes.
LEMMA LookUndisturbed ==
  ASSUME IInv, NEW s \in Ids, Observe(s), late' = late
  PROVE  \A x \in Ids : Undisturbed(x)
<1>1. CASE Overdue(s)
  <2>1. sessions[s] \in Session /\ Exists(s) /\ s \in late
    BY <1>1 DEF Overdue, Exists, IInv, TypeOK
  <2>2. Aged(s) \in Session
    BY <1>1, <2>1 DEF Aged, Session, Statuses
  <2> QED
    BY <1>1, <2>1, <2>2, TouchUndisturbed DEF Observe, Put, IInv
<1>2. CASE ~ Overdue(s)
  BY <1>2 DEF Observe, records, Undisturbed, Exists
<1> QED
  BY <1>1, <1>2

\* UpdateSessionState and the other rewrites concern the one record, and it
\* stays on disk.
LEMMA TouchedRecord ==
  ASSUME IInv, NEW s \in Ids, NEW r \in Session, Touch(s, r)
  PROVE  /\ \A x \in Ids \ {s} : Undisturbed(x)
         /\ saved[s] # NoSession => saved'[s] # NoSession
         /\ r.status \notin Retryable => Undisturbed(s)
BY TouchUndisturbed DEF Touch, Put, IInv

\* The calls that rewrite a record, or look at it.
LEMMA GentleCalls ==
  ASSUME IInv, NEW s \in Ids,
         \/ CreateFails(s) \/ GetSession(s) \/ Transition(s, "created", "starting")
         \/ MarkReady(s) \/ BeginStopping(s)
  PROVE  \A x \in Ids : Undisturbed(x)
<1>1. CASE CreateFails(s)
  BY <1>1 DEF CreateFails, Undisturbed, Exists, records
<1>2. CASE GetSession(s)
  BY <1>2, LookUndisturbed DEF GetSession
<1>3. ASSUME Exists(s)
      PROVE  sessions[s] \in Session
  BY <1>3 DEF IInv, TypeOK, Exists
<1>4. CASE Transition(s, "created", "starting") \/ BeginStopping(s)
  <2>1. PICK st \in {"starting", "stopping"} :
          Touch(s, [sessions[s] EXCEPT !.status = st])
    BY <1>4 DEF Transition, BeginStopping
  <2> DEFINE r == [sessions[s] EXCEPT !.status = st]
  <2>2. r \in Session /\ r.status = st
    BY <1>3, <2>1 DEF Touch, Session, Statuses
  <2> HIDE DEF r
  <2> QED
    BY <2>1, <2>2, TouchedRecord DEF r, Retryable
<1>5. CASE MarkReady(s)
  <2> DEFINE r == [sessions[s] EXCEPT !.status = "ready", !.snap = TRUE]
  <2>1. Touch(s, r) /\ r \in Session /\ r.status = "ready"
    BY <1>3, <1>5 DEF MarkReady, Touch, Session, Statuses
  <2> HIDE DEF r
  <2> QED
    BY <2>1, TouchedRecord DEF Retryable
<1> QED
  BY <1>1, <1>2, <1>4, <1>5

\* The calls that create a session and that end it concern only that session.
LEMMA HarshCalls ==
  ASSUME IInv, NEW s \in Ids,
         \/ RemoveSession(s) \/ RemoveFails(s)
         \/ \E m \in Modes : CreateSession(s, m)
  PROVE  \A x \in Ids \ {s} : Undisturbed(x)
BY DEF RemoveSession, RemoveFails, CreateSession, Undisturbed, Exists, IInv, TypeOK

\* A recorded failure also leaves the session's record where it is.
LEMMA FailureRecorded ==
  ASSUME IInv, NEW s \in Ids, RecordCleanupFailure(s)
  PROVE  /\ \A x \in Ids \ {s} : Undisturbed(x)
         /\ saved[s] # NoSession => saved'[s] # NoSession
<1> DEFINE r == [sessions[s] EXCEPT !.status = "cleanup-failed"]
<1>1. Touch(s, r) /\ Exists(s)
  BY DEF RecordCleanupFailure, Touch
<1>2. sessions[s] \in Session
  BY <1>1 DEF IInv, TypeOK, Exists
<1>3. r \in Session
  BY <1>2 DEF Session, Statuses
<1> HIDE DEF r
<1> QED
  BY <1>1, <1>3, TouchedRecord

\* ListSessions expires only sessions past their deadline.
LEMMA ListUndisturbed ==
  ASSUME IInv, ListSessions
  PROVE  \A x \in Ids : Undisturbed(x)
<1> DEFINE due == {s \in Ids : Overdue(s) /\ sessions[s].mode = "persistent"}
<1>1. /\ sessions' = [s \in Ids |-> IF s \in due THEN Aged(s) ELSE sessions[s]]
      /\ late' = late
  BY DEF ListSessions
<1>2. PICK written \in SUBSET due :
        saved' = [s \in Ids |-> IF s \in written THEN Aged(s) ELSE saved[s]]
  BY DEF ListSessions
<1>3. \A s \in due : /\ Exists(s) /\ s \in late
                     /\ Aged(s) # NoSession
  <2>1. \A s \in due : Exists(s) /\ s \in late /\ sessions[s] \in Session
    BY DEF Overdue, Exists, IInv, TypeOK
  <2>2. \A s \in due : Aged(s) \in Session
    BY <2>1 DEF Aged, Session, Statuses
  <2> QED
    BY <2>1, <2>2, NamesAssumption
<1> HIDE DEF due
<1> QED
  BY <1>1, <1>2, <1>3 DEF Undisturbed, Exists

\* The lease protocol changes counts, and the status of a session that is late.
LEMMA LeasesUndisturbed ==
  ASSUME IInv, NEW c \in Callers, LeaseStep(c)
  PROVE  \A x \in Ids : Undisturbed(x)
<1>1. CASE UNCHANGED <<sessions, saved, late>>
  BY <1>1 DEF Undisturbed, Exists
<1>2. CASE \E s \in Ids : Reserve(c, s)
  <2>1. PICK s \in Ids : Reserve(c, s)
    BY <1>2
  <2> DEFINE r == [sessions[s] EXCEPT !.active = @ + 1]
  <2>2. Exists(s) /\ sessions[s] \in Session
    BY <2>1 DEF Reserve, Admissible, IInv, TypeOK, Exists
  <2>3. r \in Session /\ r.status = sessions[s].status
    BY <2>2 DEF Session
  <2>4. sessions' = [sessions EXCEPT ![s] = r] /\ Save(s, r, {}) /\ late' = late
    BY <2>1 DEF Reserve, Put
  <2> HIDE DEF r
  <2> QED
    BY <2>2, <2>3, <2>4, TouchUndisturbed DEF IInv
<1>3. CASE \E s \in Ids : RefuseReservation(c, s)
  BY <1>3, GentleCalls DEF RefuseReservation
<1>4. CASE Refuse(c)
  <2> DEFINE s == lease[c].id
             r == [Aged(s) EXCEPT !.active = @ - 1]
             e == IF Overdue(s) THEN {Aged(s)} ELSE {}
  <2>1. lease[c].pc = "recheck" /\ s \in Ids /\ late' = late
    BY <1>4, StepMoves DEF Refuse, LeaseSteps, IInv
  <2>2. CASE Exists(s)
    <3>1. sessions[s] \in Session /\ sessions[s].active \in Nat \ {0}
      BY <2>1, CountedRecord DEF Counting
    <3>2. /\ Aged(s) \in Session /\ Aged(s).active \in Nat \ {0}
          /\ Aged(s).status = IF Overdue(s) THEN "expired" ELSE sessions[s].status
      BY <3>1 DEF Aged, Session, Statuses
    <3>3. r \in Session /\ r.status = Aged(s).status /\ e \in SUBSET Session
      BY <3>2 DEF Session
    <3>4. sessions' = [sessions EXCEPT ![s] = r] /\ Save(s, r, e)
      BY <1>4, <2>2 DEF Refuse
    <3>5. s \notin late => r.status = sessions[s].status
      BY <3>2, <3>3 DEF Overdue
    <3> HIDE DEF r, e, s
    <3> QED
      BY <2>1, <2>2, <3>3, <3>4, <3>5, TouchUndisturbed DEF IInv
  <2>3. CASE ~ Exists(s)
    BY <1>4, <2>1, <2>3 DEF Refuse, records, Undisturbed, Exists
  <2> QED
    BY <2>2, <2>3
<1>5. CASE Uncount(c)
  <2> DEFINE s == lease[c].id
             r == [sessions[s] EXCEPT !.active = IF @ > 0 THEN @ - 1 ELSE 0]
  <2>1. lease[c].pc = "uncount" /\ s \in Ids /\ late' = late
    BY <1>5, DoneMoves DEF Uncount, LeaseSteps, IInv
  <2>2. Exists(s) /\ sessions[s] \in Session /\ sessions[s].active \in Nat \ {0}
    BY <2>1, CountedRecord DEF Counting
  <2>3. r \in Session /\ r.status = sessions[s].status
    BY <2>2 DEF Session
  <2>4. sessions' = [sessions EXCEPT ![s] = r] /\ Save(s, r, {})
    BY <1>5, <2>2 DEF Uncount, Put
  <2> HIDE DEF r, s
  <2> QED
    BY <2>1, <2>2, <2>3, <2>4, TouchUndisturbed DEF IInv
<1> QED
  BY <1>1, <1>2, <1>3, <1>4, <1>5 DEF LeaseStep, LeaseProgress, CancelAtGlobal,
     CancelAtSession, AcquireGlobal, AcquireSession, Admit, DropSession, DropGlobal,
     Release, FreeSessionSlot, FreeGlobal, records

-----------------------------------------------------------------------------
\* Goroutine p goes on with the session it has, or leaves it.
Stays(p, r) ==
  LET s == proc[p].id IN
  /\ proc' = [proc EXCEPT ![p] = r]
  /\ r.id \in {s, NoSession}
  /\ todo' = todo
  /\ \A x \in Ids \ {s} : Undisturbed(x) /\ present'[x] = present[x]
  /\ s \in Ids =>
       /\ \/ present'[s] \subseteq present[s]
          \/ p \in Callers /\ proc[p].pc \in StartupSteps
       /\ present'[s] # {} => saved'[s] # NoSession
  /\ r.pc \in Removing => r.id = s /\ present'[s] = {}
  /\ r.pc \in StartupSteps => proc[p].pc \in StartupSteps /\ Undisturbed(s) /\ r.id = s

\* A goroutine that goes on with its session, or leaves it, takes nothing from
\* the startups and forgets no resource.
LEMMA StayOwned ==
  ASSUME LabInv, Owned, NEW p \in Procs, NEW r, Stays(p, r)
  PROVE  Owned'
<1> DEFINE s == proc[p].id
<1>0. /\ proc \in [Procs -> ProcRecords] /\ Callers \subseteq Procs
      /\ \A q \in Procs :
           proc[q].pc \in StartupSteps \cup Removing => proc[q].id \in Ids
      /\ s \in Ids \cup {NoSession} /\ issued \subseteq Ids /\ NoSession \notin Ids
  BY NamesAssumption DEF LabInv, EngineOK, IInv, TypeOK, Procs, StartupSteps,
     Removing, Resting
<1>1. \A q \in Procs : proc'[q] = IF q = p THEN r ELSE proc[q]
  BY <1>0 DEF Stays
<1>2. StartupsOwned'
  <2> SUFFICES ASSUME NEW c \in Callers, proc'[c].pc \in StartupSteps
               PROVE  Owns(c)'
    BY DEF StartupsOwned
  <2>1. proc[c].pc \in StartupSteps /\ proc'[c].id = proc[c].id
    BY <1>0, <1>1 DEF Stays
  <2>2. Owns(c) /\ proc[c].id \in Ids
    BY <1>0, <2>1 DEF Owned, StartupsOwned
  <2>3. Undisturbed(proc[c].id)
    BY <1>0, <1>1, <2>2 DEF Stays, Owns, Alone
  <2>4. Alone(c)'
    <3>1. \A q \in Procs : proc'[q].id \in {proc[q].id, NoSession}
      BY <1>1 DEF Stays
    <3> QED
      BY <1>0, <2>1, <2>2, <3>1 DEF Owns, Alone
  <2> QED
    BY <2>1, <2>2, <2>3, <2>4 DEF Owns, Undisturbed, Stays
<1>3. GoneBeforeRecord'
  <2> SUFFICES ASSUME NEW q \in Procs, proc'[q].pc \in Removing
               PROVE  present'[proc'[q].id] = {}
    BY DEF GoneBeforeRecord
  <2>1. CASE q = p
    BY <1>1, <2>1 DEF Stays
  <2>2. CASE q # p
    <3>1. proc'[q] = proc[q] /\ present[proc[q].id] = {} /\ proc[q].id \in Ids
      BY <1>0, <1>1, <2>2 DEF Owned, GoneBeforeRecord
    <3>2. CASE proc[q].id # s
      BY <3>1, <3>2 DEF Stays
    <3>3. CASE proc[q].id = s /\ present'[s] \subseteq present[s]
      BY <3>1, <3>3
    <3>4. CASE proc[q].id = s /\ p \in Callers /\ proc[p].pc \in StartupSteps
      BY <2>2, <3>4 DEF Owned, StartupsOwned, Owns, Alone
    <3> QED
      BY <1>0, <3>1, <3>2, <3>3, <3>4 DEF Stays
  <2> QED
    BY <2>1, <2>2
<1>4. RecordOutlivesResources'
  BY DEF Owned, RecordOutlivesResources, Undisturbed, Stays
<1> QED
  BY <1>2, <1>3, <1>4 DEF Owned

\* Goroutine p takes on a session that is not being started.
Arrives(p, r) ==
  /\ proc' = [proc EXCEPT ![p] = r]
  /\ r.pc \notin StartupSteps \cup Removing
  /\ \A c \in Callers : proc[c].pc \in StartupSteps => proc[c].id # r.id
  /\ todo' \subseteq todo
  /\ present' = present
  /\ \A x \in Ids : Undisturbed(x)

\* Where a startup or a removal is, its session is an identifier given out.
LEMMA StartupOn ==
  ASSUME LabInv
  PROVE  /\ Callers \subseteq Procs /\ proc \in [Procs -> ProcRecords]
         /\ \A q \in Procs :
              proc[q].pc \in StartupSteps \cup Removing => proc[q].id \in Ids
         /\ \A q \in Procs : proc[q].id \in issued \cup {NoSession}
         /\ issued \subseteq Ids /\ todo \subseteq issued
         /\ present \in [Ids -> SUBSET Kinds]
BY DEF LabInv, EngineOK, IInv, TypeOK, Procs, StartupSteps, Removing, Resting

\* Goto as the record it leads to.
LEMMA GotoTo ==
  ASSUME LabInv, NEW p \in Procs, NEW from, NEW to, Goto(p, from, to)
  PROVE  /\ proc[p].pc = from
         /\ \E r : /\ proc' = [proc EXCEPT ![p] = r]
                   /\ r.pc = to /\ r.id = proc[p].id
<1>1. proc[p] \in ProcRecords
  BY StartupOn
<1>2. LET r == [proc[p] EXCEPT !.pc = to] IN r.pc = to /\ r.id = proc[p].id
  BY <1>1 DEF ProcRecords
<1>3. proc' = [proc EXCEPT ![p] = [proc[p] EXCEPT !.pc = to]]
  BY StartupOn DEF Goto
<1> QED
  BY <1>2, <1>3 DEF Goto

\* A request or a sweep that turns to a session no startup has takes nothing
\* from the startups.
LEMMA ArriveOwned ==
  ASSUME LabInv, Owned, NEW p \in Procs, NEW r, Arrives(p, r)
  PROVE  Owned'
<1>1. \A q \in Procs : proc'[q] = IF q = p THEN r ELSE proc[q]
  BY StartupOn DEF Arrives
<1>2. StartupsOwned'
  BY <1>1, StartupOn DEF Owned, StartupsOwned, Owns, Alone, Arrives, Undisturbed
<1>3. GoneBeforeRecord'
  BY <1>1, StartupOn DEF Owned, GoneBeforeRecord, Arrives
<1>4. RecordOutlivesResources'
  BY DEF Owned, RecordOutlivesResources, Undisturbed, Arrives
<1> QED
  BY <1>2, <1>3, <1>4 DEF Owned

\* A step that leaves the manager and Docker alone keeps what startups own.
LEMMA QuietStay ==
  ASSUME LabInv, Owned, NEW p \in Procs, NEW r,
         proc' = [proc EXCEPT ![p] = r],
         r.id \in {proc[p].id, NoSession},
         r.pc \notin StartupSteps \cup Removing,
         todo' = todo,
         \A x \in Ids : Undisturbed(x) /\ present'[x] \subseteq present[x],
         \A x \in Ids \ {proc[p].id} : present'[x] = present[x]
  PROVE  Owned'
<1>1. \A x \in Ids : present'[x] # {} => saved'[x] # NoSession
  BY DEF Owned, RecordOutlivesResources, Undisturbed
<1>2. Stays(p, r)
  BY <1>1 DEF Stays
<1> QED
  BY <1>2, StayOwned

\* CreateSession hands its caller a session that nobody else has: the random
\* identifier was never given out.
LEMMA CreateOwned ==
  ASSUME LabInv, Owned, NEW c \in Callers, NEW op \in OpNames, NEW s \in Ids,
         Create(c, op, s)
  PROVE  Owned'
<1> DEFINE r == [op |-> op, pc |-> FirstStep(op), id |-> s, snap |-> FALSE]
<1>1. CreateSession(s, ModeOf(op)) /\ ModeOf(op) \in Modes
  BY DEF Create, ModeOf, Modes
<1>2. s \notin issued /\ late' = late /\ todo' = todo /\ present' = present
      /\ sessions'[s] = Fresh(ModeOf(op)) /\ saved'[s] = Fresh(ModeOf(op))
  BY <1>1 DEF CreateSession, Create, LabInv, IInv, TypeOK
<1>3. Fresh(ModeOf(op)) # NoSession /\ Fresh(ModeOf(op)).status \notin Retryable
  <2>1. Fresh(ModeOf(op)) \in Session
    BY <1>1 DEF Fresh, Session, Statuses
  <2> QED
    BY <2>1, NamesAssumption DEF Fresh, Retryable
<1>4. \A x \in Ids \ {s} : Undisturbed(x)
  BY <1>1, HarshCalls DEF LabInv
<1>5. \A q \in Procs : proc[q].id # s
  BY <1>2, StartupOn, NamesAssumption
<1>6. /\ \A q \in Procs : proc'[q] = IF q = c THEN r ELSE proc[q]
      /\ r.id = s /\ r.pc \notin Removing
  BY StartupOn DEF Create, FirstStep, Removing
<1> HIDE DEF r
<1>7. s \notin late /\ s \notin todo
  BY <1>2, StartupOn DEF LabInv, IInv, TypeOK
<1>8. Owns(c)'
  BY <1>2, <1>3, <1>5, <1>6, <1>7, StartupOn DEF Owns, Alone, Exists
<1>9. StartupsOwned'
  <2> SUFFICES ASSUME NEW d \in Callers, d # c, proc'[d].pc \in StartupSteps
               PROVE  Owns(d)'
    BY <1>8 DEF StartupsOwned
  <2>1. Owns(d) /\ proc'[d] = proc[d] /\ proc[d].id \in Ids \ {s}
    BY <1>5, <1>6, StartupOn DEF Owned, StartupsOwned
  <2>2. Alone(d)'
    BY <1>6, <2>1 DEF Owns, Alone
  <2> QED
    BY <1>2, <1>4, <2>1, <2>2 DEF Owns, Undisturbed
<1>10. GoneBeforeRecord'
  BY <1>2, <1>6, StartupOn DEF Owned, GoneBeforeRecord
<1>11. RecordOutlivesResources'
  BY <1>2, <1>3, <1>4 DEF Owned, RecordOutlivesResources, Undisturbed
<1> QED
  BY <1>9, <1>10, <1>11 DEF Owned

\* The steps of a startup keep its own session and those of the others.
LEMMA StartupOwned ==
  ASSUME LabInv, Owned, NEW c \in Callers,
         \/ \E s \in Ids, op \in Ops : BeginStartup(c, op, s)
         \/ Restart(c) \/ Transit(c) \/ ComposeUp(c) \/ ComposeUpFails(c)
         \/ RecordReady(c) \/ CommandReturns(c)
  PROVE  Owned'
<1> DEFINE s == proc[c].id
<1>0. c \in Procs /\ Ops \subseteq OpNames /\ IInv
  BY EngineAssumption DEF Procs, LabInv
<1>a. UNCHANGED vars => \A x \in Ids : Undisturbed(x)
  BY DEF vars, Undisturbed, Exists
<1>b. proc[c].pc \in StartupSteps => s \in Ids /\ saved[s] # NoSession
  BY <1>0, StartupOn DEF Owned, StartupsOwned, Owns
<1>r. Unoccupied.id = NoSession /\ Unoccupied.pc \notin StartupSteps \cup Removing
  BY DEF Unoccupied, StartupSteps, Removing
<1>1. CASE \E x \in Ids, op \in Ops : BeginStartup(c, op, x)
  <2>1. PICK x \in Ids, op \in Ops : BeginStartup(c, op, x)
    BY <1>1
  <2>2. CASE Create(c, op, x)
    BY <1>0, <2>2, CreateOwned
  <2>3. CASE CreateFails(x) /\ UNCHANGED engine
    BY <1>0, <2>3, GentleCalls DEF engine, Owned, StartupsOwned, Owns, Alone,
       GoneBeforeRecord, RecordOutlivesResources, Undisturbed, CreateFails, records,
       Exists
  <2> QED
    BY <2>1, <2>2, <2>3 DEF BeginStartup
<1>2. CASE Restart(c)
  <2>1. CASE \E x \in Ids : Create(c, "start", x)
    BY <2>1, CreateOwned DEF OpNames
  <2>2. CASE /\ UNCHANGED vars \/ \E x \in Ids : CreateFails(x)
             /\ Become(c, "restart", Unoccupied)
             /\ UNCHANGED <<present, todo, claims>>
    <3>1. \A x \in Ids : Undisturbed(x)
      BY <1>0, <1>a, <2>2, GentleCalls
    <3>2. present' = present /\ todo' = todo /\ proc' = [proc EXCEPT ![c] = Unoccupied]
      BY <2>2 DEF Become
    <3> QED
      BY <1>0, <1>r, <3>1, <3>2, QuietStay
  <2> QED
    BY <1>2, <2>1, <2>2 DEF Restart
<1>3. ASSUME NEW r, proc[c].pc \in StartupSteps, proc' = [proc EXCEPT ![c] = r],
             r.id \in {s, NoSession}, r.pc \notin Removing,
             r.pc \in StartupSteps => r.id = s,
             todo' = todo, \A x \in Ids : Undisturbed(x),
             \A x \in Ids \ {s} : present'[x] = present[x]
      PROVE  Owned'
  <2>1. Stays(c, r)
    BY <1>b, <1>3 DEF Stays, Undisturbed
  <2> QED
    BY <1>0, <2>1, StayOwned
<1>4. CASE Transit(c)
  <2>1. \A x \in Ids : Undisturbed(x)
    BY <1>0, <1>a, <1>b, <1>4, GentleCalls DEF Transit, Goto, StartupSteps
  <2>2. Goto(c, "transition", "network") /\ UNCHANGED <<present, todo>>
    BY <1>4 DEF Transit
  <2>3. PICK r : proc' = [proc EXCEPT ![c] = r] /\ r.pc = "network" /\ r.id = s
    BY <1>0, <2>2, GotoTo
  <2>4. proc[c].pc \in StartupSteps /\ "network" \notin Removing
    BY <2>2 DEF Goto, StartupSteps, Removing
  <2> QED
    BY <1>3, <2>1, <2>2, <2>3, <2>4
<1>5. CASE ComposeUp(c)
  <2>1. PICK from \in StartupSteps, to \in StartupSteps :
          /\ Goto(c, from, to)
          /\ \/ present' = present
             \/ \E k \in Kinds : present' = [present EXCEPT ![proc[c].id] = @ \cup {k}]
    BY <1>5 DEF ComposeUp, BringUp, StartupSteps, Kinds
  <2>2. UNCHANGED <<vars, todo, claims>>
    BY <1>5 DEF ComposeUp, BringUp
  <2>3. PICK r : proc' = [proc EXCEPT ![c] = r] /\ r.pc = to /\ r.id = s
    BY <1>0, <2>1, GotoTo
  <2>4. to \notin Removing /\ proc[c].pc \in StartupSteps
    BY <2>1 DEF StartupSteps, Removing, Goto
  <2>5. \A x \in Ids \ {s} : present'[x] = present[x]
    BY <2>1, StartupOn
  <2> QED
    BY <1>3, <1>a, <2>2, <2>3, <2>4, <2>5
<1>6. CASE ComposeUpFails(c)
  <2>1. Goto(c, proc[c].pc, "rblookup") /\ proc[c].pc \in StartupSteps
        /\ UNCHANGED <<vars, present, todo, claims>>
    BY <1>6 DEF ComposeUpFails, Goto, StartupSteps
  <2>2. PICK r : proc' = [proc EXCEPT ![c] = r] /\ r.pc = "rblookup" /\ r.id = s
    BY <1>0, <2>1, GotoTo
  <2>3. "rblookup" \notin StartupSteps \cup Removing
    BY DEF StartupSteps, Removing
  <2> QED
    BY <1>3, <1>a, <2>1, <2>2, <2>3
<1>7. CASE RecordReady(c)
  <2>1. /\ proc[c].pc = "record"
        /\ Become(c, "record", Unoccupied) \/ Goto(c, "record", "command")
        /\ MarkReady(s) \/ UNCHANGED vars
        /\ UNCHANGED <<present, todo, claims>>
    BY <1>7 DEF RecordReady, Become, Goto
  <2>2. \A x \in Ids : Undisturbed(x)
    BY <1>0, <1>a, <1>b, <2>1, GentleCalls DEF StartupSteps
  <2>3. PICK r : /\ proc' = [proc EXCEPT ![c] = r]
                 /\ r.pc \notin Removing /\ r.id \in {s, NoSession}
                 /\ r.pc \in StartupSteps => r.id = s
    BY <1>0, <1>r, <2>1, GotoTo DEF Become, Removing
  <2>4. proc[c].pc \in StartupSteps
    BY <2>1 DEF StartupSteps
  <2> QED
    BY <1>3, <2>1, <2>2, <2>3, <2>4
<1>8. CASE CommandReturns(c)
  <2>1. proc[c].pc = "command" /\ UNCHANGED <<vars, present, todo, claims>>
    BY <1>8 DEF CommandReturns
  <2>2. PICK r : /\ proc' = [proc EXCEPT ![c] = r]
                 /\ r.pc = "lookup" /\ r.id = s
    <3>1. CASE Goto(c, "command", "lookup")
      BY <1>0, <3>1, GotoTo
    <3>2. CASE proc' = [proc EXCEPT ![c].op = "answered", ![c].pc = "lookup"]
      <4> DEFINE r == [proc[c] EXCEPT !.op = "answered", !.pc = "lookup"]
      <4>1. proc[c] \in ProcRecords
        BY <1>0, StartupOn
      <4>2. r.pc = "lookup" /\ r.id = s
        BY <4>1 DEF ProcRecords
      <4>3. proc' = [proc EXCEPT ![c] = r]
        BY <3>2, StartupOn
      <4> QED
        BY <4>2, <4>3
    <3> QED
      BY <1>8, <3>1, <3>2 DEF CommandReturns
  <2>3. proc[c].pc \in StartupSteps /\ "lookup" \notin StartupSteps \cup Removing
    BY <2>1 DEF StartupSteps, Removing
  <2> QED
    BY <1>3, <1>a, <2>1, <2>2, <2>3
<1> QED
  BY <1>1, <1>2, <1>4, <1>5, <1>6, <1>7, <1>8

\* Removing a session whose resources are gone keeps what the others own.
LEMMA HarshStay ==
  ASSUME LabInv, Owned, NEW p \in Procs, NEW r,
         proc' = [proc EXCEPT ![p] = r],
         proc[p].id \in Ids,
         r.id \in {proc[p].id, NoSession},
         r.pc \notin StartupSteps \cup Removing,
         todo' = todo, present' = present,
         \A x \in Ids \ {proc[p].id} : Undisturbed(x),
         \/ present[proc[p].id] = {}
         \/ saved[proc[p].id] # NoSession => saved'[proc[p].id] # NoSession
  PROVE  Owned'
<1>1. Stays(p, r)
  BY DEF Stays, Owned, RecordOutlivesResources
<1> QED
  BY <1>1, StayOwned

\* rollbackStartup gives its own session up, and only after its resources.
LEMMA RollbackOwned ==
  ASSUME LabInv, Owned, NEW c \in Callers,
         \/ RollbackLookup(c) \/ RollbackDown(c) \/ RollbackVerify(c)
         \/ RollbackRemove(c) \/ RollbackFails(c)
  PROVE  Owned'
<1> DEFINE s == proc[c].id
<1>0. c \in Procs /\ IInv
  BY DEF Procs, LabInv
<1>1. s \in Ids /\ proc[c] \in ProcRecords
  BY <1>0 DEF RollbackLookup, RollbackDown, RollbackVerify, RollbackRemove,
     RollbackFails, Become, Goto, LabInv, EngineOK, IInv, TypeOK, Resting
<1>2. UNCHANGED vars => \A x \in Ids : Undisturbed(x)
  BY DEF vars, Undisturbed, Exists
<1>3. /\ AfterRollback(c).id \in {s, NoSession}
      /\ AfterRollback(c).pc \notin StartupSteps \cup Removing
  <2>1. [proc[c] EXCEPT !.pc = "lookup"].id = s
        /\ [proc[c] EXCEPT !.pc = "lookup"].pc = "lookup"
    BY <1>1 DEF ProcRecords
  <2> QED
    BY <2>1 DEF AfterRollback, Unoccupied, StartupSteps, Removing
<1>4. CASE RollbackLookup(c)
  <2>1. CASE Become(c, "rblookup", AfterRollback(c)) /\ UNCHANGED vars
    BY <1>0, <1>2, <1>3, <1>4, <2>1, QuietStay DEF RollbackLookup, Become
  <2>2. CASE Goto(c, "rblookup", "rbdown") /\ GetSession(s)
    <3>1. \A x \in Ids : Undisturbed(x)
      BY <1>0, <1>1, <2>2, GentleCalls
    <3>2. PICK r : proc' = [proc EXCEPT ![c] = r] /\ r.pc = "rbdown" /\ r.id = s
      BY <1>0, <2>2, GotoTo
    <3>3. "rbdown" \notin StartupSteps \cup Removing
      BY DEF StartupSteps, Removing
    <3> QED
      BY <1>0, <1>4, <3>1, <3>2, <3>3, QuietStay DEF RollbackLookup
  <2> QED
    BY <1>4, <2>1, <2>2 DEF RollbackLookup
<1>5. CASE RollbackDown(c)
  <2>1. UNCHANGED <<vars, todo, claims>>
        /\ \E left \in SUBSET present[s] : present' = [present EXCEPT ![s] = left]
    BY <1>5 DEF RollbackDown
  <2>2. \A x \in Ids : Undisturbed(x) /\ present'[x] \subseteq present[x]
    BY <1>0, <1>1, <1>2, <2>1, StartupOn
  <2>3. \A x \in Ids \ {s} : present'[x] = present[x]
    BY <2>1, StartupOn
  <2>4. PICK r : proc' = [proc EXCEPT ![c] = r] /\ r.pc = "rbverify" /\ r.id = s
    BY <1>0, <1>5, GotoTo DEF RollbackDown
  <2>5. "rbverify" \notin StartupSteps \cup Removing
    BY DEF StartupSteps, Removing
  <2> QED
    BY <1>0, <2>1, <2>2, <2>3, <2>4, <2>5, QuietStay
<1>6. CASE RollbackVerify(c)
  <2>1. \A x \in Ids : Undisturbed(x)
    BY <1>2, <1>6 DEF RollbackVerify
  <2>2. UNCHANGED <<vars, present, todo, claims>>
    BY <1>6 DEF RollbackVerify
  <2>3. PICK r : /\ proc' = [proc EXCEPT ![c] = r] /\ r.id = s
                 /\ r.pc = "rbfail" \/ (r.pc = "rbremove" /\ present[s] = {})
    BY <1>0, <1>6, GotoTo DEF RollbackVerify
  <2>4. Stays(c, r)
    BY <2>1, <2>2, <2>3 DEF Stays, Owned, RecordOutlivesResources, vars, StartupSteps,
       Removing
  <2> QED
    BY <1>0, <2>4, StayOwned
<1>7. CASE RollbackRemove(c)
  <2>1. \A x \in Ids \ {s} : Undisturbed(x)
    BY <1>0, <1>1, <1>2, <1>7, HarshCalls DEF RollbackRemove
  <2>2. present[s] = {}
    BY <1>0, <1>7 DEF RollbackRemove, Become, Owned, GoneBeforeRecord, Removing
  <2>3. proc' = [proc EXCEPT ![c] = AfterRollback(c)] /\ UNCHANGED <<present, todo>>
    BY <1>7 DEF RollbackRemove, Become
  <2> QED
    BY <1>0, <1>1, <1>3, <2>1, <2>2, <2>3, HarshStay
<1>8. CASE RollbackFails(c)
  <2>1. /\ \A x \in Ids \ {s} : Undisturbed(x)
        /\ saved[s] # NoSession => saved'[s] # NoSession
    BY <1>0, <1>1, <1>2, <1>8, FailureRecorded DEF RollbackFails, vars
  <2>2. proc' = [proc EXCEPT ![c] = AfterRollback(c)] /\ UNCHANGED <<present, todo>>
    BY <1>8 DEF RollbackFails, Become
  <2> QED
    BY <1>0, <1>1, <1>3, <2>1, <2>2, HarshStay
<1> QED
  BY <1>4, <1>5, <1>6, <1>7, <1>8

\* cleanupSession keeps what startups own: it removes a record only after
\* VerifyResourcesAbsent saw nothing left.
LEMMA CleanupOwned ==
  ASSUME LabInv, Owned, NEW p \in Procs, Cleanup(p)
  PROVE  Owned'
<1> DEFINE s == proc[p].id
<1>0. IInv
  BY DEF LabInv
<1>1. s \in Ids /\ proc[p] \in ProcRecords
  BY DEF Cleanup, Lookup, Inspect, InspectFails, Mark, Drain, DrainTimesOut,
     ComposeDown, ComposeDownFails, Verify, VerifyFails, Remove, Failed, Return,
     Become, Goto, LabInv, EngineOK, IInv, TypeOK, Resting
<1>2. UNCHANGED vars => \A x \in Ids : Undisturbed(x)
  BY DEF vars, Undisturbed, Exists
<1>3. \A b : /\ AfterCleanup(p, b).id = NoSession
             /\ AfterCleanup(p, b).pc \notin StartupSteps \cup Removing
  BY DEF AfterCleanup, Unoccupied, StartupSteps, Removing
<1>4. CleanupSteps \cap StartupSteps = {}
      /\ \A st \in CleanupSteps \ {"remove"} : st \notin Removing
  BY DEF CleanupSteps, StartupSteps, Removing
\* The steps that leave the records as they are, or look one up.
<1>5. ASSUME NEW from, NEW to \in CleanupSteps \ {"remove"}, Goto(p, from, to),
             todo' = todo, \A x \in Ids : Undisturbed(x),
             \A x \in Ids : present'[x] \subseteq present[x],
             \A x \in Ids \ {s} : present'[x] = present[x]
      PROVE  Owned'
  <2>1. PICK r : proc' = [proc EXCEPT ![p] = r] /\ r.pc = to /\ r.id = s
    BY <1>5, GotoTo
  <2> QED
    BY <1>4, <1>5, <2>1, QuietStay
<1>6. CASE Lookup(p)
  <2>1. CASE Return(p, "lookup", FALSE) /\ UNCHANGED vars
    BY <1>2, <1>3, <2>1, QuietStay DEF Return, Become
  <2>2. CASE /\ proc' = [proc EXCEPT ![p].pc = "inspect", ![p].snap = sessions[s].snap]
             /\ GetSession(s)
             /\ UNCHANGED <<present, todo, claims>>
    <3> DEFINE r == [proc[p] EXCEPT !.pc = "inspect", !.snap = sessions[s].snap]
    <3>1. r.pc = "inspect" /\ r.id = s
      BY <1>1 DEF ProcRecords
    <3>2. proc' = [proc EXCEPT ![p] = r]
      BY <2>2, StartupOn
    <3> HIDE DEF r
    <3>3. r.pc \notin StartupSteps \cup Removing
      BY <3>1 DEF StartupSteps, Removing
    <3> QED
      BY <1>0, <1>1, <2>2, <3>1, <3>2, <3>3, GentleCalls, QuietStay
  <2> QED
    BY <1>6, <2>1, <2>2 DEF Lookup
<1>7. CASE Inspect(p) \/ InspectFails(p) \/ Drain(p) \/ DrainTimesOut(p) \/ VerifyFails(p)
  BY <1>2, <1>5, <1>7 DEF Inspect, InspectFails, Drain, DrainTimesOut, VerifyFails,
     CleanupSteps
<1>8. CASE Mark(p)
  <2>1. \A x \in Ids : Undisturbed(x)
    BY <1>0, <1>1, <1>2, <1>8, GentleCalls DEF Mark
  <2> QED
    BY <1>5, <1>8, <2>1 DEF Mark, CleanupSteps
<1>9. CASE ComposeDown(p) \/ ComposeDownFails(p)
  <2>1. PICK left \in SUBSET present[s] : present' = [present EXCEPT ![s] = left]
    BY <1>1, <1>9, StartupOn DEF ComposeDown, ComposeDownFails
  <2>2. /\ \A x \in Ids : present'[x] \subseteq present[x]
        /\ \A x \in Ids \ {s} : present'[x] = present[x]
    BY <2>1, StartupOn
  <2> QED
    BY <1>2, <1>5, <1>9, <2>2 DEF ComposeDown, ComposeDownFails, CleanupSteps
<1>10. CASE Verify(p)
  <2>1. PICK r : proc' = [proc EXCEPT ![p] = r] /\ r.pc = "remove" /\ r.id = s
    BY <1>10, GotoTo DEF Verify
  <2>2. UNCHANGED <<vars, present, todo, claims>> /\ present[s] = {}
    BY <1>10 DEF Verify
  <2>3. Stays(p, r)
    BY <1>2, <2>1, <2>2 DEF Stays, StartupSteps
  <2> QED
    BY <2>3, StayOwned
<1>11. CASE Remove(p)
  <2>1. \A x \in Ids \ {s} : Undisturbed(x)
    BY <1>0, <1>1, <1>2, <1>11, HarshCalls DEF Remove
  <2>2. present[s] = {}
    BY <1>11 DEF Remove, Return, Become, Goto, Owned, GoneBeforeRecord, Removing
  <2>3. UNCHANGED <<present, todo>>
    BY <1>11 DEF Remove, Return
  <2>4. PICK r : /\ proc' = [proc EXCEPT ![p] = r]
                 /\ r.id \in {s, NoSession}
                 /\ r.pc \notin StartupSteps \cup Removing
    <3>1. CASE Return(p, "remove", TRUE)
      BY <1>3, <3>1 DEF Return, Become
    <3>2. CASE Goto(p, "remove", "failed")
      BY <3>2, GotoTo DEF StartupSteps, Removing
    <3> QED
      BY <1>11, <3>1, <3>2 DEF Remove
  <2> QED
    BY <1>1, <2>1, <2>2, <2>3, <2>4, HarshStay
<1>12. CASE Failed(p)
  <2>1. /\ \A x \in Ids \ {s} : Undisturbed(x)
        /\ saved[s] # NoSession => saved'[s] # NoSession
    BY <1>0, <1>1, <1>2, <1>12, FailureRecorded DEF Failed, vars
  <2> QED
    BY <1>1, <1>3, <1>12, <2>1, HarshStay DEF Failed, Return, Become
<1> QED
  BY <1>6, <1>7, <1>8, <1>9, <1>10, <1>11, <1>12 DEF Cleanup

\* Commands, stops and Status keep what startups own: a client can name only
\* sessions whose creating request has returned.
LEMMA LeasedOwned ==
  ASSUME LabInv, Owned, NEW c \in Callers,
         \/ \E s \in Ids : BeginExec(c, s) \/ \E op \in Ops : BeginStop(c, op, s)
         \/ Status(c) \/ ReadAgain(c) \/ WaitForLease(c) \/ LeaseDenied(c)
         \/ RunLeased(c) \/ CommandEnds(c) \/ ReleaseLease(c)
  PROVE  Owned'
<1> DEFINE s == proc[c].id
<1>0. c \in Procs /\ IInv /\ proc[c] \in ProcRecords
  BY StartupOn DEF Procs, LabInv
<1>a. UNCHANGED vars => \A x \in Ids : Undisturbed(x)
  BY DEF vars, Undisturbed, Exists
<1>b. UNCHANGED <<proc, present, todo>> /\ (\A x \in Ids : Undisturbed(x)) => Owned'
  BY StartupOn DEF Owned, StartupsOwned, Owns, Alone, GoneBeforeRecord,
     RecordOutlivesResources, Undisturbed
<1>c. LeaseStep(c) => \A x \in Ids : Undisturbed(x)
  BY <1>0, LeasesUndisturbed
<1>d. \A st \in {"idle", "lookup", "lease", "panic", "leased", "release", "again"} :
         st \notin StartupSteps \cup Removing
  BY DEF StartupSteps, Removing
\* The goroutine keeps its session, or rests.
<1>e. ASSUME NEW r, proc' = [proc EXCEPT ![c] = r], r.id \in {s, NoSession},
             r.pc \in {"idle", "lookup", "lease", "panic", "leased", "release", "again"},
             UNCHANGED <<present, todo>>, \A x \in Ids : Undisturbed(x)
      PROVE  Owned'
  BY <1>0, <1>d, <1>e, QuietStay
<1>1. ASSUME NEW op, NEW x \in Ids, TakeLease(c, op, x),
             UNCHANGED <<present, todo, claims>>,
             \A d \in Callers : proc[d].pc \in StartupSteps => proc[d].id # x
      PROVE  Owned'
  <2>1. \A y \in Ids : Undisturbed(y)
    BY <1>c, <1>1 DEF TakeLease, LeaseStep
  <2>2. CASE \E st \in {"lease", "panic"} :
               proc' = [proc EXCEPT ![c] =
                         [op |-> op, pc |-> st, id |-> x, snap |-> FALSE]]
    <3>1. PICK st \in {"lease", "panic"} :
                proc' = [proc EXCEPT ![c] =
                          [op |-> op, pc |-> st, id |-> x, snap |-> FALSE]]
      BY <2>2
    <3>2. Arrives(c, [op |-> op, pc |-> st, id |-> x, snap |-> FALSE])
      BY <1>1, <1>d, <2>1, <3>1 DEF Arrives
    <3> QED
      BY <1>0, <3>2, ArriveOwned
  <2>3. CASE proc' = [proc EXCEPT ![c] = Unoccupied]
    BY <1>1, <1>e, <2>1, <2>3 DEF Unoccupied
  <2> QED
    BY <1>1, <2>2, <2>3 DEF TakeLease
<1>2. CASE \E x \in Ids : BeginExec(c, x)
  BY <1>1, <1>2 DEF BeginExec, Addressable
<1>3. CASE \E x \in Ids, op \in Ops : BeginStop(c, op, x)
  <2>1. PICK x \in Ids, op \in Ops : BeginStop(c, op, x)
    BY <1>3
  <2>2. \A y \in Ids : Undisturbed(y)
    BY <1>0, <1>a, <2>1, GentleCalls DEF BeginStop
  <2>3. Arrives(c, [op |-> op, pc |-> "lookup", id |-> x, snap |-> FALSE])
    BY <1>d, <2>1, <2>2 DEF BeginStop, Arrives, Become, Addressable
  <2> QED
    BY <1>0, <2>3, ArriveOwned
<1>4. CASE Status(c)
  BY <1>0, <1>b, <1>4, GentleCalls, ListUndisturbed DEF Status, engine
<1>5. CASE ReadAgain(c)
  <2>1. proc[c].pc = "again" /\ s \in Ids
    BY <1>0, <1>5 DEF ReadAgain, LabInv, EngineOK, IInv, TypeOK, Resting
  <2>2. \A d \in Callers : proc[d].pc \in StartupSteps => proc[d].id # s
    BY <1>0, <1>d, <2>1 DEF Owned, StartupsOwned, Owns, Alone
  <2> QED
    BY <1>1, <1>5, <2>1, <2>2 DEF ReadAgain
<1>6. CASE WaitForLease(c)
  BY <1>b, <1>c, <1>6 DEF WaitForLease, LeaseStep, LeaseProgress, engine
<1>7. CASE LeaseDenied(c)
  <2>1. Erred(c).id \in {s, NoSession} /\ Erred(c).pc \in {"idle", "panic"}
    BY <1>0 DEF Erred, Unoccupied, ProcRecords
  <2> QED
    BY <1>c, <1>e, <1>7, <2>1 DEF LeaseDenied, LeaseStep, LeaseProgress, Become
<1>8. CASE RunLeased(c)
  <2>1. s \in Ids
    BY <1>0, <1>8 DEF RunLeased, Goto, LabInv, EngineOK, IInv, TypeOK, Resting
  <2>2. PICK r : proc' = [proc EXCEPT ![c] = r] /\ r.pc = "leased" /\ r.id = s
    BY <1>0, <1>8, GotoTo DEF RunLeased
  <2> QED
    BY <1>0, <1>e, <1>8, <2>1, <2>2, GentleCalls DEF RunLeased
<1>9. CASE CommandEnds(c)
  <2>1. PICK r : proc' = [proc EXCEPT ![c] = r] /\ r.pc = "release" /\ r.id = s
    BY <1>0, <1>9, GotoTo DEF CommandEnds
  <2> QED
    BY <1>c, <1>e, <1>9, <2>1 DEF CommandEnds, LeaseStep, LeaseProgress
<1>10. CASE ReleaseLease(c)
  <2>1. \A x \in Ids : Undisturbed(x)
    BY <1>c, <1>10 DEF ReleaseLease, LeaseStep, LeaseProgress
  <2>2. UNCHANGED <<present, todo>>
    BY <1>10 DEF ReleaseLease
  <2>3. CASE UNCHANGED proc
    BY <1>b, <2>1, <2>2, <2>3
  <2>4. CASE \E next \in {Unoccupied, Erred(c)} : Become(c, "release", next)
    <3>1. \A next \in {Unoccupied, Erred(c)} :
            next.id \in {s, NoSession} /\ next.pc \in {"idle", "panic"}
      BY <1>0 DEF Erred, Unoccupied, ProcRecords
    <3> QED
      BY <1>e, <2>1, <2>2, <2>4, <3>1 DEF Become
  <2>5. CASE Goto(c, "release", "again")
    BY <1>0, <1>e, <2>1, <2>2, <2>5, GotoTo
  <2> QED
    BY <1>10, <2>3, <2>4, <2>5 DEF ReleaseLease
<1> QED
  BY <1>2, <1>3, <1>4, <1>5, <1>6, <1>7, <1>8, <1>9, <1>10

\* The reaper's choice of candidates, a passing deadline and the controller's
\* death keep what startups own: no candidate is a session being started.
LEMMA WorldOwned ==
  ASSUME LabInv, Owned, TTLCoversWork,
         Sweep \/ NextCandidate \/ (\E s \in Ids : Deadline(s)) \/ ControllerDies
  PROVE  Owned'
<1>0. Reaper \in Procs
  BY DEF Procs
<1>1. CASE Sweep
  <2>1. \A c \in Callers : proc[c].pc \in StartupSteps => proc[c].id \notin todo'
    BY <1>1 DEF Sweep, StaleSessions, Owned, StartupsOwned, Owns
  <2>2. UNCHANGED <<vars, proc, present>>
    BY <1>1 DEF Sweep
  <2> QED
    BY <2>1, <2>2, StartupOn DEF vars, Owned, StartupsOwned, Owns, Alone, Exists,
       GoneBeforeRecord, RecordOutlivesResources
<1>2. CASE NextCandidate
  <2>1. PICK s \in todo :
          /\ todo' = todo \ {s}
          /\ Become(Reaper, "idle",
                    [op |-> "reap", pc |-> "lookup", id |-> s, snap |-> FALSE])
          /\ UNCHANGED <<vars, present, claims>>
    BY <1>2 DEF NextCandidate
  <2>2. \A x \in Ids : Undisturbed(x)
    BY <2>1 DEF vars, Undisturbed, Exists
  <2>3. \A c \in Callers : proc[c].pc \in StartupSteps => proc[c].id # s
    BY <2>1 DEF Owned, StartupsOwned, Owns
  <2>4. "lookup" \notin StartupSteps \cup Removing
    BY DEF StartupSteps, Removing
  <2>5. Arrives(Reaper, [op |-> "reap", pc |-> "lookup", id |-> s, snap |-> FALSE])
    BY <2>1, <2>2, <2>3, <2>4 DEF Arrives, Become
  <2> QED
    BY <1>0, <2>5, ArriveOwned
<1>3. CASE \E s \in Ids : Deadline(s)
  <2>1. PICK s \in Ids : Deadline(s)
    BY <1>3
  <2>2. \A c \in Callers : proc[c].pc \in StartupSteps => proc[c].id # s
    BY <2>1 DEF Deadline, NeedsTime
  <2>3. late' = late \cup {s} /\ UNCHANGED <<sessions, saved, proc, present, todo>>
    BY <2>1 DEF Deadline, DeadlinePasses, engine, records
  <2> QED
    BY <2>2, <2>3, StartupOn DEF Owned, StartupsOwned, Owns, Alone, Exists,
       GoneBeforeRecord, RecordOutlivesResources
<1>4. CASE ControllerDies
  <2>1. proc' = [p \in Procs |-> Unoccupied] /\ saved' = saved
    BY <1>4 DEF ControllerDies, Crash
  <2>2. Unoccupied.pc \notin StartupSteps \cup Removing
    BY DEF Unoccupied, StartupSteps, Removing
  <2>3. StartupsOwned' /\ GoneBeforeRecord'
    BY <2>1, <2>2, StartupOn DEF StartupsOwned, GoneBeforeRecord
  <2>4. \A x \in Ids : present'[x] # {} =>
          \/ present[x] # {}
          \/ \E c \in Callers : /\ proc[c].id = x
                                /\ proc[c].pc \in {"network", "volume", "runner"}
    BY <1>4 DEF ControllerDies
  <2>5. \A c \in Callers : proc[c].pc \in {"network", "volume", "runner"}
          => saved[proc[c].id] # NoSession
    BY DEF Owned, StartupsOwned, Owns, StartupSteps
  <2>6. RecordOutlivesResources'
    BY <2>1, <2>4, <2>5 DEF Owned, RecordOutlivesResources
  <2> QED
    BY <2>3, <2>6 DEF Owned
<1> QED
  BY <1>1, <1>2, <1>3, <1>4

\* No step of the controller breaks Owned.
LEMMA StepOwned ==
  ASSUME LabInv, Owned, TTLCoversWork, [LabNext]_labVars
  PROVE  Owned'
<1>1. CASE UNCHANGED labVars
  BY <1>1 DEF labVars, engine, vars, Owned, StartupsOwned, Owns, Alone, Exists,
     GoneBeforeRecord, RecordOutlivesResources
<1> QED
  BY <1>1, StartupOwned, RollbackOwned, CleanupOwned, LeasedOwned, WorldOwned
     DEF LabNext, Request, Work

\* As long as deadlines leave time for startups (TTLCoversWork), a startup has
\* its session to itself: no stop, reset or sweep works on a session that Run,
\* StartSession or HTTPRequest is still bringing up.
THEOREM StartupsAlone ==
  ASSUME TTLCoversWork
  PROVE  LabSpec => []Owned
<1>1. LabInit => Owned
  BY DEF LabInit, Init, Owned, StartupsOwned, GoneBeforeRecord,
     RecordOutlivesResources, Unoccupied, StartupSteps, Removing, Procs
<1>2. LabInv /\ Owned /\ [LabNext]_labVars => Owned'
  BY StepOwned
<1> QED
  BY <1>1, <1>2, EngineInvariance, PTL DEF LabSpec

\* Whatever fails, crashes or overlaps, a session with a Docker resource has its
\* record on disk, where CleanupStaleSessions or the next controller finds it.
THEOREM NoResourceForgotten ==
  ASSUME TTLCoversWork
  PROVE  LabSpec => []RecordOutlivesResources
<1>1. Owned => RecordOutlivesResources
  BY DEF Owned
<1> QED
  BY <1>1, StartupsAlone, PTL

\* The controller in memory knows every session that has anything in Docker: orphans,
\* as in the run ttl_startup, need a startup that outlives its own deadline.
THEOREM NothingOrphaned ==
  ASSUME TTLCoversWork
  PROVE  LabSpec => []NoOrphans
<1>1. LabInv /\ RecordOutlivesResources => NoOrphans
  BY DEF LabInv, IInv, NoResurrection, RecordOutlivesResources, NoOrphans
<1> QED
  BY <1>1, EngineInvariance, NoResourceForgotten, PTL

-----------------------------------------------------------------------------
\* The calls of the manager that make no session, and no session active.
OtherCall(s) ==
  \/ CreateFails(s) \/ GetSession(s)
  \/ RecordCleanupFailure(s) \/ BeginStopping(s) \/ RemoveSession(s) \/ RemoveFails(s)

Healthy(x) == Exists(x) /\ x \notin late /\ sessions[x].status \in Expirable

Gone(x) == ~ Exists(x) /\ saved[x] = NoSession

\* Ready for commands.
Open(x) == Exists(x) /\ sessions[x].status \in {"ready", "running-command"}

\* Counted against limits.maximum_sessions.
Active(x) ==
  Exists(x) /\ sessions[x].status \in {"starting", "ready", "running-command"}

\* What is not healthy or is gone does not recover.
Unrevived(x) == (~ Healthy(x) => ~ Healthy(x)') /\ (Gone(x) => Gone(x)')

\* Nor does what is closed, or not counted.
Down(x) == Unrevived(x) /\ (~ Open(x) => ~ Open(x)') /\ (~ Active(x) => ~ Active(x)')

\* Rewriting a record with a status that is not alive revives no session.
LEMMA TouchDown ==
  ASSUME TypeOK, NEW s \in Ids, Exists(s), NEW r \in Session, NEW e \in SUBSET Session,
         sessions' = [sessions EXCEPT ![s] = r], Save(s, r, e), late' = late
  PROVE  /\ \A x \in Ids \ {s} : Down(x)
         /\ Gone(s) => Gone(s)'
         /\ r.status \notin Expirable \/ r.status = sessions[s].status => Down(s)
BY DEF Down, Unrevived, Healthy, Open, Active, Expirable, Gone, Exists, Save, TypeOK

\* Looking at a session, stopping it or removing it revives none.
LEMMA OtherDown ==
  ASSUME IInv, NEW s \in Ids, OtherCall(s), NEW x \in Ids
  PROVE  Down(x)
<1> USE DEF IInv
<1>0. x \in Ids
  OBVIOUS
<1>1. CASE CreateFails(s)
  BY <1>1 DEF CreateFails, Down, Unrevived, Healthy, Open, Active, Gone, Exists, records
<1>2. CASE RemoveSession(s) \/ RemoveFails(s)
  BY <1>0, <1>2 DEF RemoveSession, RemoveFails, Down, Unrevived, Healthy, Open, Active,
     Expirable, Gone, Exists, TypeOK
<1>3. CASE GetSession(s)
  <2>1. CASE Overdue(s)
    <3>1. Exists(s) /\ sessions[s] \in Session
      BY <2>1 DEF Overdue, Exists, TypeOK
    <3>2. Aged(s) \in Session /\ Aged(s).status = "expired"
      BY <2>1, <3>1 DEF Aged, Session, Statuses
    <3>3. Aged(s).status \notin Expirable
      BY <3>2 DEF Expirable
    <3>4. sessions' = [sessions EXCEPT ![s] = Aged(s)] /\ Save(s, Aged(s), {})
          /\ late' = late
      BY <1>3, <2>1 DEF GetSession, Observe, Put
    <3> DEFINE r == Aged(s)
    <3>6. r \in Session /\ r.status \notin Expirable
          /\ sessions' = [sessions EXCEPT ![s] = r] /\ Save(s, r, {})
      BY <3>2, <3>3, <3>4
    <3> HIDE DEF r
    <3>5. \A y \in Ids : Down(y)
      BY <3>1, <3>4, <3>6, TouchDown
    <3> QED
      BY <1>0, <3>5
  <2>2. CASE ~ Overdue(s)
    BY <1>3, <2>2 DEF GetSession, Observe, records, Down, Unrevived, Healthy, Open,
       Active, Expirable, Gone, Exists
  <2> QED
    BY <2>1, <2>2
<1>4. ASSUME NEW st \in {"stopping", "cleanup-failed"},
             Touch(s, [sessions[s] EXCEPT !.status = st])
      PROVE  Down(x)
  <2> DEFINE r == [sessions[s] EXCEPT !.status = st]
  <2>1. Exists(s) /\ sessions[s] \in Session
    BY <1>4 DEF Touch, Exists, TypeOK
  <2>2. r \in Session /\ r.status = st
    BY <2>1 DEF Session, Statuses
  <2>3. sessions' = [sessions EXCEPT ![s] = r] /\ Save(s, r, {}) /\ late' = late
    BY <1>4 DEF Touch, Put
  <2> HIDE DEF r
  <2>4. r.status \notin Expirable
    BY <2>2 DEF Expirable
  <2> QED
    BY <1>0, <2>1, <2>2, <2>3, <2>4, TouchDown
<1>5. CASE RecordCleanupFailure(s) \/ BeginStopping(s)
  BY <1>4, <1>5 DEF RecordCleanupFailure, BeginStopping
<1> QED
  BY <1>1, <1>2, <1>3, <1>5 DEF OtherCall

\* Going on to "starting" makes a session active, but neither ready nor, when it
\* was late, healthy.
LEMMA TransitDown ==
  ASSUME IInv, NEW s \in Ids, Transition(s, "created", "starting"), NEW x \in Ids
  PROVE  /\ x # s => Down(x)
         /\ Unrevived(x)
         /\ ~ Open(x) => ~ Open(x)'
<1> DEFINE r == [sessions[s] EXCEPT !.status = "starting"]
<1>1. Exists(s) /\ sessions[s] \in Session /\ sessions[s].status = "created" /\ TypeOK
  BY DEF Transition, Exists, IInv, TypeOK
<1>2. r \in Session /\ r.status = "starting"
  BY <1>1 DEF Session, Statuses
<1>3. sessions' = [sessions EXCEPT ![s] = r] /\ Save(s, r, {}) /\ late' = late
  BY DEF Transition, Touch, Put
<1> HIDE DEF r
<1>4. Gone(s) => Gone(s)'
  BY <1>1 DEF Gone
<1>5. ~ Healthy(s) => ~ Healthy(s)'
  <2>1. ~ Healthy(s) => s \in late
    BY <1>1 DEF Healthy, Expirable
  <2> QED
    BY <1>3, <2>1 DEF Healthy
<1>6. ~ Open(s)'
  BY <1>1, <1>2, <1>3 DEF Open, TypeOK
<1>7. x # s => Down(x)
  BY <1>1, <1>2, <1>3, TouchDown
<1> QED
  BY <1>4, <1>5, <1>6, <1>7 DEF Down, Unrevived

\* CreateSession revives no session that was given out before, and the one it
\* makes is not active yet.
LEMMA CreateDown ==
  ASSUME IInv, NEW s \in Ids, NEW m \in Modes, CreateSession(s, m), NEW x \in Ids
  PROVE  /\ x \in issued => Down(x)
         /\ ~ Open(x) => ~ Open(x)'
         /\ ~ Active(x) => ~ Active(x)'
<1>1. Fresh(m).status \notin {"starting", "ready", "running-command"}
  BY DEF Fresh
<1> QED
  BY <1>1 DEF CreateSession, Down, Unrevived, Healthy, Open, Active, Gone, Exists, IInv,
     TypeOK

\* Recording a startup as ready revives no other session.
LEMMA ReadyDown ==
  ASSUME IInv, NEW s \in Ids, MarkReady(s), NEW x \in Ids
  PROVE  /\ x # s => Down(x)
         /\ Gone(x) => Gone(x)'
<1> DEFINE r == [sessions[s] EXCEPT !.status = "ready", !.snap = TRUE]
<1>1. Exists(s) /\ sessions[s] \in Session /\ x \in Ids /\ TypeOK
  BY DEF MarkReady, Touch, Exists, IInv, TypeOK
<1>2. r \in Session
  BY <1>1 DEF Session, Statuses
<1>3. sessions' = [sessions EXCEPT ![s] = r] /\ Save(s, r, {}) /\ late' = late
  BY DEF MarkReady, Touch, Put
<1> HIDE DEF r
<1> QED
  BY <1>1, <1>2, <1>3, TouchDown DEF Down, Unrevived

\* ListSessions revives no session.
LEMMA ListDown ==
  ASSUME IInv, ListSessions, NEW x \in Ids
  PROVE  Down(x)
<1> DEFINE due == {s \in Ids : Overdue(s) /\ sessions[s].mode = "persistent"}
<1>1. /\ sessions' = [s \in Ids |-> IF s \in due THEN Aged(s) ELSE sessions[s]]
      /\ late' = late /\ x \in Ids
  BY DEF ListSessions, IInv, TypeOK
<1>2. PICK written \in SUBSET due :
        saved' = [s \in Ids |-> IF s \in written THEN Aged(s) ELSE saved[s]]
  BY DEF ListSessions
<1>3. x \in due => Exists(x) /\ x \in late /\ Aged(x).status = "expired"
  <2>1. x \in due => Overdue(x) /\ sessions[x] \in Session
    BY DEF Overdue, Exists, IInv, TypeOK
  <2> QED
    BY <2>1 DEF Overdue, Aged, Session
<1> HIDE DEF due
<1> QED
  BY <1>1, <1>2, <1>3 DEF Down, Unrevived, Healthy, Open, Active, Gone, Exists

\* The lease protocol revives no session: it changes counts only.
LEMMA LeasesDown ==
  ASSUME IInv, NEW c \in Callers, LeaseStep(c), NEW x \in Ids
  PROVE  Down(x)
<1>0. x \in Ids /\ TypeOK
  BY DEF IInv, TypeOK
<1>1. CASE UNCHANGED <<sessions, saved, late>>
  BY <1>1 DEF Down, Unrevived, Healthy, Open, Active, Expirable, Gone, Exists
<1>2. CASE \E s \in Ids : Reserve(c, s)
  <2>1. PICK s \in Ids : Reserve(c, s)
    BY <1>2
  <2> DEFINE r == [sessions[s] EXCEPT !.active = @ + 1]
  <2>2. Exists(s) /\ sessions[s] \in Session
    BY <2>1 DEF Reserve, Admissible, IInv, TypeOK, Exists
  <2>3. r \in Session /\ r.status = sessions[s].status
    BY <2>2 DEF Session
  <2>4. sessions' = [sessions EXCEPT ![s] = r] /\ Save(s, r, {}) /\ late' = late
    BY <2>1 DEF Reserve, Put
  <2> HIDE DEF r
  <2> QED
    BY <1>0, <2>2, <2>3, <2>4, TouchDown
<1>3. CASE \E s \in Ids : RefuseReservation(c, s)
  BY <1>3, OtherDown DEF RefuseReservation, OtherCall
<1>4. CASE Refuse(c)
  <2> DEFINE s == lease[c].id
             r == [Aged(s) EXCEPT !.active = @ - 1]
             e == IF Overdue(s) THEN {Aged(s)} ELSE {}
  <2>1. lease[c].pc = "recheck" /\ s \in Ids /\ late' = late
    BY <1>4, StepMoves DEF Refuse, LeaseSteps, IInv
  <2>2. Exists(s) /\ sessions[s] \in Session /\ sessions[s].active \in Nat \ {0}
    BY <2>1, CountedRecord DEF Counting
  <2>3. /\ Aged(s) \in Session /\ Aged(s).active \in Nat \ {0}
        /\ Aged(s).status = IF Overdue(s) THEN "expired" ELSE sessions[s].status
    BY <2>2 DEF Aged, Session, Statuses
  <2>4. r \in Session /\ r.status = Aged(s).status /\ e \in SUBSET Session
    BY <2>3 DEF Session
  <2>5. sessions' = [sessions EXCEPT ![s] = r] /\ Save(s, r, e)
    BY <1>4, <2>2 DEF Refuse
  <2>6. r.status \notin Expirable \/ r.status = sessions[s].status
    BY <2>3, <2>4 DEF Expirable
  <2> HIDE DEF r, e, s
  <2> QED
    BY <1>0, <2>1, <2>2, <2>4, <2>5, <2>6, TouchDown
<1>5. CASE Uncount(c)
  <2> DEFINE s == lease[c].id
             r == [sessions[s] EXCEPT !.active = IF @ > 0 THEN @ - 1 ELSE 0]
  <2>1. lease[c].pc = "uncount" /\ s \in Ids /\ late' = late
    BY <1>5, DoneMoves DEF Uncount, LeaseSteps, IInv
  <2>2. Exists(s) /\ sessions[s] \in Session /\ sessions[s].active \in Nat \ {0}
    BY <2>1, CountedRecord DEF Counting
  <2>3. r \in Session /\ r.status = sessions[s].status
    BY <2>2 DEF Session
  <2>4. sessions' = [sessions EXCEPT ![s] = r] /\ Save(s, r, {})
    BY <1>5, <2>2 DEF Uncount, Put
  <2> HIDE DEF r, s
  <2> QED
    BY <1>0, <2>1, <2>2, <2>3, <2>4, TouchDown
<1> QED
  BY <1>1, <1>2, <1>3, <1>4, <1>5 DEF LeaseStep, LeaseProgress, CancelAtGlobal,
     CancelAtSession, AcquireGlobal, AcquireSession, Admit, DropSession, DropGlobal,
     Release, FreeSessionSlot, FreeGlobal, records

\* A startup makes its session active: at its beginning or at its end.
Starts(c) ==
  \/ proc[c].pc = "transition" /\ Transition(proc[c].id, "created", "starting")
  \/ proc[c].pc = "record" /\ MarkReady(proc[c].id)

\* What a step of the engine is for the manager.
LEMMA RecordStep ==
  ASSUME LabInv, [LabNext]_labVars
  PROVE  \/ UNCHANGED vars
         \/ \E s \in Ids : OtherCall(s) \/ DeadlinePasses(s)
         \/ \E s \in Ids, m \in Modes : CreateSession(s, m)
         \/ ListSessions
         \/ \E c \in Callers : LeaseStep(c)
         \/ \E c \in Callers : Starts(c)
         \/ ControllerDies
<1>1. \A p \in Procs : proc[p].pc \notin Resting => proc[p].id \in Ids
  BY DEF LabInv, EngineOK, IInv, TypeOK
<1>2. Callers \subseteq Procs
  BY DEF Procs
<1>3. ASSUME NEW c \in Callers, Request(c)
      PROVE  \/ UNCHANGED vars \/ ListSessions \/ LeaseStep(c)
             \/ \E s \in Ids : OtherCall(s)
             \/ \E s \in Ids, m \in Modes : CreateSession(s, m)
  BY <1>3 DEF Request, BeginStartup, BeginStop, BeginExec, TakeLease, Status, Create,
     ModeOf, Modes, OtherCall, LeaseStep, engine
<1>4. ASSUME NEW c \in Callers,
             \/ Restart(c) \/ Transit(c) \/ ComposeUp(c) \/ ComposeUpFails(c)
             \/ RecordReady(c) \/ CommandReturns(c)
      PROVE  \/ UNCHANGED vars \/ \E s \in Ids : OtherCall(s)
             \/ \E s \in Ids, m \in Modes : CreateSession(s, m)
             \/ Starts(c)
  BY <1>4 DEF Starts, Restart, Create, ModeOf, Modes, Transit, ComposeUp,
     BringUp, ComposeUpFails, RecordReady, Become, Goto, CommandReturns, OtherCall
<1>5. ASSUME NEW c \in Callers,
             \/ RollbackLookup(c) \/ RollbackDown(c) \/ RollbackVerify(c)
             \/ RollbackRemove(c) \/ RollbackFails(c)
      PROVE  UNCHANGED vars \/ \E s \in Ids : OtherCall(s)
  <2>1. proc[c].id \in Ids
    BY <1>1, <1>2, <1>5 DEF RollbackLookup, RollbackDown, RollbackVerify,
       RollbackRemove, RollbackFails, Become, Goto, Resting
  <2> QED
    BY <1>5, <2>1 DEF RollbackLookup, RollbackDown, RollbackVerify, RollbackRemove,
       RollbackFails, OtherCall
<1>6. ASSUME NEW c \in Callers,
             \/ ReadAgain(c) \/ WaitForLease(c) \/ LeaseDenied(c)
             \/ RunLeased(c) \/ CommandEnds(c) \/ ReleaseLease(c)
      PROVE  LeaseStep(c) \/ \E s \in Ids : OtherCall(s)
  <2>1. proc[c].pc \in {"again", "lease"} => proc[c].id \in Ids
    BY <1>1, <1>2 DEF Resting
  <2> QED
    BY <1>6, <2>1 DEF ReadAgain, TakeLease, WaitForLease, LeaseDenied, RunLeased,
       Goto, CommandEnds, ReleaseLease, LeaseStep, LeaseProgress, OtherCall
<1>7. ASSUME NEW p \in Procs, Cleanup(p)
      PROVE  UNCHANGED vars \/ \E s \in Ids : OtherCall(s)
  <2>1. proc[p].id \in Ids
    BY <1>1, <1>7 DEF Cleanup, Lookup, Inspect, InspectFails, Mark, Drain,
       DrainTimesOut, ComposeDown, ComposeDownFails, Verify, VerifyFails, Remove,
       Failed, Return, Become, Goto, Resting
  <2> QED
    BY <1>7, <2>1 DEF Cleanup, Lookup, Inspect, InspectFails, Mark, Drain,
       DrainTimesOut, ComposeDown, ComposeDownFails, Verify, VerifyFails, Remove,
       Failed, OtherCall
<1>8. Sweep \/ NextCandidate => UNCHANGED vars
  BY DEF Sweep, NextCandidate
<1>9. \A s \in Ids : Deadline(s) => DeadlinePasses(s)
  BY DEF Deadline
<1>10. UNCHANGED labVars => UNCHANGED vars
  BY DEF labVars
<1> QED
  BY <1>3, <1>4, <1>5, <1>6, <1>7, <1>8, <1>9, <1>10 DEF LabNext, Work

\* Which sessions the reaper may turn to, and which reports are made.
LEMMA ReaperTurns ==
  ASSUME LabInv, [LabNext]_labVars, ~ ControllerDies
  PROVE  /\ todo' \subseteq todo \cup StaleSessions
         /\ proc'[Reaper].id \in todo \cup {proc[Reaper].id, NoSession}
<1>0. proc \in [Procs -> ProcRecords] /\ Reaper \in Procs /\ Reaper \notin Callers
  BY EngineAssumption DEF Procs, LabInv, EngineOK
<1>1. ASSUME NEW c \in Callers, Request(c) \/ Work(c)
      PROVE  /\ todo' = todo
             /\ proc'[Reaper] = proc[Reaper]
  <2>1. CASE Request(c)
    BY <1>0, <2>1 DEF Request, BeginStartup, BeginStop, BeginExec, TakeLease, Status,
       Create, engine, Become
  <2>2. CASE Work(c)
    BY <1>0, <2>2 DEF Work, Restart, Create, engine, Transit, ComposeUp, BringUp,
       ComposeUpFails, RecordReady, Become, Goto, CommandReturns, RollbackLookup,
       RollbackDown, RollbackVerify, RollbackRemove, RollbackFails, ReadAgain,
       TakeLease, WaitForLease, LeaseDenied, RunLeased, CommandEnds, ReleaseLease
  <2> QED
    BY <1>1, <2>1, <2>2
<1>2. ASSUME NEW p \in Procs, Cleanup(p)
      PROVE  /\ todo' = todo
             /\ proc'[Reaper].id \in {proc[Reaper].id, NoSession}
  <2>1. todo' = todo
    BY <1>2 DEF Cleanup, Lookup, Inspect, InspectFails, Mark, Drain, DrainTimesOut,
       ComposeDown, ComposeDownFails, Verify, VerifyFails, Remove, Failed, Return
  <2>2. \A q \in Procs : q # p => proc'[q] = proc[q]
    BY <1>0, <1>2 DEF Cleanup, Lookup, Inspect, InspectFails, Mark, Drain,
       DrainTimesOut, ComposeDown, ComposeDownFails, Verify, VerifyFails, Remove,
       Failed, Return, Become, Goto
  <2>3. proc'[p].id \in {proc[p].id, NoSession}
    <3>1. \A b : AfterCleanup(p, b).id = NoSession
      BY DEF AfterCleanup, Unoccupied
    <3>2. CASE \E from, b : Return(p, from, b)
      BY <1>0, <3>1, <3>2 DEF Return, Become
    <3>3. CASE \E from, to : Goto(p, from, to)
      BY <1>0, <3>3 DEF Goto, ProcRecords
    <3>4. CASE proc' = [proc EXCEPT ![p].pc = "inspect",
                                    ![p].snap = sessions[proc[p].id].snap]
      <4>1. proc'[p] = [proc[p] EXCEPT !.pc = "inspect",
                                       !.snap = sessions[proc[p].id].snap]
        BY <1>0, <3>4
      <4> QED
        BY <1>0, <4>1 DEF ProcRecords
    <3> QED
      BY <1>2, <3>2, <3>3, <3>4 DEF Cleanup, Lookup, Inspect, InspectFails, Mark,
         Drain, DrainTimesOut, ComposeDown, ComposeDownFails, Verify, VerifyFails,
         Remove, Failed
  <2> QED
    BY <1>0, <2>1, <2>2, <2>3
<1>3. Sweep \/ (\E s \in Ids : Deadline(s)) \/ UNCHANGED labVars
        => UNCHANGED proc /\ todo' \subseteq todo \cup StaleSessions
  BY DEF Sweep, Deadline, engine, labVars
<1>4. NextCandidate => todo' \subseteq todo /\ proc'[Reaper].id \in todo
  BY <1>0 DEF NextCandidate, Become
<1> QED
  BY <1>1, <1>2, <1>3, <1>4 DEF LabNext

\* Neither the reaper nor its list has a session that is alive and in time.
SparesHealthy ==
  /\ \A s \in todo : ~ Healthy(s)
  /\ proc[Reaper].id # NoSession => ~ Healthy(proc[Reaper].id)

\* A candidate of a sweep never becomes healthy again, since only a startup
\* makes a session ready and a startup has its session to itself.
LEMMA StepSpares ==
  ASSUME LabInv, Owned, SparesHealthy, [LabNext]_labVars
  PROVE  SparesHealthy'
<1>0. /\ Reaper \in Procs \ Callers /\ todo \subseteq issued /\ issued \subseteq Ids
      /\ proc[Reaper].id \in issued \cup {NoSession} /\ IInv
  BY EngineAssumption DEF Procs, LabInv, EngineOK, IInv, TypeOK
<1>1. CASE ControllerDies
  <2>1. todo' = {} /\ proc'[Reaper].id = NoSession
    BY <1>0, <1>1 DEF ControllerDies, Unoccupied
  <2> QED
    BY <2>1 DEF SparesHealthy
<1>2. CASE ~ ControllerDies
  <2> DEFINE turned == todo \cup StaleSessions \cup ({proc[Reaper].id} \ {NoSession})
  <2>1. turned \subseteq issued
    BY <1>0 DEF StaleSessions, IInv, Provenance
  <2>2. \A x \in turned : ~ Healthy(x)
    BY DEF SparesHealthy, StaleSessions, Healthy, Retryable, Expirable
  <2>3. \A x \in turned : ~ Healthy(x)'
    <3> SUFFICES ASSUME NEW x \in turned
                 PROVE  ~ Healthy(x)'
      OBVIOUS
    <3>1. x \in issued /\ ~ Healthy(x)
      BY <2>1, <2>2
    <3>2. CASE UNCHANGED vars
      BY <3>1, <3>2 DEF vars, Healthy, Exists
    <3>3. CASE \E s \in Ids : DeadlinePasses(s)
      BY <3>1, <3>3 DEF DeadlinePasses, records, Healthy, Exists
    <3>4. CASE \/ \E s \in Ids : OtherCall(s)
               \/ ListSessions
               \/ \E c \in Callers : LeaseStep(c)
      BY <1>0, <3>1, <3>4, OtherDown, ListDown, LeasesDown DEF Down, Unrevived
    <3>6. CASE \E s \in Ids, m \in Modes : CreateSession(s, m)
      BY <1>0, <3>1, <3>6, CreateDown DEF Down, Unrevived
    <3>5. CASE \E c \in Callers : Starts(c)
      <4>1. PICK c \in Callers : Starts(c)
        BY <3>5
      <4>2. Owns(c)
        BY <4>1 DEF Starts, Owned, StartupsOwned, StartupSteps
      <4>3. x # proc[c].id
        BY <1>0, <4>2 DEF Owns, Alone, StaleSessions
      <4>4. proc[c].id \in Ids
        BY <4>1, StartupOn DEF Starts, StartupSteps
      <4> QED
        BY <1>0, <3>1, <4>1, <4>3, <4>4, ReadyDown, TransitDown
           DEF Starts, Down, Unrevived
    <3> QED
      BY <1>2, <3>2, <3>3, <3>4, <3>5, <3>6, RecordStep
  <2>4. todo' \subseteq turned /\ proc'[Reaper].id \in turned \cup {NoSession}
    BY <1>2, ReaperTurns
  <2> HIDE DEF turned
  <2> QED
    BY <2>3, <2>4 DEF SparesHealthy
<1> QED
  BY <1>1, <1>2

\* The reaper works from a list it made earlier and reads nothing again, yet it
\* never works on a session that is healthy and within its deadline.
THEOREM ReaperSpares ==
  ASSUME TTLCoversWork
  PROVE  LabSpec => []ReaperSparesHealthy
<1>1. LabInit => SparesHealthy
  BY DEF LabInit, SparesHealthy, Unoccupied, Procs
<1>2. LabInv /\ Owned /\ SparesHealthy /\ [LabNext]_labVars => SparesHealthy'
  BY StepSpares
<1>3. SparesHealthy => ReaperSparesHealthy
  BY NamesAssumption DEF SparesHealthy, ReaperSparesHealthy, Healthy
<1> QED
  BY <1>1, <1>2, <1>3, EngineInvariance, StartupsAlone, PTL DEF LabSpec

-----------------------------------------------------------------------------
\* No goroutine serves an HTTP request that made its own sandbox.
NoHTTP == \A p \in Procs : proc[p].op \notin {"http", "answered"}

\* Nothing but a request for it starts such an HTTP request.
LEMMA StepNoHTTP ==
  ASSUME LabInv, NoHTTP, "http" \notin Ops, [LabNext]_labVars
  PROVE  NoHTTP'
<1> DEFINE other == ProcOps \ {"http", "answered"}
<1>0. /\ proc \in [Procs -> ProcRecords] /\ Callers \subseteq Procs /\ Reaper \in Procs
      /\ \A p \in Procs : proc[p].op \in other
      /\ Ops \ {"http"} = Ops
  BY DEF LabInv, EngineOK, ProcRecords, NoHTTP, Procs
<1>1. ASSUME NEW p \in Procs,
             \/ UNCHANGED proc
             \/ \E r : proc' = [proc EXCEPT ![p] = r] /\ r.op \notin {"http", "answered"}
             \/ \E from, to : Goto(p, from, to)
      PROVE  NoHTTP'
  BY <1>0, <1>1 DEF NoHTTP, Goto, ProcRecords
<1>2. ASSUME NEW c \in Callers, Request(c)
      PROVE  NoHTTP'
  <2>1. \A x, pc : \A op \in Ops \cup {"exec", "read", "stat"} :
           [op |-> op, pc |-> pc, id |-> x, snap |-> FALSE].op \notin {"http", "answered"}
    BY EngineAssumption DEF OpNames
  <2>2. Unoccupied.op \notin {"http", "answered"}
    BY DEF Unoccupied
  <2> QED
    BY <1>0, <1>1, <1>2, <2>1, <2>2 DEF Request, BeginStartup, BeginStop, BeginExec,
       TakeLease, Status, Create, Become, engine
<1>3. ASSUME NEW c \in Callers, Work(c)
      PROVE  NoHTTP'
  <2>1. /\ Unoccupied.op = "none"
        /\ \A x, op, pc : [op |-> op, pc |-> pc, id |-> x, snap |-> FALSE].op = op
    BY DEF Unoccupied
  <2>2. AfterRollback(c).op \notin {"http", "answered"}
        /\ Erred(c).op \notin {"http", "answered"}
    BY <1>0, <2>1 DEF AfterRollback, Erred, ProcRecords
  <2>3. proc[c].op \notin {"http", "answered"}
    BY <1>0
  <2>4. \/ UNCHANGED proc
        \/ \E r : proc' = [proc EXCEPT ![c] = r] /\ r.op \notin {"http", "answered"}
        \/ \E from, to : Goto(c, from, to)
    <3>1. CASE Restart(c) \/ ReadAgain(c)
      BY <2>1, <3>1 DEF Restart, ReadAgain, TakeLease, Create, Become
    <3>2. CASE \/ Transit(c) \/ ComposeUp(c) \/ RecordReady(c) \/ CommandReturns(c)
      BY <2>1, <2>3, <3>2 DEF Transit, ComposeUp, BringUp, RecordReady,
         CommandReturns, Become
    <3>3. CASE ComposeUpFails(c)
      BY <3>3 DEF ComposeUpFails, Goto
    <3>4. CASE \/ RollbackLookup(c) \/ RollbackDown(c) \/ RollbackVerify(c)
               \/ RollbackRemove(c) \/ RollbackFails(c)
      BY <2>2, <3>4 DEF RollbackLookup, RollbackDown, RollbackVerify, RollbackRemove,
         RollbackFails, Become
    <3>5. CASE \/ WaitForLease(c) \/ LeaseDenied(c) \/ RunLeased(c) \/ CommandEnds(c)
               \/ ReleaseLease(c)
      BY <2>1, <2>2, <3>5 DEF WaitForLease, LeaseDenied, RunLeased, CommandEnds,
         ReleaseLease, Become, engine
    <3> QED
      BY <1>3, <3>1, <3>2, <3>3, <3>4, <3>5 DEF Work
  <2> QED
    BY <1>0, <1>1, <2>4
<1>4. ASSUME NEW p \in Procs, Cleanup(p)
      PROVE  NoHTTP'
  <2>1. \A b : AfterCleanup(p, b).op \in {"none", "reset"}
    BY DEF AfterCleanup, Unoccupied
  <2>2. CASE \E from, b : Return(p, from, b)
    BY <1>1, <2>1, <2>2 DEF Return, Become
  <2>3. CASE \E from, to : Goto(p, from, to)
    BY <1>1, <2>3
  <2>4. CASE proc' = [proc EXCEPT ![p].pc = "inspect",
                                  ![p].snap = sessions[proc[p].id].snap]
    <3> DEFINE r == [proc[p] EXCEPT !.pc = "inspect",
    !.snap = sessions[proc[p].id].snap]
    <3>1. proc' = [proc EXCEPT ![p] = r]
      BY <1>0, <2>4
    <3>2. r.op = proc[p].op
      BY <1>0 DEF ProcRecords
    <3> HIDE DEF r
    <3> QED
      BY <1>0, <1>1, <3>1, <3>2
  <2> QED
    BY <1>4, <2>2, <2>3, <2>4 DEF Cleanup, Lookup, Inspect, InspectFails, Mark,
       Drain, DrainTimesOut, ComposeDown, ComposeDownFails, Verify, VerifyFails,
       Remove, Failed
<1>5. CASE Sweep \/ (\E s \in Ids : Deadline(s)) \/ UNCHANGED labVars
  BY <1>0, <1>1, <1>5 DEF Sweep, Deadline, engine, labVars
<1>6. CASE NextCandidate
  BY <1>0, <1>1, <1>6 DEF NextCandidate, Become
<1>7. CASE ControllerDies
  BY <1>7 DEF ControllerDies, Unoccupied, NoHTTP
<1> QED
  BY <1>2, <1>3, <1>4, <1>5, <1>6, <1>7 DEF LabNext

\* What is gone stays gone: nothing brings its resources back.
LEMMA GoneStays ==
  ASSUME LabInv, Owned, [LabNext]_labVars, NEW x \in issued,
         Gone(x), present[x] = {}
  PROVE  Gone(x)' /\ present'[x] = {}
<1>0. x \in Ids /\ IInv /\ present \in [Ids -> SUBSET Kinds]
  BY StartupOn DEF LabInv
<1>1. Gone(x)'
  <2>1. CASE UNCHANGED vars \/ ControllerDies \/ (\E s \in Ids : DeadlinePasses(s))
    BY <2>1 DEF vars, ControllerDies, Crash, DeadlinePasses, records, Gone, Exists
  <2>2. CASE \/ \E s \in Ids : OtherCall(s)
             \/ ListSessions
             \/ \E c \in Callers : LeaseStep(c)
    BY <1>0, <2>2, OtherDown, ListDown, LeasesDown DEF Down, Unrevived
  <2>4. CASE \E s \in Ids, m \in Modes : CreateSession(s, m)
    BY <1>0, <2>4, CreateDown DEF Down, Unrevived
  <2>3. CASE \E c \in Callers : Starts(c)
    BY <1>0, <2>3, StartupOn, ReadyDown, TransitDown
       DEF Starts, StartupSteps, Procs, Unrevived
  <2> QED
    BY <2>1, <2>2, <2>3, <2>4, RecordStep
<1>2. \A c \in Callers : proc[c].pc \in StartupSteps => proc[c].id # x
  BY DEF Owned, StartupsOwned, Owns, Gone
<1>3. ASSUME NEW c \in Callers, Request(c)
      PROVE  present' = present
  BY <1>3 DEF Request, BeginStartup, BeginStop, BeginExec, Status, Create, engine
<1>4. ASSUME NEW c \in Callers, Work(c)
      PROVE  present'[x] = {}
  <2>1. CASE ComposeUp(c)
    BY <1>0, <1>2, <2>1 DEF ComposeUp, BringUp, Goto, StartupSteps
  <2>2. CASE RollbackDown(c)
    BY <1>0, <2>2 DEF RollbackDown
  <2>3. CASE ~ ComposeUp(c) /\ ~ RollbackDown(c)
    BY <1>4, <2>3 DEF Work, Restart, Create, Transit, ComposeUpFails, RecordReady,
       CommandReturns, RollbackLookup, RollbackVerify, RollbackRemove, RollbackFails,
       ReadAgain, WaitForLease, LeaseDenied, RunLeased, CommandEnds, ReleaseLease,
       engine
  <2> QED
    BY <2>1, <2>2, <2>3
<1>5. ASSUME NEW p \in Procs, Cleanup(p)
      PROVE  present'[x] = {}
  BY <1>0, <1>5 DEF Cleanup, Lookup, Inspect, InspectFails, Mark, Drain,
     DrainTimesOut, ComposeDown, ComposeDownFails, Verify, VerifyFails, Remove,
     Failed, Return
<1>6. CASE Sweep \/ NextCandidate \/ (\E s \in Ids : Deadline(s)) \/ UNCHANGED labVars
  BY <1>1, <1>6 DEF Sweep, NextCandidate, Deadline, engine, labVars
<1>7. CASE ControllerDies
  BY <1>0, <1>1, <1>2, <1>7 DEF ControllerDies, StartupSteps
<1> QED
  BY <1>1, <1>3, <1>4, <1>5, <1>6, <1>7 DEF LabNext

\* A new claim is about a session whose cleanup came to its end.
LEMMA NewClaims ==
  ASSUME LabInv, NoHTTP, [LabNext]_labVars, NEW x \in claims', x \notin claims
  PROVE  \E p \in Procs : /\ x = proc[p].id /\ proc[p].pc = "remove"
                          /\ IF Exists(x) THEN RemoveSession(x) ELSE UNCHANGED vars
                          /\ present' = present
<1>1. \A c \in Callers : Request(c) => claims' = claims
  BY DEF Request, BeginStartup, BeginStop, BeginExec, Status, Create, engine
<1>2. \A c \in Callers : Work(c) => claims' = claims
  BY DEF Work, Restart, Create, Transit, ComposeUp, BringUp, ComposeUpFails,
     RecordReady, CommandReturns, RollbackLookup, RollbackDown, RollbackVerify,
     RollbackRemove, RollbackFails, ReadAgain, WaitForLease, LeaseDenied, RunLeased,
     CommandEnds, ReleaseLease, engine
<1>3. Sweep \/ NextCandidate \/ (\E s \in Ids : Deadline(s)) \/ ControllerDies
        \/ UNCHANGED labVars => claims' = claims
  BY DEF Sweep, NextCandidate, Deadline, ControllerDies, engine, labVars
<1>4. PICK p \in Procs : Cleanup(p)
  BY <1>1, <1>2, <1>3 DEF LabNext
<1>5. /\ Return(p, "remove", TRUE)
      /\ IF Exists(proc[p].id) THEN RemoveSession(proc[p].id) ELSE UNCHANGED vars
  <2>1. \A from : ~ Return(p, from, FALSE)
    BY DEF Return, Report, NoHTTP
  <2> QED
    BY <1>4, <2>1 DEF Cleanup, Lookup, Inspect, InspectFails, Mark, Drain,
       DrainTimesOut, ComposeDown, ComposeDownFails, Verify, VerifyFails, Remove,
       Failed
<1> QED
  BY <1>5 DEF Return, Report, Become

\* A report of a full removal is made true by Remove and stays true.
LEMMA StepClaims ==
  ASSUME LabInv, Owned, NoHTTP, ClaimsAreTrue, [LabNext]_labVars
  PROVE  ClaimsAreTrue'
<1> SUFFICES ASSUME NEW x \in claims'
             PROVE  Gone(x)' /\ present'[x] = {}
  BY DEF ClaimsAreTrue, Gone, Exists
<1>1. CASE x \in claims
  <2>1. x \in issued /\ Gone(x) /\ present[x] = {}
    BY <1>1 DEF LabInv, EngineOK, ClaimsAreTrue, Gone
  <2> QED
    BY <2>1, GoneStays
<1>2. CASE x \notin claims
  <2>1. PICK p \in Procs : /\ x = proc[p].id /\ proc[p].pc = "remove"
                           /\ IF Exists(x) THEN RemoveSession(x) ELSE UNCHANGED vars
                           /\ present' = present
    BY <1>2, NewClaims
  <2>2. present[x] = {}
    BY <2>1 DEF Owned, GoneBeforeRecord, Removing
  <2>3. x \in Ids
    BY <2>1, StartupOn DEF Removing
  <2>4. Gone(x)'
    BY <2>1, <2>3 DEF RemoveSession, Gone, Exists, vars, LabInv, IInv, TypeOK,
       NoResurrection
  <2> QED
    BY <2>1, <2>2, <2>4
<1> QED
  BY <1>1, <1>2

\* With no ephemeral HTTP requests, whose report ignores the cleanup's result
\* (engine.go:1046), a caller that was told that runner, network, volume and
\* state are removed was told the truth, for ever.
THEOREM ReportsTrue ==
  ASSUME TTLCoversWork, "http" \notin Ops
  PROVE  LabSpec => []ClaimsAreTrue
<1>1. LabInit => NoHTTP /\ ClaimsAreTrue
  BY DEF LabInit, NoHTTP, ClaimsAreTrue, Unoccupied
<1>2. LabInv /\ Owned /\ NoHTTP /\ ClaimsAreTrue /\ [LabNext]_labVars
        => NoHTTP' /\ ClaimsAreTrue'
  BY StepNoHTTP, StepClaims
<1> QED
  BY <1>1, <1>2, EngineInvariance, StartupsAlone, PTL DEF LabSpec

-----------------------------------------------------------------------------
(* LabEngine implements SandboxLifecycle.                                  *)

\* No record appears or disappears, and no identifier is given out.
SameRecords == issued' = issued /\ \A x \in Ids : Exists(x)' <=> Exists(x)

\* A record that is neither taken away nor brought back.
LEMMA SameRecord ==
  ASSUME IInv, NEW x \in Ids, Undisturbed(x), Gone(x) => Gone(x)'
  PROVE  Exists(x)' <=> Exists(x)
BY DEF Undisturbed, Gone, IInv, NoResurrection

\* Most methods of the manager change what is in a record only.
LEMMA CallsSame ==
  ASSUME IInv, NEW s \in Ids,
         \/ GetSession(s) \/ Transition(s, "created", "starting") \/ MarkReady(s)
         \/ RecordCleanupFailure(s) \/ BeginStopping(s) \/ RemoveFails(s)
         \/ DeadlinePasses(s)
  PROVE  SameRecords
<1>1. issued' = issued
  BY DEF GetSession, Transition, MarkReady, RecordCleanupFailure, BeginStopping, Touch,
     RemoveFails, DeadlinePasses
<1>2. CASE RemoveFails(s) \/ DeadlinePasses(s)
  BY <1>1, <1>2 DEF RemoveFails, DeadlinePasses, records, SameRecords, Exists
<1>3. CASE RecordCleanupFailure(s)
  <2> DEFINE r == [sessions[s] EXCEPT !.status = "cleanup-failed"]
  <2>1. Exists(s) /\ sessions[s] \in Session /\ sessions' = [sessions EXCEPT ![s] = r]
    BY <1>3 DEF RecordCleanupFailure, Touch, Put, IInv, TypeOK, Exists
  <2>2. r \in Session
    BY <2>1 DEF Session, Statuses
  <2> HIDE DEF r
  <2> QED
    BY <1>1, <2>1, <2>2, NamesAssumption DEF SameRecords, Exists, IInv, TypeOK
<1>4. CASE \/ GetSession(s) \/ Transition(s, "created", "starting") \/ MarkReady(s)
           \/ BeginStopping(s)
  <2>1. \A x \in Ids : Undisturbed(x)
    BY <1>4, GentleCalls
  <2>2. \A x \in Ids : Gone(x) => Gone(x)'
    BY <1>4, OtherDown, TransitDown, ReadyDown DEF OtherCall, Down, Unrevived
  <2> QED
    BY <1>1, <2>1, <2>2, SameRecord DEF SameRecords
<1> QED
  BY <1>2, <1>3, <1>4

\* So do Status and the protocol of leases.
LEMMA OthersSame ==
  ASSUME IInv, ListSessions \/ \E c \in Callers : LeaseStep(c)
  PROVE  SameRecords
<1>1. issued' = issued
  BY DEF ListSessions, LeaseStep, LeaseProgress, Reserve, RefuseReservation, GetSession,
     CancelAtGlobal, CancelAtSession, AcquireGlobal, AcquireSession, Admit, Refuse,
     DropSession, DropGlobal, Release, FreeSessionSlot, FreeGlobal, Uncount
<1>2. \A x \in Ids : Undisturbed(x)
  BY ListUndisturbed, LeasesUndisturbed
<1>3. \A x \in Ids : Gone(x) => Gone(x)'
  BY ListDown, LeasesDown DEF Down, Unrevived
<1> QED
  BY <1>1, <1>2, <1>3, SameRecord DEF SameRecords

\* What a step of the engine does to the set of records.
LEMMA RecordsChange ==
  ASSUME LabInv, [LabNext]_labVars
  PROVE  \/ SameRecords
         \/ /\ \E s \in Ids : CreateFails(s) \/ \E m \in Modes : CreateSession(s, m)
            /\ present' = present
         \/ /\ \E p \in Procs : proc[p].pc \in Removing /\ RemoveSession(proc[p].id)
            /\ present' = present
         \/ ControllerDies
<1>0. /\ IInv /\ Callers \subseteq Procs
      /\ \A p \in Procs : proc[p].pc \notin Resting => proc[p].id \in Ids
  BY StartupOn DEF LabInv, EngineOK, IInv, TypeOK
<1>a. UNCHANGED vars => SameRecords
  BY DEF vars, SameRecords, Exists
<1>1. ASSUME NEW c \in Callers, Request(c)
      PROVE  \/ SameRecords
             \/ /\ \E s \in Ids : CreateFails(s) \/ \E m \in Modes : CreateSession(s, m)
                /\ present' = present
  <2>1. CASE \E s \in Ids, op \in Ops : BeginStartup(c, op, s)
    BY <2>1 DEF BeginStartup, Create, ModeOf, Modes, engine
  <2>2. CASE \E s \in Ids, op \in Ops : BeginStop(c, op, s)
    BY <1>0, <1>a, <2>2, CallsSame DEF BeginStop
  <2>3. CASE \E s \in Ids : BeginExec(c, s)
    BY <1>0, <2>3, OthersSame DEF BeginExec, TakeLease, LeaseStep
  <2>4. CASE Status(c)
    BY <1>0, <2>4, CallsSame, OthersSame DEF Status
  <2> QED
    BY <1>1, <2>1, <2>2, <2>3, <2>4 DEF Request
<1>2. ASSUME NEW c \in Callers,
             \/ Restart(c) \/ Transit(c) \/ ComposeUp(c) \/ ComposeUpFails(c)
             \/ RecordReady(c) \/ CommandReturns(c)
      PROVE  \/ SameRecords
             \/ /\ \E s \in Ids : CreateFails(s) \/ \E m \in Modes : CreateSession(s, m)
                /\ present' = present
  <2>1. proc[c].pc \in {"transition", "record"} => proc[c].id \in Ids
    BY <1>0 DEF Resting
  <2>2. CASE Restart(c)
    BY <1>a, <2>2 DEF Restart, Create, ModeOf, Modes
  <2>3. CASE Transit(c) \/ RecordReady(c)
    BY <1>0, <1>a, <2>1, <2>3, CallsSame DEF Transit, RecordReady, Goto, Become
  <2>4. CASE ComposeUp(c) \/ ComposeUpFails(c) \/ CommandReturns(c)
    BY <1>a, <2>4 DEF ComposeUp, BringUp, ComposeUpFails, CommandReturns
  <2> QED
    BY <1>2, <2>2, <2>3, <2>4
<1>3. ASSUME NEW c \in Callers,
             \/ RollbackLookup(c) \/ RollbackDown(c) \/ RollbackVerify(c)
             \/ RollbackRemove(c) \/ RollbackFails(c)
      PROVE  \/ SameRecords
             \/ /\ proc[c].pc \in Removing /\ RemoveSession(proc[c].id)
                /\ present' = present
  <2>1. proc[c].id \in Ids
    BY <1>0, <1>3 DEF RollbackLookup, RollbackDown, RollbackVerify, RollbackRemove,
       RollbackFails, Become, Goto, Resting
  <2> QED
    BY <1>0, <1>a, <1>3, <2>1, CallsSame DEF RollbackLookup, RollbackDown,
       RollbackVerify, RollbackRemove, RollbackFails, Become, Removing
<1>4. ASSUME NEW c \in Callers,
             \/ ReadAgain(c) \/ WaitForLease(c) \/ LeaseDenied(c)
             \/ RunLeased(c) \/ CommandEnds(c) \/ ReleaseLease(c)
      PROVE  SameRecords
  <2>1. proc[c].pc \in {"again", "lease"} => proc[c].id \in Ids
    BY <1>0 DEF Resting
  <2> QED
    BY <1>0, <1>4, <2>1, CallsSame, OthersSame DEF ReadAgain, TakeLease, WaitForLease,
       LeaseDenied, RunLeased, Goto, CommandEnds, ReleaseLease, LeaseStep, LeaseProgress
<1>5. ASSUME NEW p \in Procs, Cleanup(p)
      PROVE  \/ SameRecords
             \/ /\ proc[p].pc \in Removing /\ RemoveSession(proc[p].id)
                /\ present' = present
  <2>1. proc[p].id \in Ids
    BY <1>0, <1>5 DEF Cleanup, Lookup, Inspect, InspectFails, Mark, Drain,
       DrainTimesOut, ComposeDown, ComposeDownFails, Verify, VerifyFails, Remove,
       Failed, Return, Become, Goto, Resting
  <2> QED
    BY <1>0, <1>a, <1>5, <2>1, CallsSame DEF Cleanup, Lookup, Inspect, InspectFails,
       Mark, Drain, DrainTimesOut, ComposeDown, ComposeDownFails, Verify, VerifyFails,
       Remove, Failed, Return, Become, Removing
<1>6. Sweep \/ NextCandidate \/ UNCHANGED labVars => SameRecords
  BY <1>a DEF Sweep, NextCandidate, labVars
<1>7. (\E s \in Ids : Deadline(s)) => SameRecords
  BY <1>0, CallsSame DEF Deadline
<1> QED
  BY <1>0, <1>1, <1>2, <1>3, <1>4, <1>5, <1>6, <1>7 DEF LabNext, Work

\* What it does to the resources: it makes one, for a session that has a record, or
\* removes some of one session.
LEMMA ResourcesChange ==
  ASSUME LabInv, Owned, [LabNext]_labVars, ~ ControllerDies
  PROVE  \/ present' = present
         \/ /\ SameRecords
            /\ \E s \in Ids :
                 \/ /\ Exists(s)
                    /\ \E k \in Kinds : present' = [present EXCEPT ![s] = @ \cup {k}]
                 \/ \E left \in SUBSET present[s] :
                      present' = [present EXCEPT ![s] = left]
<1>0. IInv /\ Callers \subseteq Procs /\ present \in [Ids -> SUBSET Kinds]
      /\ \A p \in Procs : proc[p].pc \notin Resting => proc[p].id \in Ids
  BY StartupOn DEF LabInv, EngineOK, IInv, TypeOK
<1>a. UNCHANGED vars => SameRecords
  BY DEF vars, SameRecords, Exists
<1>1. CASE \E c \in Callers : ComposeUp(c)
  <2>1. PICK c \in Callers : ComposeUp(c)
    BY <1>1
  <2>2. proc[c].pc \in StartupSteps /\ UNCHANGED vars
    BY <2>1 DEF ComposeUp, BringUp, Goto, StartupSteps
  <2>3. proc[c].id \in Ids /\ Exists(proc[c].id)
    BY <2>2, StartupOn DEF Owned, StartupsOwned, Owns
  <2>4. \/ present' = present
        \/ \E k \in Kinds : present' = [present EXCEPT ![proc[c].id] = @ \cup {k}]
    BY <2>1 DEF ComposeUp, BringUp, Kinds
  <2> QED
    BY <1>a, <2>2, <2>3, <2>4
<1>2. CASE \E c \in Callers : RollbackDown(c)
  <2>1. PICK c \in Callers : RollbackDown(c)
    BY <1>2
  <2>2. proc[c].id \in Ids
    BY <1>0, <2>1 DEF RollbackDown, Goto, Resting
  <2> QED
    BY <1>a, <2>1, <2>2 DEF RollbackDown
<1>3. CASE \E p \in Procs : ComposeDown(p) \/ ComposeDownFails(p)
  <2>1. PICK p \in Procs : ComposeDown(p) \/ ComposeDownFails(p)
    BY <1>3
  <2>2. proc[p].id \in Ids /\ UNCHANGED vars
    BY <1>0, <2>1 DEF ComposeDown, ComposeDownFails, Goto, Resting
  <2>3. \E left \in SUBSET present[proc[p].id] :
          present' = [present EXCEPT ![proc[p].id] = left]
    BY <2>1 DEF ComposeDown, ComposeDownFails
  <2> QED
    BY <1>a, <2>2, <2>3
<1>4. ASSUME NEW c \in Callers, Request(c) \/ Work(c), ~ ComposeUp(c), ~ RollbackDown(c)
      PROVE  present' = present
  BY <1>4 DEF Request, BeginStartup, BeginStop, BeginExec, Status, Work, Restart,
     Create, Transit, ComposeUpFails, RecordReady, CommandReturns, RollbackLookup,
     RollbackVerify, RollbackRemove, RollbackFails, ReadAgain, WaitForLease,
     LeaseDenied, RunLeased, CommandEnds, ReleaseLease, engine
<1>5. ASSUME NEW p \in Procs, Cleanup(p), ~ ComposeDown(p), ~ ComposeDownFails(p)
      PROVE  present' = present
  BY <1>5 DEF Cleanup, Lookup, Inspect, InspectFails, Mark, Drain, DrainTimesOut,
     Verify, VerifyFails, Remove, Failed, Return
<1>6. Sweep \/ NextCandidate \/ (\E s \in Ids : Deadline(s)) \/ UNCHANGED labVars
        => present' = present
  BY DEF Sweep, NextCandidate, Deadline, engine, labVars
<1> QED
  BY <1>1, <1>2, <1>3, <1>4, <1>5, <1>6 DEF LabNext

\* Every step of the controller is one step of SandboxLifecycle, or none.
LEMMA LifecycleStep ==
  ASSUME LabInv, Owned, Owned', [LabNext]_labVars
  PROVE  [Lifecycle!Next]_Lifecycle!vars
<1> DEFINE known == {s \in Ids : Exists(s)}
<1>0. /\ IInv /\ TypeOK /\ present \in [Ids -> SUBSET Kinds]
      /\ present' \in [Ids -> SUBSET Kinds]
  BY StepSound DEF Sound, LabInv, EngineOK, IInv
<1>1. CASE SameRecords /\ present' = present
  <2>1. known' = known
    BY <1>1 DEF SameRecords
  <2> QED
    BY <1>1, <2>1 DEF SameRecords, Lifecycle!vars
<1>2. CASE SameRecords /\ present' # present /\ ~ ControllerDies
  <2>1. known' = known /\ issued' = issued
    BY <1>2 DEF SameRecords
  <2>2. PICK s \in Ids :
          \/ /\ Exists(s)
             /\ \E k \in Kinds : present' = [present EXCEPT ![s] = @ \cup {k}]
          \/ \E left \in SUBSET present[s] : present' = [present EXCEPT ![s] = left]
    BY <1>2, ResourcesChange
  <2>3. (\E k \in Kinds : Lifecycle!Build(s, k)) \/ Lifecycle!Dismantle(s)
    BY <2>1, <2>2 DEF Lifecycle!Build, Lifecycle!Dismantle
  <2> QED
    BY <2>3 DEF Lifecycle!Next
<1>3. ASSUME NEW s \in Ids, CreateFails(s) \/ \E m \in Modes : CreateSession(s, m),
             present' = present
      PROVE  Lifecycle!Next
  <2>1. s \notin issued /\ issued' = issued \cup {s}
    BY <1>3 DEF CreateFails, CreateSession
  <2>2. known' \in {known, known \cup {s}}
    <3>1. CASE CreateFails(s)
      BY <3>1 DEF CreateFails, records, Exists
    <3>2. CASE \E m \in Modes : CreateSession(s, m)
      <4>1. PICK m \in Modes : sessions' = [sessions EXCEPT ![s] = Fresh(m)]
        BY <3>2 DEF CreateSession
      <4>2. Fresh(m) # NoSession
        <5>1. Fresh(m) \in Session
          BY DEF Fresh, Session, Statuses
        <5> QED
          BY <5>1, NamesAssumption
      <4>3. \A x \in Ids : Exists(x)' <=> Exists(x) \/ x = s
        BY <1>0, <4>1, <4>2 DEF Exists, TypeOK
      <4> QED
        BY <4>3
    <3> QED
      BY <1>3, <3>1, <3>2
  <2>3. Lifecycle!Begin(s)
    BY <1>3, <2>1, <2>2 DEF Lifecycle!Begin
  <2> QED
    BY <2>3 DEF Lifecycle!Next
<1>4. ASSUME NEW p \in Procs, proc[p].pc \in Removing, RemoveSession(proc[p].id),
             present' = present
      PROVE  Lifecycle!Next
  <2> DEFINE s == proc[p].id
  <2>1. s \in Ids /\ present[s] = {}
    BY <1>4, StartupOn DEF Owned, GoneBeforeRecord
  <2>2. known' = known \ {s} /\ issued' = issued
    BY <1>0, <1>4, <2>1 DEF RemoveSession, Exists, TypeOK
  <2>3. Lifecycle!Forget(s)
    BY <1>4, <2>1, <2>2 DEF Lifecycle!Forget
  <2> QED
    BY <2>1, <2>3 DEF Lifecycle!Next
<1>5. CASE ControllerDies
  <2>1. issued' = issued /\ sessions' = saved /\ saved' = saved
    BY <1>5 DEF ControllerDies, Crash
  <2>2. known' \subseteq known
    BY <1>0, <2>1 DEF IInv, NoResurrection, Exists
  <2>3. \A s \in Ids : present'[s] = present[s] \/ present'[s] = Kinds
    BY <1>5 DEF ControllerDies
  <2>4. \A s \in Ids : present'[s] # {} => s \in known'
    BY <2>1 DEF Owned, RecordOutlivesResources, Exists
  <2>5. Lifecycle!Restart
    BY <1>0, <2>1, <2>2, <2>3, <2>4 DEF Lifecycle!Restart
  <2> QED
    BY <2>5 DEF Lifecycle!Next
<1> QED
  BY <1>1, <1>2, <1>3, <1>4, <1>5, RecordsChange

\* internal/lab keeps its promise about what it makes in Docker, with any number of
\* clients, sessions, failed calls and writes, and restarts: resources are made for
\* a session with a record only, the record goes when they are all gone, and no
\* session comes back.
THEOREM LifecycleImplemented ==
  ASSUME TTLCoversWork
  PROVE  LabSpec => ImplementsLifecycle
<1>1. LabInit => Lifecycle!Init
  BY DEF LabInit, Init, Exists, Lifecycle!Init
<1>2. LabInv /\ Owned /\ Owned' /\ [LabNext]_labVars => [Lifecycle!Next]_Lifecycle!vars
  BY LifecycleStep
<1> QED
  BY <1>1, <1>2, EngineInvariance, StartupsAlone, PTL
     DEF LabSpec, ImplementsLifecycle, Lifecycle!Spec
=============================================================================
