---------------------- MODULE SessionManagerRefinement ----------------------
(***************************************************************************)
(* SessionManager implements ExecLeases for every set of identifiers and   *)
(* goroutines and every limit.  Each step maps to one step of ExecLeases   *)
(* or to none; the invariant says why the guards of that step hold: the    *)
(* two channels bound the commands that run, an exact count keeps a record *)
(* in place under them, and the disk brings nothing back.                  *)
(***************************************************************************)
EXTENDS SessionManagerProofs

\* The three variables of ExecLeases.
RunningIn == [s \in Ids |-> Running(s)]
Gone == {s \in issued : ~ Exists(s)}

\* What a step shows to ExecLeases when no goroutine begins or ends a command.
LEMMA SameRunning ==
  ASSUME \A c \in Callers : /\ lease'[c].pc = "held" <=> lease[c].pc = "held"
                            /\ lease[c].pc = "held" => lease'[c].id = lease[c].id
  PROVE  RunningIn' = RunningIn
BY DEF RunningIn, Running

\* No record appears or disappears, and none is issued.
LEMMA SameGone ==
  ASSUME \A s \in issued : Exists(s)' <=> Exists(s), issued' = issued
  PROVE  Gone' = Gone
BY DEF Gone

\* With the deadlines, that is a stuttering step of ExecLeases.
LEMMA Stutters ==
  ASSUME RunningIn' = RunningIn, Gone' = Gone, late' = late
  PROVE  UNCHANGED Leases!vars
BY DEF Leases!vars, RunningIn, Gone

\* A goroutine that is not counted anywhere runs nothing.
LEMMA RunningCounted ==
  ASSUME NEW s, Counted(s) = {}
  PROVE  Running(s) = {}
BY DEF Counted, Running, Counting

-----------------------------------------------------------------------------
(* The steps of the manager.                                               *)

\* Nothing runs in a session that is removed, or whose creation failed.
LEMMA RemovalMaps ==
  ASSUME NEW s \in Ids, Running(s) = {}, RunningIn' = RunningIn, late' = late,
         Gone' = Gone \cup {s}
  PROVE  Leases!Next
<1>1. Leases!Remove(s)
  BY DEF Leases!Remove, RunningIn, Gone
<1> QED
  BY <1>1 DEF Leases!Next

\* A method of the manager removes one record at most, and begins nothing.
LEMMA ManagerCallMaps ==
  ASSUME IInv, NEW s \in Ids, ManagerCall(s)
  PROVE  Leases!Next \/ UNCHANGED Leases!vars
<1>1. TypeOK /\ Provenance /\ LeaseAccounting
  BY DEF IInv
<1>2. lease' = lease /\ late' = late
  BY DEF ManagerCall, CreateSession, CreateFails, GetSession, Transition, MarkReady,
     RecordCleanupFailure, BeginStopping, RemoveSession, RemoveFails, Touch
<1>3. RunningIn' = RunningIn
  BY <1>2, SameRunning
<1>4. CASE \E m \in Modes : CreateSession(s, m)
  <2>1. PICK m \in Modes : CreateSession(s, m)
    BY <1>4
  <2>2. Fresh(m) # NoSession
    <3>1. Fresh(m) \in Session
      BY DEF Fresh, Session, Statuses
    <3> QED
      BY <3>1, NamesAssumption
  <2>3. s \notin issued /\ issued' = issued \cup {s}
        /\ sessions' = [sessions EXCEPT ![s] = Fresh(m)]
    BY <2>1 DEF CreateSession
  <2>4. Gone' = Gone
    BY <1>1, <2>2, <2>3 DEF Gone, Exists, TypeOK
  <2> QED
    BY <1>2, <1>3, <2>4, Stutters
<1>5. CASE CreateFails(s)
  <2>1. s \notin issued /\ issued' = issued \cup {s} /\ sessions' = sessions
    BY <1>5 DEF CreateFails, records
  <2>2. ~ Exists(s)
    BY <1>1, <2>1 DEF Provenance
  <2>3. Running(s) = {}
    BY <1>1, <2>1, NamesAssumption DEF Running, Provenance, Idle
  <2>4. Gone' = Gone \cup {s}
    BY <2>1, <2>2 DEF Gone, Exists
  <2> QED
    BY <1>2, <1>3, <2>3, <2>4, RemovalMaps
<1>6. CASE RemoveSession(s)
  <2>1. /\ Exists(s) /\ sessions[s].active = 0 /\ issued' = issued
        /\ sessions' = [sessions EXCEPT ![s] = NoSession]
    BY <1>6 DEF RemoveSession, Drained
  <2>2. Cardinality(Counted(s)) = 0
    <3>1. leftover[s] + Cardinality(Counted(s)) = 0
      BY <1>1, <2>1 DEF LeaseAccounting
    <3> QED
      BY <1>1, <3>1, HoldersFinite DEF TypeOK
  <2>3. Running(s) = {}
    BY <2>2, HoldersFinite, FS_EmptySet, RunningCounted
  <2>4. s \in issued
    BY <1>1, <2>1 DEF Provenance
  <2>5. Gone' = Gone \cup {s}
    BY <1>1, <2>1, <2>4 DEF Gone, Exists, TypeOK
  <2> QED
    BY <1>2, <1>3, <2>3, <2>5, RemovalMaps
<1>7. CASE RemoveFails(s)
  <2>1. sessions' = sessions /\ issued' = issued
    BY <1>7 DEF RemoveFails
  <2>2. Gone' = Gone
    BY <2>1, SameGone DEF Exists
  <2> QED
    BY <1>2, <1>3, <2>2, Stutters
<1>8. CASE \E r \in Session : Touch(s, r)
  <2>1. PICK r \in Session : Touch(s, r)
    BY <1>8
  <2>2. /\ Exists(s) /\ r # NoSession /\ issued' = issued
        /\ sessions' = [sessions EXCEPT ![s] = r]
    BY <2>1, NamesAssumption DEF Touch, Put
  <2>3. Gone' = Gone
    BY <1>1, <2>2, SameGone DEF Exists, TypeOK
  <2> QED
    BY <1>2, <1>3, <2>3, Stutters
<1>9. CASE GetSession(s) /\ ~ Overdue(s)
  <2>1. sessions' = sessions /\ issued' = issued
    BY <1>9 DEF GetSession, Observe, records
  <2>2. Gone' = Gone
    BY <2>1, SameGone DEF Exists
  <2> QED
    BY <1>2, <1>3, <2>2, Stutters
<1>10. Exists(s) => sessions[s] \in Session
  BY <1>1 DEF TypeOK, Exists
<1>11. Transition(s, "created", "starting") => \E r \in Session : Touch(s, r)
  <2>1. Exists(s) => [sessions[s] EXCEPT !.status = "starting"] \in Session
    BY <1>10 DEF Session, Statuses
  <2> QED
    BY <2>1 DEF Transition
<1>12. MarkReady(s) => \E r \in Session : Touch(s, r)
  <2>1. Exists(s) => [sessions[s] EXCEPT !.status = "ready", !.snap = TRUE] \in Session
    BY <1>10 DEF Session, Statuses
  <2> QED
    BY <2>1 DEF MarkReady, Touch
<1>13. RecordCleanupFailure(s) => \E r \in Session : Touch(s, r)
  <2>1. Exists(s) => [sessions[s] EXCEPT !.status = "cleanup-failed"] \in Session
    BY <1>10 DEF Session, Statuses
  <2> QED
    BY <2>1 DEF RecordCleanupFailure, Touch
<1>14. BeginStopping(s) => \E r \in Session : Touch(s, r)
  <2>1. Exists(s) => [sessions[s] EXCEPT !.status = "stopping"] \in Session
    BY <1>10 DEF Session, Statuses
  <2> QED
    BY <2>1 DEF BeginStopping, Touch
<1>15. GetSession(s) /\ Overdue(s) => \E r \in Session : Touch(s, r)
  <2>1. Overdue(s) => Exists(s) /\ Aged(s) \in Session
    BY <1>10 DEF Overdue, Aged, Session, Statuses
  <2> QED
    BY <2>1 DEF GetSession, Observe, Touch
<1> QED
  BY <1>4, <1>5, <1>6, <1>7, <1>8, <1>9, <1>11, <1>12, <1>13, <1>14, <1>15
     DEF ManagerCall

-----------------------------------------------------------------------------
(* The steps of a goroutine.                                               *)

\* Neither end of the step is a running command.
LEMMA QuietStep ==
  ASSUME TypeOK, NEW c \in Callers, NEW r, r.pc # "held", lease[c].pc # "held",
         lease' = [lease EXCEPT ![c] = r]
  PROVE  RunningIn' = RunningIn
<1>1. \A d \in Callers : lease'[d] = IF d = c THEN r ELSE lease[d]
  BY DEF TypeOK
<1>2. \A d \in Callers : /\ lease'[d].pc = "held" <=> lease[d].pc = "held"
                         /\ lease[d].pc = "held" => lease'[d].id = lease[d].id
  BY <1>1
<1> QED
  BY <1>2, SameRunning

\* The instance counts as this module does.
LEMMA SameSizes ==
  \A S : Leases!Cardinality(S) = Cardinality(S)
BY DEF Leases!Cardinality, Cardinality

\* A command begins: its goroutine holds a token of each channel already, so
\* that those running before it are fewer than the tokens.
LEMMA AdmitMaps ==
  ASSUME IInv, NEW c \in Callers, Admit(c)
  PROVE  Leases!Next
<1> DEFINE s == lease[c].id
<1>1. TypeOK /\ SlotAccounting /\ Provenance
  BY DEF IInv
<1>2. Step(c, "recheck", "held") /\ Admissible(s)
      /\ UNCHANGED <<sessions, saved, issued, late>>
  BY DEF Admit, records
<1>3. /\ lease[c].pc = "recheck" /\ s \in Ids
      /\ lease' = [lease EXCEPT ![c] = [pc |-> "held", id |-> s]]
  BY <1>1, <1>2, StepMoves DEF LeaseSteps
<1>4. RunningIn' = [RunningIn EXCEPT ![s] = @ \cup {c}]
  <2>1. \A d \in Callers :
          lease'[d] = IF d = c THEN [pc |-> "held", id |-> s] ELSE lease[d]
    BY <1>1, <1>3 DEF TypeOK
  <2>2. \A x : Running(x)' = {d \in Callers : lease'[d].pc = "held" /\ lease'[d].id = x}
    BY DEF Running
  <2>3. \A x : Running(x)' = IF x = s THEN Running(x) \cup {c} ELSE Running(x)
    BY <1>3, <2>1, <2>2 DEF Running
  <2> QED
    BY <1>3, <2>3 DEF RunningIn
<1>5. s \notin late \cup Gone
  BY <1>2 DEF Admissible, Gone
<1>6. Cardinality(Running(s)) < MaximumParallelExecPerSession
  <2>1. Running(s) \subseteq SessionHolders(s) \ {c} /\ c \in SessionHolders(s)
    BY <1>3 DEF Running, SessionHolders, SessionHolding
  <2>2. /\ IsFiniteSet(SessionHolders(s) \ {c})
        /\ Cardinality(SessionHolders(s) \ {c}) = Cardinality(SessionHolders(s)) - 1
    BY <2>1, HoldersFinite, FS_RemoveElement
  <2>3. /\ Cardinality(Running(s)) <= Cardinality(SessionHolders(s) \ {c})
        /\ Cardinality(Running(s)) \in Nat
    BY <2>1, <2>2, FS_Subset, FS_CardinalityType
  <2>4. Cardinality(SessionHolders(s)) <= MaximumParallelExecPerSession
        /\ Cardinality(SessionHolders(s)) \in Nat
    BY <1>1, <1>3, HoldersFinite DEF SlotAccounting
  <2> QED
    BY <2>2, <2>3, <2>4, LimitsAssumption
<1>7. Leases!Idle(c)
  BY <1>3 DEF Leases!Idle, Running
<1>8. Cardinality(Leases!Busy) < MaximumParallelGlobalExec
  <2>1. Leases!Busy \subseteq GlobalHolders \ {c} /\ c \in GlobalHolders
    BY <1>3, <1>7 DEF Leases!Busy, Leases!Idle, Running, GlobalHolders, GlobalHolding
  <2>2. /\ IsFiniteSet(GlobalHolders \ {c})
        /\ Cardinality(GlobalHolders \ {c}) = Cardinality(GlobalHolders) - 1
    BY <2>1, HoldersFinite, FS_RemoveElement
  <2>3. /\ Cardinality(Leases!Busy) <= Cardinality(GlobalHolders \ {c})
        /\ Cardinality(Leases!Busy) \in Nat
    BY <2>1, <2>2, FS_Subset, FS_CardinalityType
  <2>4. Cardinality(GlobalHolders) <= MaximumParallelGlobalExec
        /\ Cardinality(GlobalHolders) \in Nat
    BY <1>1, HoldersFinite DEF SlotAccounting
  <2> QED
    BY <2>2, <2>3, <2>4, LimitsAssumption
<1>9. Gone' = Gone /\ late' = late
  BY <1>2, SameGone DEF Exists
<1>10. RunningIn[s] = Running(s)
  BY <1>3 DEF RunningIn
<1>11. Leases!Admit(c, s)
  BY <1>4, <1>5, <1>6, <1>7, <1>8, <1>9, <1>10, SameSizes
     DEF Leases!Admit, RunningIn, Gone
<1> QED
  BY <1>3, <1>11 DEF Leases!Next

\* A command ends.
LEMMA ReleaseMaps ==
  ASSUME IInv, NEW c \in Callers, Release(c)
  PROVE  Leases!Next
<1> DEFINE s == lease[c].id
<1>1. TypeOK
  BY DEF IInv
<1>2. Step(c, "held", "freeGlobal") /\ UNCHANGED <<sessions, saved, issued, late>>
  BY DEF Release, FreeSessionSlot, records
<1>3. /\ lease[c].pc = "held" /\ s \in Ids
      /\ lease' = [lease EXCEPT ![c] = [pc |-> "freeGlobal", id |-> s]]
  BY <1>1, <1>2, StepMoves DEF LeaseSteps
<1>4. RunningIn' = [RunningIn EXCEPT ![s] = @ \ {c}] /\ c \in Running(s)
  <2>1. \A d \in Callers :
          lease'[d] = IF d = c THEN [pc |-> "freeGlobal", id |-> s] ELSE lease[d]
    BY <1>1, <1>3 DEF TypeOK
  <2>2. \A x : Running(x)' = {d \in Callers : lease'[d].pc = "held" /\ lease'[d].id = x}
    BY DEF Running
  <2>3. \A x : Running(x)' = IF x = s THEN Running(x) \ {c} ELSE Running(x)
    BY <1>3, <2>1, <2>2 DEF Running
  <2>4. c \in Running(s)
    BY <1>3 DEF Running
  <2> QED
    BY <1>3, <2>3, <2>4 DEF RunningIn
<1>5. Gone' = Gone /\ late' = late
  BY <1>2, SameGone DEF Exists
<1>6. Leases!Finish(c, s)
  BY <1>3, <1>4, <1>5 DEF Leases!Finish, RunningIn, Gone
<1> QED
  BY <1>3, <1>6 DEF Leases!Next

\* The steps of the protocol that only move a goroutine and its tokens.
LEMMA WaitMaps ==
  ASSUME IInv, NEW c \in Callers,
         \/ AcquireGlobal(c) \/ CancelAtGlobal(c)
         \/ AcquireSession(c) \/ CancelAtSession(c)
         \/ DropSession(c) \/ DropGlobal(c) \/ FreeGlobal(c)
  PROVE  UNCHANGED Leases!vars
<1>1. TypeOK
  BY DEF IInv
<1>2. UNCHANGED <<sessions, issued, late>>
  BY DEF AcquireGlobal, CancelAtGlobal, AcquireSession, CancelAtSession, DropSession,
     DropGlobal, FreeGlobal, FreeSessionSlot, records
<1>3. Gone' = Gone
  BY <1>2, SameGone DEF Exists
<1>4. CASE \E from, to \in LeaseSteps \ {"held"} : Step(c, from, to)
  <2>1. PICK from \in LeaseSteps \ {"held"}, to \in LeaseSteps \ {"held"} :
          Step(c, from, to)
    BY <1>4
  <2> DEFINE r == [pc |-> to, id |-> lease[c].id]
  <2>2. lease[c].pc = from /\ lease' = [lease EXCEPT ![c] = r]
    BY <1>1, <2>1, StepMoves
  <2>3. r.pc # "held" /\ lease[c].pc # "held"
    BY <2>2
  <2> HIDE DEF r
  <2>4. RunningIn' = RunningIn
    BY <1>1, <2>2, <2>3, QuietStep
  <2> QED
    BY <1>2, <1>3, <2>4, Stutters
<1>5. CASE DropGlobal(c)
  <2>1. Done(c, "dropGlobal") /\ "dropGlobal" \in LeaseSteps
    BY <1>5 DEF DropGlobal, LeaseSteps
  <2>2. lease[c].pc # "held" /\ lease' = [lease EXCEPT ![c] = Idle]
    BY <1>1, <2>1, DoneMoves
  <2>3. RunningIn' = RunningIn
    BY <1>1, <2>2, QuietStep DEF Idle
  <2> QED
    BY <1>2, <1>3, <2>3, Stutters
<1>6. ~ DropGlobal(c) => \E from, to \in LeaseSteps \ {"held"} : Step(c, from, to)
  <2>1. {"global", "session", "recheck", "freeGlobal", "uncount", "dropSession",
         "dropGlobal"} \subseteq LeaseSteps \ {"held"}
    BY DEF LeaseSteps
  <2>2. ~ DropGlobal(c) =>
          \E from, to \in {"global", "session", "recheck", "freeGlobal", "uncount",
                           "dropSession", "dropGlobal"} : Step(c, from, to)
    BY DEF AcquireGlobal, CancelAtGlobal, AcquireSession, CancelAtSession,
       DropSession, FreeGlobal, FreeSessionSlot
  <2> QED
    BY <2>1, <2>2
<1> QED
  BY <1>4, <1>5, <1>6

\* The steps that rewrite the record they are counted in.
LEMMA RecountMaps ==
  ASSUME IInv, NEW c \in Callers, NEW s \in Ids, NEW r, NEW rec \in Session,
         Exists(s), r.pc # "held", lease[c].pc # "held",
         lease' = [lease EXCEPT ![c] = r],
         sessions' = [sessions EXCEPT ![s] = rec],
         UNCHANGED <<issued, late>>
  PROVE  UNCHANGED Leases!vars
<1>1. TypeOK
  BY DEF IInv
<1>2. RunningIn' = RunningIn
  BY <1>1, QuietStep
<1>3. rec # NoSession
  BY NamesAssumption
<1>4. Gone' = Gone
  BY <1>1, <1>3, SameGone DEF Exists, TypeOK
<1> QED
  BY <1>2, <1>4, Stutters

\* A request that is let in is not a command yet.
LEMMA ReserveMaps ==
  ASSUME IInv, NEW c \in Callers, NEW s \in Ids, Reserve(c, s)
  PROVE  UNCHANGED Leases!vars
<1> DEFINE r == [pc |-> "global", id |-> s]
           rec == [sessions[s] EXCEPT !.active = @ + 1]
<1>1. /\ Exists(s) /\ lease[c] = Idle
      /\ lease' = [lease EXCEPT ![c] = r]
      /\ sessions' = [sessions EXCEPT ![s] = rec]
      /\ UNCHANGED <<issued, late>>
  BY DEF Reserve, Admissible, Put
<1>2. rec \in Session
  BY <1>1 DEF IInv, TypeOK, Exists, Session
<1>3. r.pc # "held" /\ lease[c].pc # "held"
  BY <1>1 DEF Idle
<1> HIDE DEF r, rec
<1> QED
  BY <1>1, <1>2, <1>3, RecountMaps

\* A denied request was none.
LEMMA RefuseMaps ==
  ASSUME IInv, NEW c \in Callers, Refuse(c)
  PROVE  UNCHANGED Leases!vars
<1> DEFINE s == lease[c].id
           rec == [Aged(s) EXCEPT !.active = @ - 1]
           r == [pc |-> "dropSession", id |-> s]
<1>1. Step(c, "recheck", "dropSession") /\ TypeOK
  BY DEF Refuse, IInv
<1>2. /\ lease[c].pc = "recheck" /\ s \in Ids
      /\ lease' = [lease EXCEPT ![c] = r]
  BY <1>1, StepMoves DEF LeaseSteps
<1>3. Exists(s) /\ sessions[s] \in Session /\ sessions[s].active \in Nat \ {0}
  BY <1>2, CountedRecord DEF Counting
<1>4. sessions' = [sessions EXCEPT ![s] = rec] /\ UNCHANGED <<issued, late>>
  BY <1>3 DEF Refuse
<1>5. rec \in Session
  <2>1. Aged(s) \in Session /\ Aged(s).active = sessions[s].active
    BY <1>3 DEF Aged, Session, Statuses
  <2> QED
    BY <1>3, <2>1 DEF Session
<1>6. r.pc # "held" /\ lease[c].pc # "held"
  BY <1>2
<1> HIDE DEF s, r, rec
<1> QED
  BY <1>2, <1>3, <1>4, <1>5, <1>6, RecountMaps

\* The end of a release, or of a cancelled wait: the command is over before.
LEMMA UncountMaps ==
  ASSUME IInv, NEW c \in Callers, Uncount(c)
  PROVE  UNCHANGED Leases!vars
<1> DEFINE s == lease[c].id
           old == sessions[s]
           rec == [old EXCEPT !.active = IF @ > 0 THEN @ - 1 ELSE 0]
<1>1. Done(c, "uncount") /\ TypeOK
  BY DEF Uncount, IInv
<1>2. /\ lease[c].pc = "uncount" /\ s \in Ids
      /\ lease' = [lease EXCEPT ![c] = Idle]
  BY <1>1, DoneMoves DEF LeaseSteps
<1>3. Exists(s) /\ old \in Session /\ old.active \in Nat \ {0}
  BY <1>2, CountedRecord DEF Counting
<1>4. sessions' = [sessions EXCEPT ![s] = rec] /\ UNCHANGED <<issued, late>>
  BY <1>3 DEF Uncount, Put
<1>5. rec \in Session
  BY <1>3 DEF Session
<1>6. Idle.pc # "held" /\ lease[c].pc # "held"
  BY <1>2 DEF Idle
<1> HIDE DEF s, old, rec
<1> QED
  BY <1>2, <1>3, <1>4, <1>5, <1>6, RecountMaps

\* Any step of a goroutine: it is a command's begin or end, or nothing.
LEMMA LeaseStepMaps ==
  ASSUME IInv, NEW c \in Callers, LeaseStep(c)
  PROVE  Leases!Next \/ UNCHANGED Leases!vars
<1>1. CASE \E s \in Ids : Reserve(c, s)
  BY <1>1, ReserveMaps
<1>2. CASE \E s \in Ids : RefuseReservation(c, s)
  BY <1>2, ManagerCallMaps DEF RefuseReservation, ManagerCall
<1>3. CASE CancelAtGlobal(c) \/ CancelAtSession(c)
  BY <1>3, WaitMaps
<1>4. CASE LeaseProgress(c)
  BY <1>4, WaitMaps, AdmitMaps, RefuseMaps, ReleaseMaps, UncountMaps
     DEF LeaseProgress
<1> QED
  BY <1>1, <1>2, <1>3, <1>4 DEF LeaseStep

-----------------------------------------------------------------------------
(* The other steps, and the theorem.                                       *)

\* A deadline stops no command.
LEMMA DeadlineMaps ==
  ASSUME NEW s \in Ids, DeadlinePasses(s)
  PROVE  Leases!Next
<1>1. late' = late \cup {s} /\ UNCHANGED <<sessions, issued, lease>>
  BY DEF DeadlinePasses, records
<1>2. RunningIn' = RunningIn /\ Gone' = Gone
  BY <1>1, SameRunning, SameGone DEF Exists
<1>3. Leases!Expire(s)
  BY <1>1, <1>2 DEF Leases!Expire, RunningIn, Gone
<1> QED
  BY <1>3 DEF Leases!Next

\* Listing the sessions rewrites records that are there.
LEMMA ListSessionsMaps ==
  ASSUME IInv, ListSessions
  PROVE  UNCHANGED Leases!vars
<1> DEFINE due == {s \in Ids : Overdue(s) /\ sessions[s].mode = "persistent"}
<1>1. /\ sessions' = [s \in Ids |-> IF s \in due THEN Aged(s) ELSE sessions[s]]
      /\ UNCHANGED <<issued, late, lease>>
  BY DEF ListSessions
<1>2. \A s \in due : Exists(s) /\ Aged(s) \in Session
  BY DEF IInv, TypeOK, Overdue, Exists, Aged, Session, Statuses
<1>3. \A s \in Ids : Exists(s)' <=> Exists(s)
  BY <1>1, <1>2, NamesAssumption DEF Exists
<1>4. issued \subseteq Ids
  BY DEF IInv, TypeOK
<1>5. RunningIn' = RunningIn /\ Gone' = Gone
  BY <1>1, <1>3, <1>4, SameRunning, SameGone
<1> QED
  BY <1>1, <1>5, Stutters

\* A crash ends every command; the disk holds nothing that was gone.
LEMMA CrashMaps ==
  ASSUME IInv, Crash
  PROVE  Leases!Next
<1>1. /\ sessions' = saved /\ lease' = [c \in Callers |-> Idle]
      /\ UNCHANGED <<issued, late>>
  BY DEF Crash
<1>2. RunningIn' = [s \in Ids |-> {}]
  <2>1. \A c \in Callers : lease'[c].pc # "held"
    BY <1>1 DEF Idle
  <2>2. \A s : Running(s)' = {c \in Callers : lease'[c].pc = "held" /\ lease'[c].id = s}
    BY DEF Running
  <2>3. \A s : Running(s)' = {}
    BY <2>1, <2>2
  <2> QED
    BY <2>3 DEF RunningIn
<1>3. Gone \subseteq Gone' /\ Gone' \subseteq Ids
  BY <1>1 DEF IInv, NoResurrection, TypeOK, Gone, Exists
<1>4. Gone' = Gone \cup Gone'
  BY <1>3
<1>5. Leases!Crash
  BY <1>1, <1>2, <1>3, <1>4 DEF Leases!Crash, RunningIn, Gone
<1> QED
  BY <1>5 DEF Leases!Next

\* Every step of the module is one step of ExecLeases, or none.
LEMMA NextMaps ==
  ASSUME IInv, [Next]_vars
  PROVE  [Leases!Next]_Leases!vars
<1>1. CASE \E s \in Ids : ManagerCall(s) \/ DeadlinePasses(s)
  BY <1>1, ManagerCallMaps, DeadlineMaps
<1>2. CASE ListSessions
  BY <1>2, ListSessionsMaps
<1>3. CASE \E c \in Callers : LeaseStep(c)
  BY <1>3, LeaseStepMaps
<1>4. CASE Crash
  BY <1>4, CrashMaps
<1>5. CASE UNCHANGED vars
  <2>1. UNCHANGED <<sessions, issued, late, lease>>
    BY <1>5 DEF vars
  <2>2. RunningIn' = RunningIn /\ Gone' = Gone
    BY <2>1, SameRunning, SameGone DEF Exists
  <2> QED
    BY <2>1, <2>2, Stutters
<1> QED
  BY <1>1, <1>2, <1>3, <1>4, <1>5 DEF Next

\* Nothing runs, is late or is gone when the controller starts.
LEMMA InitMaps ==
  ASSUME Init
  PROVE  Leases!Init
BY DEF Init, Leases!Init, Running, Idle

\* internal/session keeps its promise about running commands: however its
\* goroutines, deadlines, failed writes and crashes interleave, a command is
\* admitted only to a session that exists and is not late, within both limits,
\* and no record is removed under it.
THEOREM Refinement == Spec => ImplementsExecLeases
<1>1. Init => Leases!Init
  BY InitMaps
<1>2. IInv /\ [Next]_vars => [Leases!Next]_Leases!vars
  BY NextMaps
<1> QED
  BY <1>1, <1>2, Invariance, PTL DEF Spec, ImplementsExecLeases, Leases!Spec
=============================================================================
