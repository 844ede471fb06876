------------------------ MODULE SessionManagerProofs ------------------------
(***************************************************************************)
(* The invariants of SessionManager, for every set of identifiers and      *)
(* goroutines and every limit.  IInv is inductive: the counts of leases    *)
(* and tokens are only right together, because a decrement needs to know   *)
(* that its goroutine was counted and that the record is still there, and  *)
(* a removal that the count it reads as zero is exact.                     *)
(***************************************************************************)
EXTENDS SessionManager, FiniteSetTheorems, TLAPS

Bit(b) == IF b THEN 1 ELSE 0

\* What a goroutine at step l of the protocol contributes to the count of
\* session s, to the global channel and to the channel of s.
CountOf(l, s) == Bit(l.pc \in Counting /\ l.id = s)
GlobalOf(l) == Bit(l.pc \in GlobalHolding)
SessionOf(l, s) == Bit(l.pc \in SessionHolding /\ l.id = s)

-----------------------------------------------------------------------------
(* How the sets of goroutines, and their sizes, change when one goroutine  *)
(* takes a step.                                                           *)

\* The three sets of goroutines are finite, so they have sizes.
LEMMA HoldersFinite ==
  /\ IsFiniteSet(GlobalHolders) /\ Cardinality(GlobalHolders) \in Nat
  /\ \A s : /\ IsFiniteSet(Counted(s)) /\ Cardinality(Counted(s)) \in Nat
            /\ IsFiniteSet(SessionHolders(s))
            /\ Cardinality(SessionHolders(s)) \in Nat
<1>1. GlobalHolders \subseteq Callers
  BY DEF GlobalHolders
<1>2. \A s : Counted(s) \subseteq Callers /\ SessionHolders(s) \subseteq Callers
  BY DEF Counted, SessionHolders
<1>3. \A S \in SUBSET Callers : IsFiniteSet(S) /\ Cardinality(S) \in Nat
  BY NamesAssumption, FS_Subset, FS_CardinalityType
<1> QED
  BY <1>1, <1>2, <1>3

\* Adding or taking away one goroutine changes a size by whether it is new,
\* or was there.
LEMMA PlaceCardinality ==
  ASSUME NEW S, IsFiniteSet(S), NEW T, NEW x, NEW in \in BOOLEAN,
         T = IF in THEN S \cup {x} ELSE S \ {x}
  PROVE  Cardinality(T) = Cardinality(S) - Bit(x \in S) + Bit(in)
<1>1. Cardinality(S) \in Nat
  BY FS_CardinalityType
<1>2. CASE in
  <2>1. Cardinality(T) = IF x \in S THEN Cardinality(S) ELSE Cardinality(S) + 1
    BY <1>2, FS_AddElement
  <2> QED
    BY <2>1, <1>1, <1>2 DEF Bit
<1>3. CASE ~ in
  <2>1. Cardinality(T) = IF x \in S THEN Cardinality(S) - 1 ELSE Cardinality(S)
    BY <1>3, FS_RemoveElement
  <2> QED
    BY <2>1, <1>1, <1>3 DEF Bit
<1> QED
  BY <1>2, <1>3

\* One goroutine's step moves it into or out of each of the three sets.
LEMMA StepSets ==
  ASSUME TypeOK, NEW c \in Callers, NEW r,
         lease' = [lease EXCEPT ![c] = r]
  PROVE  /\ GlobalHolders' = IF r.pc \in GlobalHolding
                              THEN GlobalHolders \cup {c} ELSE GlobalHolders \ {c}
         /\ \A s : Counted(s)' = IF r.pc \in Counting /\ r.id = s
                                  THEN Counted(s) \cup {c} ELSE Counted(s) \ {c}
         /\ \A s : SessionHolders(s)' =
                     IF r.pc \in SessionHolding /\ r.id = s
                       THEN SessionHolders(s) \cup {c} ELSE SessionHolders(s) \ {c}
<1>1. \A d \in Callers : lease'[d] = IF d = c THEN r ELSE lease[d]
  BY DEF TypeOK
<1>2. GlobalHolders' = {d \in Callers : lease'[d].pc \in GlobalHolding}
  BY DEF GlobalHolders
<1>3. \A s : Counted(s)' = {d \in Callers : lease'[d].pc \in Counting
                                             /\ lease'[d].id = s}
  BY DEF Counted
<1>4. \A s : SessionHolders(s)' = {d \in Callers : lease'[d].pc \in SessionHolding
                                                    /\ lease'[d].id = s}
  BY DEF SessionHolders
<1>5. GlobalHolders' = IF r.pc \in GlobalHolding
                        THEN GlobalHolders \cup {c} ELSE GlobalHolders \ {c}
  BY <1>1, <1>2 DEF GlobalHolders
<1>6. \A s : Counted(s)' = IF r.pc \in Counting /\ r.id = s
                            THEN Counted(s) \cup {c} ELSE Counted(s) \ {c}
  BY <1>1, <1>3 DEF Counted
<1>7. \A s : SessionHolders(s)' = IF r.pc \in SessionHolding /\ r.id = s
                            THEN SessionHolders(s) \cup {c} ELSE SessionHolders(s) \ {c}
  BY <1>1, <1>4 DEF SessionHolders
<1> QED
  BY <1>5, <1>6, <1>7

\* The same for the sizes.
LEMMA StepCounts ==
  ASSUME TypeOK, NEW c \in Callers, NEW r, NEW s,
         lease' = [lease EXCEPT ![c] = r]
  PROVE  /\ Cardinality(GlobalHolders)' = Cardinality(GlobalHolders)
              - GlobalOf(lease[c]) + GlobalOf(r)
         /\ Cardinality(Counted(s))' = Cardinality(Counted(s))
              - CountOf(lease[c], s)
              + CountOf(r, s)
         /\ Cardinality(SessionHolders(s))' = Cardinality(SessionHolders(s))
              - SessionOf(lease[c], s)
              + SessionOf(r, s)
<1>1. /\ c \in GlobalHolders <=> lease[c].pc \in GlobalHolding
      /\ c \in Counted(s) <=> lease[c].pc \in Counting /\ lease[c].id = s
      /\ c \in SessionHolders(s)
           <=> lease[c].pc \in SessionHolding /\ lease[c].id = s
  BY DEF GlobalHolders, Counted, SessionHolders
<1>2. Cardinality(GlobalHolders') = Cardinality(GlobalHolders)
              - Bit(c \in GlobalHolders) + GlobalOf(r)
  <2>1. GlobalHolders' = IF r.pc \in GlobalHolding
                          THEN GlobalHolders \cup {c} ELSE GlobalHolders \ {c}
    BY StepSets
  <2>2. IsFiniteSet(GlobalHolders) /\ (r.pc \in GlobalHolding) \in BOOLEAN
    BY HoldersFinite
  <2> QED
    BY <2>1, <2>2, PlaceCardinality DEF GlobalOf
<1>3. Cardinality(Counted(s)') = Cardinality(Counted(s))
              - Bit(c \in Counted(s)) + CountOf(r, s)
  BY StepSets, HoldersFinite, PlaceCardinality DEF CountOf
<1>4. Cardinality(SessionHolders(s)') = Cardinality(SessionHolders(s))
              - Bit(c \in SessionHolders(s))
              + SessionOf(r, s)
  BY StepSets, HoldersFinite, PlaceCardinality DEF SessionOf
<1>5. /\ Bit(c \in GlobalHolders) = GlobalOf(lease[c])
      /\ Bit(c \in Counted(s)) = CountOf(lease[c], s)
      /\ Bit(c \in SessionHolders(s))
           = SessionOf(lease[c], s)
  BY <1>1 DEF Bit, CountOf, GlobalOf, SessionOf
<1> QED
  BY <1>2, <1>3, <1>4, <1>5

\* A goroutine that is in one of the sets makes it non-empty.
LEMMA PresentCounts ==
  ASSUME NEW c \in Callers
  PROVE  /\ lease[c].pc \in GlobalHolding => Cardinality(GlobalHolders) >= 1
         /\ lease[c].pc \in Counting => Cardinality(Counted(lease[c].id)) >= 1
         /\ lease[c].pc \in SessionHolding
              => Cardinality(SessionHolders(lease[c].id)) >= 1
<1>1. \A S : IsFiniteSet(S) /\ c \in S => Cardinality(S) >= 1
  BY FS_EmptySet, FS_CardinalityType
<1> QED
  BY <1>1, HoldersFinite DEF GlobalHolders, Counted, SessionHolders

-----------------------------------------------------------------------------
(* The steps that leave the goroutines and the slots alone.                *)

\* Counts and sizes stay as they are when no goroutine moves.
LEMMA QuietCounts ==
  ASSUME UNCHANGED lease
  PROVE  /\ GlobalHolders' = GlobalHolders
         /\ \A s : Counted(s)' = Counted(s)
         /\ \A s : SessionHolders(s)' = SessionHolders(s)
BY DEF GlobalHolders, Counted, SessionHolders

LEMMA StutterKeeps ==
  ASSUME IInv, UNCHANGED vars
  PROVE  IInv'
BY QuietCounts DEF IInv, TypeOK, LeaseAccounting, SlotAccounting,
   LeasedSessionExists, NoResurrection, Provenance, Exists, Idle, vars

\* Whatever a save leaves on disk, it is a record, and only the saved session
\* may have appeared there.
LEMMA SaveEffect ==
  ASSUME saved \in [Ids -> Session \cup {NoSession}], NEW s \in Ids,
         NEW r \in Session, NEW earlier \in SUBSET Session, Save(s, r, earlier)
  PROVE  /\ saved' \in [Ids -> Session \cup {NoSession}]
         /\ \A x \in Ids : x # s => saved'[x] = saved[x]
BY DEF Save

\* A method that rewrites one record and keeps its count keeps everything.
LEMMA TouchKeeps ==
  ASSUME IInv, NEW s \in Ids, NEW r \in Session,
         r.active = sessions[s].active, Touch(s, r)
  PROVE  IInv'
<1> USE DEF IInv
<1>1. /\ sessions' = [sessions EXCEPT ![s] = r]
      /\ Save(s, r, {})
      /\ UNCHANGED <<issued, late, globalSem, sessionSems, lease, leftover, crashes>>
      /\ Exists(s)
  BY DEF Touch, Put, slots, history
<1>2. /\ saved' \in [Ids -> Session \cup {NoSession}]
      /\ \A x \in Ids : x # s => saved'[x] = saved[x]
  BY <1>1, SaveEffect DEF TypeOK
<1>3. r # NoSession
  BY NamesAssumption
<1>4. \A x \in Ids : /\ Exists(x)' <=> Exists(x)
                     /\ x # s => sessions'[x] = sessions[x]
                     /\ Exists(x) => sessions'[x].active = sessions[x].active
  BY <1>1, <1>3 DEF Exists, TypeOK
<1>5. TypeOK'
  BY <1>1, <1>2 DEF TypeOK, Idle
<1>6. LeaseAccounting'
  BY <1>1, <1>4, QuietCounts DEF LeaseAccounting
<1>7. SlotAccounting'
  BY <1>1, QuietCounts DEF SlotAccounting
<1>8. LeasedSessionExists'
  BY <1>1, <1>3 DEF LeasedSessionExists, Exists, TypeOK
<1>9. NoResurrection'
  BY <1>1, <1>2, <1>4 DEF NoResurrection
<1>10. Provenance'
  BY <1>1, <1>4 DEF Provenance, Idle
<1> QED
  BY <1>5, <1>6, <1>7, <1>8, <1>9, <1>10

\* Looking a session up changes at most its status.
LEMMA GetSessionKeeps ==
  ASSUME IInv, NEW s \in Ids, GetSession(s)
  PROVE  IInv'
<1>1. CASE Overdue(s)
  <2>1. sessions[s] \in Session /\ Exists(s)
    BY <1>1 DEF Overdue, Exists, IInv, TypeOK
  <2>2. Aged(s) \in Session /\ Aged(s).active = sessions[s].active
    BY <1>1, <2>1 DEF Aged, Session, Statuses
  <2>3. Touch(s, Aged(s))
    BY <1>1, <2>1 DEF GetSession, Observe, Touch
  <2> QED
    BY <2>2, <2>3, TouchKeeps
<1>2. CASE ~ Overdue(s)
  <2>1. UNCHANGED vars
    BY <1>2 DEF GetSession, Observe, records, slots, history, vars
  <2> QED
    BY <2>1, StutterKeeps
<1> QED
  BY <1>1, <1>2

\* A new identifier has no record, no count and no goroutine.
LEMMA CreateKeeps ==
  ASSUME IInv, NEW s \in Ids, NEW m \in Modes, CreateSession(s, m)
  PROVE  IInv'
<1> USE DEF IInv
<1>1. /\ s \notin issued
      /\ issued' = issued \cup {s}
      /\ sessions' = [sessions EXCEPT ![s] = Fresh(m)]
      /\ saved' = [saved EXCEPT ![s] = Fresh(m)]
      /\ UNCHANGED <<late, globalSem, sessionSems, lease, leftover, crashes>>
  BY DEF CreateSession, slots, history
<1>2. Fresh(m) \in Session /\ Fresh(m).active = 0 /\ Fresh(m) # NoSession
  <2>1. Fresh(m) \in Session /\ Fresh(m).active = 0
    BY DEF Fresh, Session, Statuses
  <2> QED
    BY <2>1, NamesAssumption
<1>3. leftover[s] = 0 /\ Counted(s) = {}
  BY <1>1, NamesAssumption DEF Provenance, Counted, Idle, Counting, TypeOK
<1>4. TypeOK'
  BY <1>1, <1>2 DEF TypeOK, Idle
<1>5. LeaseAccounting'
  <2>1. Cardinality(Counted(s)) = 0
    BY <1>3, FS_EmptySet
  <2> SUFFICES ASSUME NEW x \in Ids, Exists(x)'
               PROVE  sessions'[x].active = leftover'[x] + Cardinality(Counted(x))'
    BY DEF LeaseAccounting
  <2>2. CASE x = s
    BY <1>1, <1>2, <1>3, <2>1, <2>2, QuietCounts DEF TypeOK
  <2>3. CASE x # s
    BY <1>1, <2>3, QuietCounts DEF LeaseAccounting, Exists, TypeOK
  <2> QED
    BY <2>2, <2>3
<1>6. SlotAccounting'
  BY <1>1, QuietCounts DEF SlotAccounting
<1>7. LeasedSessionExists'
  BY <1>1, <1>2 DEF LeasedSessionExists, Exists, TypeOK
<1>8. NoResurrection'
  BY <1>1, <1>2 DEF NoResurrection, Exists, TypeOK
<1>9. Provenance'
  BY <1>1 DEF Provenance, Exists, TypeOK, Idle
<1> QED
  BY <1>4, <1>5, <1>6, <1>7, <1>8, <1>9

\* A creation that is taken back uses its identifier up.
LEMMA CreateFailsKeeps ==
  ASSUME IInv, NEW s \in Ids, CreateFails(s)
  PROVE  IInv'
<1>1. /\ issued' = issued \cup {s}
      /\ UNCHANGED <<sessions, saved, late, globalSem, sessionSems, lease,
                     leftover, crashes>>
  BY DEF CreateFails, records, slots, history
<1> QED
  BY <1>1, QuietCounts DEF IInv, TypeOK, LeaseAccounting, SlotAccounting,
     LeasedSessionExists, NoResurrection, Provenance, Exists, Idle

\* ListSessions rewrites several records, and keeps every count.
LEMMA ListSessionsKeeps ==
  ASSUME IInv, ListSessions
  PROVE  IInv'
<1> USE DEF IInv
<1> DEFINE due == {s \in Ids : Overdue(s) /\ sessions[s].mode = "persistent"}
<1>1. /\ sessions' = [s \in Ids |-> IF s \in due THEN Aged(s) ELSE sessions[s]]
      /\ UNCHANGED <<issued, late, globalSem, sessionSems, lease, leftover, crashes>>
  BY DEF ListSessions, slots, history
<1>2. PICK written \in SUBSET due :
        saved' = [s \in Ids |-> IF s \in written THEN Aged(s) ELSE saved[s]]
  BY DEF ListSessions
<1>3. \A s \in due : /\ Exists(s)
                     /\ Aged(s) \in Session
                     /\ Aged(s).active = sessions[s].active
  BY DEF TypeOK, Overdue, Exists, Aged, Session, Statuses
<1>4. \A s \in Ids : /\ Exists(s)' <=> Exists(s)
                     /\ Exists(s) => sessions'[s].active = sessions[s].active
  BY <1>1, <1>3, NamesAssumption DEF Exists
<1>5. TypeOK'
  BY <1>1, <1>2, <1>3 DEF TypeOK, Idle
<1>6. LeaseAccounting'
  BY <1>1, <1>4, QuietCounts DEF LeaseAccounting
<1>7. SlotAccounting'
  BY <1>1, QuietCounts DEF SlotAccounting
<1>8. LeasedSessionExists'
  BY <1>1, <1>4, NamesAssumption
     DEF LeasedSessionExists, TypeOK, Idle, Counting, LeaseSteps
<1>9. NoResurrection'
  BY <1>2, <1>3, <1>4 DEF NoResurrection
<1>10. Provenance'
  BY <1>1, <1>4 DEF Provenance, Idle
<1> QED
  BY <1>5, <1>6, <1>7, <1>8, <1>9, <1>10

\* A record goes only when its exact count is zero: no goroutine is counted.
LEMMA RemoveSessionKeeps ==
  ASSUME IInv, NEW s \in Ids, RemoveSession(s)
  PROVE  IInv'
<1> USE DEF IInv
<1>1. /\ Exists(s) /\ sessions[s].active = 0
      /\ sessions' = [sessions EXCEPT ![s] = NoSession]
      /\ saved' = [saved EXCEPT ![s] = NoSession]
      /\ UNCHANGED <<issued, late, globalSem, sessionSems, lease, leftover, crashes>>
  BY DEF RemoveSession, Drained, slots, history
<1>2. Counted(s) = {}
  <2>1. leftover[s] + Cardinality(Counted(s)) = 0
    BY <1>1 DEF LeaseAccounting
  <2>2. leftover[s] \in Nat
    BY DEF TypeOK
  <2>3. Cardinality(Counted(s)) = 0
    BY <2>1, <2>2, HoldersFinite
  <2> QED
    BY <2>3, HoldersFinite, FS_EmptySet
<1>3. \A x \in Ids : x # s => (Exists(x)' <=> Exists(x)) /\ sessions'[x] = sessions[x]
  BY <1>1 DEF Exists, TypeOK
<1>4. ~ Exists(s)'
  BY <1>1 DEF Exists, TypeOK
<1>5. TypeOK'
  BY <1>1 DEF TypeOK, Idle
<1>6. LeaseAccounting'
  BY <1>1, <1>3, <1>4, QuietCounts DEF LeaseAccounting
<1>7. SlotAccounting'
  BY <1>1, QuietCounts DEF SlotAccounting
<1>8. LeasedSessionExists'
  <2> SUFFICES ASSUME NEW c \in Callers, lease[c].pc \in Counting
               PROVE  Exists(lease[c].id)'
    BY <1>1 DEF LeasedSessionExists
  <2>1. lease[c].id \in Ids
    BY DEF TypeOK, Idle, Counting
  <2>2. lease[c].id # s
    BY <1>2 DEF Counted
  <2> QED
    BY <1>1, <1>3, <2>1, <2>2 DEF LeasedSessionExists
<1>9. NoResurrection'
  BY <1>1, <1>3, <1>4 DEF NoResurrection, TypeOK
<1>10. Provenance'
  BY <1>1, <1>3, <1>4 DEF Provenance, Idle
<1> QED
  BY <1>5, <1>6, <1>7, <1>8, <1>9, <1>10

\* A removal that fails may lose the file, never the record.
LEMMA RemoveFailsKeeps ==
  ASSUME IInv, NEW s \in Ids, RemoveFails(s)
  PROVE  IInv'
<1>1. /\ Exists(s)
      /\ UNCHANGED <<sessions, issued, late, globalSem, sessionSems, lease,
                     leftover, crashes>>
  BY DEF RemoveFails, slots, history
<1>2. /\ saved' \in [Ids -> Session \cup {NoSession}]
      /\ \A x \in Ids : x # s => saved'[x] = saved[x]
  BY DEF RemoveFails, IInv, TypeOK
<1> QED
  BY <1>1, <1>2, QuietCounts DEF IInv, TypeOK, LeaseAccounting, SlotAccounting,
     LeasedSessionExists, NoResurrection, Provenance, Exists, Idle

\* A deadline touches nothing but late.
LEMMA DeadlineKeeps ==
  ASSUME IInv, NEW s \in Ids, DeadlinePasses(s)
  PROVE  IInv'
<1>1. /\ Exists(s) /\ late' = late \cup {s}
      /\ UNCHANGED <<sessions, saved, issued, globalSem, sessionSems, lease,
                     leftover, crashes>>
  BY DEF DeadlinePasses, records, slots, history
<1> QED
  BY <1>1, QuietCounts DEF IInv, TypeOK, LeaseAccounting, SlotAccounting,
     LeasedSessionExists, NoResurrection, Provenance, Exists, Idle

\* A restart inherits counts, and no goroutine.
LEMMA CrashKeeps ==
  ASSUME IInv, Crash
  PROVE  IInv'
<1> USE DEF IInv
<1>1. /\ crashes' = crashes + 1 /\ crashes < MaxCrashes
      /\ sessions' = saved /\ globalSem' = 0
      /\ leftover' = [s \in Ids |-> IF saved[s] = NoSession THEN 0
                                     ELSE saved[s].active]
      /\ sessionSems' = [s \in Ids |-> 0]
      /\ lease' = [c \in Callers |-> Idle]
      /\ UNCHANGED <<saved, issued, late>>
  BY DEF Crash
<1>2. /\ GlobalHolders' = {}
      /\ \A s : Counted(s)' = {} /\ SessionHolders(s)' = {}
  BY <1>1 DEF GlobalHolders, Counted, SessionHolders, Idle, Counting,
     GlobalHolding, SessionHolding
<1>3. \A s \in Ids : saved[s] # NoSession => saved[s] \in Session
  BY DEF TypeOK
<1>4. TypeOK'
  <2>1. leftover' \in [Ids -> Nat]
    BY <1>1, <1>3 DEF Session
  <2>2. crashes' \in 0 .. MaxCrashes
    BY <1>1, LimitsAssumption DEF TypeOK
  <2> QED
    BY <1>1, <2>1, <2>2 DEF TypeOK, Idle
<1>5. LeaseAccounting'
  <2> SUFFICES ASSUME NEW s \in Ids, Exists(s)'
               PROVE  sessions'[s].active = leftover'[s] + Cardinality(Counted(s)')
    BY DEF LeaseAccounting
  <2>1. Cardinality(Counted(s)') = 0
    BY <1>2, FS_EmptySet
  <2>2. saved[s] \in Session /\ leftover'[s] = saved[s].active
    BY <1>1, <1>3 DEF Exists
  <2> QED
    BY <1>1, <2>1, <2>2 DEF Session
<1>6. SlotAccounting'
  <2>1. Cardinality(GlobalHolders') = 0
    BY <1>2, FS_EmptySet
  <2>2. \A s : Cardinality(SessionHolders(s)') = 0
    BY <1>2, FS_EmptySet
  <2> QED
    BY <1>1, <2>1, <2>2, LimitsAssumption DEF SlotAccounting
<1>7. LeasedSessionExists'
  BY <1>1 DEF LeasedSessionExists, Idle, Counting
<1>8. NoResurrection'
  BY <1>1 DEF NoResurrection, Exists
<1>9. Provenance'
  BY <1>1 DEF Provenance, NoResurrection, Exists, Idle
<1> QED
  BY <1>4, <1>5, <1>6, <1>7, <1>8, <1>9

-----------------------------------------------------------------------------
(* The steps of a goroutine.  MovesTo says that it goes to step r of the   *)
(* protocol and that the channels gain and lose the tokens that go with it.*)

LeaseRecords == [pc : LeaseSteps, id : Ids] \cup {Idle}

MovesTo(c, r) ==
  /\ r \in LeaseRecords
  /\ lease' = [lease EXCEPT ![c] = r]
  /\ globalSem' = globalSem - GlobalOf(lease[c]) + GlobalOf(r)
  /\ globalSem' <= MaximumParallelGlobalExec
  /\ sessionSems' \in [Ids -> Int]
  /\ \A s \in Ids :
       /\ sessionSems'[s] = sessionSems[s] - SessionOf(lease[c], s) + SessionOf(r, s)
       /\ sessionSems'[s] <= MaximumParallelExecPerSession

\* Then the channels are exact again.
LEMMA MoveSlots ==
  ASSUME IInv, NEW c \in Callers, NEW r, MovesTo(c, r)
  PROVE  /\ SlotAccounting'
         /\ globalSem' \in Nat
         /\ sessionSems' \in [Ids -> Nat]
<1> USE DEF IInv
<1>1. globalSem' = Cardinality(GlobalHolders)'
  BY StepCounts DEF MovesTo, SlotAccounting
<1>2. ASSUME NEW s \in Ids
      PROVE  sessionSems'[s] = Cardinality(SessionHolders(s))'
  <2>1. sessionSems'[s] = sessionSems[s]
           - SessionOf(lease[c], s)
           + SessionOf(r, s)
    BY DEF MovesTo
  <2>2. Cardinality(SessionHolders(s))' = Cardinality(SessionHolders(s))
           - SessionOf(lease[c], s)
           + SessionOf(r, s)
    <3>1. TypeOK /\ lease' = [lease EXCEPT ![c] = r]
      BY DEF MovesTo
    <3> HIDE DEF IInv
    <3> QED
      BY <3>1, StepCounts
  <2>3. sessionSems[s] = Cardinality(SessionHolders(s))
    BY DEF SlotAccounting
  <2> HIDE DEF IInv
  <2> QED
    BY <2>1, <2>2, <2>3
<1>3. GlobalHolders' \subseteq Callers /\ \A s : SessionHolders(s)' \subseteq Callers
  BY DEF GlobalHolders, SessionHolders
<1>4. /\ Cardinality(GlobalHolders)' \in Nat
      /\ \A s : Cardinality(SessionHolders(s))' \in Nat
  BY <1>3, NamesAssumption, FS_Subset, FS_CardinalityType
<1> QED
  BY <1>1, <1>2, <1>4 DEF MovesTo, SlotAccounting

\* A step that leaves the records alone and the goroutine counted where it
\* was, if it was, keeps everything.
LEMMA MoveKeeps ==
  ASSUME IInv, NEW c \in Callers, NEW r, MovesTo(c, r),
         UNCHANGED <<sessions, saved, issued, late, leftover, crashes>>,
         \A s : (r.pc \in Counting /\ r.id = s)
                  <=> (lease[c].pc \in Counting /\ lease[c].id = s),
         r = Idle \/ (r.id = lease[c].id /\ lease[c] # Idle)
  PROVE  IInv'
<1> USE DEF IInv
<1>1. lease' = [lease EXCEPT ![c] = r] /\ r \in LeaseRecords
  BY DEF MovesTo
<1>2. TypeOK'
  BY <1>1, MoveSlots DEF TypeOK, LeaseRecords, Idle
<1>3. ASSUME NEW s
      PROVE  Cardinality(Counted(s))' = Cardinality(Counted(s))
  <2>1. Cardinality(Counted(s))' = Cardinality(Counted(s))
           - CountOf(lease[c], s)
           + CountOf(r, s)
    BY <1>1, StepCounts
  <2>2. CountOf(r, s)
          = CountOf(lease[c], s)
    BY DEF CountOf, Bit
  <2>3. Cardinality(Counted(s)) \in Nat /\ CountOf(lease[c], s) \in Nat
    BY HoldersFinite DEF CountOf, Bit
  <2> QED
    BY <2>1, <2>2, <2>3
<1>4. LeaseAccounting'
  BY <1>3 DEF LeaseAccounting, Exists
<1>5. LeasedSessionExists'
  BY <1>1 DEF LeasedSessionExists, Exists, TypeOK
<1>6. NoResurrection'
  BY DEF NoResurrection, Exists
<1>7. Provenance'
  BY <1>1 DEF Provenance, Exists, TypeOK, Idle
<1> QED
  BY <1>2, <1>4, <1>5, <1>6, <1>7, MoveSlots

\* A step within the protocol, and the last one.
LEMMA StepMoves ==
  ASSUME TypeOK, NEW c \in Callers, NEW from \in LeaseSteps, NEW to \in LeaseSteps,
         Step(c, from, to)
  PROVE  /\ lease[c].pc = from /\ lease[c].id \in Ids /\ lease[c] # Idle
         /\ lease' = [lease EXCEPT ![c] = [pc |-> to, id |-> lease[c].id]]
         /\ [pc |-> to, id |-> lease[c].id] \in LeaseRecords
<1>1. lease[c] \in [pc : LeaseSteps, id : Ids] /\ lease[c].pc = from
  BY DEF Step, TypeOK, Idle, LeaseSteps
<1>2. [lease[c] EXCEPT !.pc = to] = [pc |-> to, id |-> lease[c].id]
  BY <1>1
<1>3. lease' = [lease EXCEPT ![c] = [lease[c] EXCEPT !.pc = to]]
  BY DEF Step
<1>4. lease[c] # Idle
  BY <1>1 DEF Idle, LeaseSteps
<1> QED
  BY <1>1, <1>2, <1>3, <1>4 DEF LeaseRecords

LEMMA DoneMoves ==
  ASSUME TypeOK, NEW c \in Callers, NEW from \in LeaseSteps, Done(c, from)
  PROVE  /\ lease[c].pc = from /\ lease[c].id \in Ids
         /\ lease' = [lease EXCEPT ![c] = Idle]
         /\ Idle \in LeaseRecords
BY DEF Done, TypeOK, Idle, LeaseSteps, LeaseRecords

\* The steps that wait, are admitted, are cancelled, or give tokens back: the
\* goroutine stays counted until the step that takes its count.
LEMMA ProtocolKeeps ==
  ASSUME IInv, NEW c \in Callers,
         \/ AcquireGlobal(c) \/ CancelAtGlobal(c)
         \/ AcquireSession(c) \/ CancelAtSession(c)
         \/ Admit(c) \/ DropSession(c) \/ DropGlobal(c)
         \/ Release(c) \/ FreeGlobal(c)
  PROVE  IInv'
<1> DEFINE at(pc) == [pc |-> pc, id |-> lease[c].id]
<1> USE DEF IInv, records, slots, history
<1>1. \A s \in Ids : /\ sessionSems[s] \in Nat
                     /\ sessionSems[s] <= MaximumParallelExecPerSession
  BY DEF TypeOK, SlotAccounting
<1>2. /\ globalSem \in Nat /\ globalSem <= MaximumParallelGlobalExec
      /\ sessionSems \in [Ids -> Nat]
  BY DEF TypeOK, SlotAccounting
<1>3. /\ MaximumParallelGlobalExec \in Nat
      /\ MaximumParallelExecPerSession \in Nat
  BY LimitsAssumption
<1> HIDE DEF IInv
<1>a. CASE AcquireGlobal(c)
  <2>1. /\ Step(c, "global", "session")
        /\ globalSem < MaximumParallelGlobalExec
        /\ globalSem' = globalSem + 1
        /\ UNCHANGED <<sessions, saved, issued, late, sessionSems, leftover, crashes>>
    BY <1>a DEF AcquireGlobal
  <2>2. /\ lease[c].pc = "global" /\ lease[c] # Idle
        /\ lease' = [lease EXCEPT ![c] = at("session")]
        /\ at("session") \in LeaseRecords
    BY <2>1, StepMoves DEF LeaseSteps, IInv
  <2>3. MovesTo(c, at("session"))
    BY <1>1, <1>2, <1>3, <2>1, <2>2
       DEF MovesTo, GlobalOf, SessionOf, Bit, GlobalHolding, SessionHolding
  <2>4. \A s : (at("session").pc \in Counting /\ at("session").id = s)
                 <=> (lease[c].pc \in Counting /\ lease[c].id = s)
    BY <2>2 DEF Counting
  <2> QED
    BY <2>1, <2>2, <2>3, <2>4, MoveKeeps
<1>b. CASE CancelAtGlobal(c)
  <2>1. /\ Step(c, "global", "uncount")
        /\ UNCHANGED <<sessions, saved, issued, late, globalSem, sessionSems,
                       leftover, crashes>>
    BY <1>b DEF CancelAtGlobal
  <2>2. /\ lease[c].pc = "global" /\ lease[c] # Idle /\ lease[c].id \in Ids
        /\ lease' = [lease EXCEPT ![c] = at("uncount")]
        /\ at("uncount") \in LeaseRecords
    BY <2>1, StepMoves DEF LeaseSteps, IInv
  <2>3. MovesTo(c, at("uncount"))
    BY <1>1, <1>2, <1>3, <2>1, <2>2
       DEF MovesTo, GlobalOf, SessionOf, Bit, GlobalHolding, SessionHolding
  <2>4. \A s : (at("uncount").pc \in Counting /\ at("uncount").id = s)
                 <=> (lease[c].pc \in Counting /\ lease[c].id = s)
    BY <2>2 DEF Counting
  <2> QED
    BY <2>1, <2>2, <2>3, <2>4, MoveKeeps
<1>c. CASE AcquireSession(c)
  <2>1. /\ Step(c, "session", "recheck")
        /\ sessionSems[lease[c].id] < MaximumParallelExecPerSession
        /\ sessionSems' = [sessionSems EXCEPT ![lease[c].id] = @ + 1]
        /\ UNCHANGED <<sessions, saved, issued, late, globalSem, leftover, crashes>>
    BY <1>c DEF AcquireSession
  <2>2. /\ lease[c].pc = "session" /\ lease[c] # Idle /\ lease[c].id \in Ids
        /\ lease' = [lease EXCEPT ![c] = at("recheck")]
        /\ at("recheck") \in LeaseRecords
    BY <2>1, StepMoves DEF LeaseSteps, IInv
  <2>3. MovesTo(c, at("recheck"))
    BY <1>1, <1>2, <1>3, <2>1, <2>2
       DEF MovesTo, GlobalOf, SessionOf, Bit, GlobalHolding, SessionHolding
  <2>4. \A s : (at("recheck").pc \in Counting /\ at("recheck").id = s)
                 <=> (lease[c].pc \in Counting /\ lease[c].id = s)
    BY <2>2 DEF Counting
  <2> QED
    BY <2>1, <2>2, <2>3, <2>4, MoveKeeps
<1>d. CASE CancelAtSession(c)
  <2>1. /\ Step(c, "session", "freeGlobal")
        /\ UNCHANGED <<sessions, saved, issued, late, globalSem, sessionSems,
                       leftover, crashes>>
    BY <1>d DEF CancelAtSession
  <2>2. /\ lease[c].pc = "session" /\ lease[c] # Idle /\ lease[c].id \in Ids
        /\ lease' = [lease EXCEPT ![c] = at("freeGlobal")]
        /\ at("freeGlobal") \in LeaseRecords
    BY <2>1, StepMoves DEF LeaseSteps, IInv
  <2>3. MovesTo(c, at("freeGlobal"))
    BY <1>1, <1>2, <1>3, <2>1, <2>2
       DEF MovesTo, GlobalOf, SessionOf, Bit, GlobalHolding, SessionHolding
  <2>4. \A s : (at("freeGlobal").pc \in Counting /\ at("freeGlobal").id = s)
                 <=> (lease[c].pc \in Counting /\ lease[c].id = s)
    BY <2>2 DEF Counting
  <2> QED
    BY <2>1, <2>2, <2>3, <2>4, MoveKeeps
<1>e. CASE Admit(c)
  <2>1. /\ Step(c, "recheck", "held")
        /\ UNCHANGED <<sessions, saved, issued, late, globalSem, sessionSems,
                       leftover, crashes>>
    BY <1>e DEF Admit
  <2>2. /\ lease[c].pc = "recheck" /\ lease[c] # Idle /\ lease[c].id \in Ids
        /\ lease' = [lease EXCEPT ![c] = at("held")]
        /\ at("held") \in LeaseRecords
    BY <2>1, StepMoves DEF LeaseSteps, IInv
  <2>3. MovesTo(c, at("held"))
    BY <1>1, <1>2, <1>3, <2>1, <2>2
       DEF MovesTo, GlobalOf, SessionOf, Bit, GlobalHolding, SessionHolding
  <2>4. \A s : (at("held").pc \in Counting /\ at("held").id = s)
                 <=> (lease[c].pc \in Counting /\ lease[c].id = s)
    BY <2>2 DEF Counting
  <2> QED
    BY <2>1, <2>2, <2>3, <2>4, MoveKeeps
<1>f. CASE DropSession(c)
  <2>1. /\ Step(c, "dropSession", "dropGlobal")
        /\ sessionSems' = [sessionSems EXCEPT ![lease[c].id] = @ - 1]
        /\ UNCHANGED <<sessions, saved, issued, late, globalSem, leftover, crashes>>
    BY <1>f DEF DropSession, FreeSessionSlot
  <2>2. /\ lease[c].pc = "dropSession" /\ lease[c] # Idle /\ lease[c].id \in Ids
        /\ lease' = [lease EXCEPT ![c] = at("dropGlobal")]
        /\ at("dropGlobal") \in LeaseRecords
    BY <2>1, StepMoves DEF LeaseSteps, IInv
  <2>3. MovesTo(c, at("dropGlobal"))
    <3>1. sessionSems[lease[c].id] >= 1
      BY <2>2, PresentCounts DEF SessionHolding, IInv, SlotAccounting
    <3> QED
      BY <1>1, <1>2, <1>3, <2>1, <2>2, <3>1
         DEF MovesTo, GlobalOf, SessionOf, Bit, GlobalHolding, SessionHolding
  <2>4. \A s : (at("dropGlobal").pc \in Counting /\ at("dropGlobal").id = s)
                 <=> (lease[c].pc \in Counting /\ lease[c].id = s)
    BY <2>2 DEF Counting
  <2> QED
    BY <2>1, <2>2, <2>3, <2>4, MoveKeeps
<1>g. CASE Release(c)
  <2>1. /\ Step(c, "held", "freeGlobal")
        /\ sessionSems' = [sessionSems EXCEPT ![lease[c].id] = @ - 1]
        /\ UNCHANGED <<sessions, saved, issued, late, globalSem, leftover, crashes>>
    BY <1>g DEF Release, FreeSessionSlot
  <2>2. /\ lease[c].pc = "held" /\ lease[c] # Idle /\ lease[c].id \in Ids
        /\ lease' = [lease EXCEPT ![c] = at("freeGlobal")]
        /\ at("freeGlobal") \in LeaseRecords
    BY <2>1, StepMoves DEF LeaseSteps, IInv
  <2>3. MovesTo(c, at("freeGlobal"))
    <3>1. sessionSems[lease[c].id] >= 1
      BY <2>2, PresentCounts DEF SessionHolding, IInv, SlotAccounting
    <3> QED
      BY <1>1, <1>2, <1>3, <2>1, <2>2, <3>1
         DEF MovesTo, GlobalOf, SessionOf, Bit, GlobalHolding, SessionHolding
  <2>4. \A s : (at("freeGlobal").pc \in Counting /\ at("freeGlobal").id = s)
                 <=> (lease[c].pc \in Counting /\ lease[c].id = s)
    BY <2>2 DEF Counting
  <2> QED
    BY <2>1, <2>2, <2>3, <2>4, MoveKeeps
<1>h. CASE FreeGlobal(c)
  <2>1. /\ Step(c, "freeGlobal", "uncount")
        /\ globalSem' = globalSem - 1
        /\ UNCHANGED <<sessions, saved, issued, late, sessionSems, leftover, crashes>>
    BY <1>h DEF FreeGlobal
  <2>2. /\ lease[c].pc = "freeGlobal" /\ lease[c] # Idle /\ lease[c].id \in Ids
        /\ lease' = [lease EXCEPT ![c] = at("uncount")]
        /\ at("uncount") \in LeaseRecords
    BY <2>1, StepMoves DEF LeaseSteps, IInv
  <2>3. MovesTo(c, at("uncount"))
    BY <1>1, <1>2, <1>3, <2>1, <2>2
       DEF MovesTo, GlobalOf, SessionOf, Bit, GlobalHolding, SessionHolding
  <2>4. \A s : (at("uncount").pc \in Counting /\ at("uncount").id = s)
                 <=> (lease[c].pc \in Counting /\ lease[c].id = s)
    BY <2>2 DEF Counting
  <2> QED
    BY <2>1, <2>2, <2>3, <2>4, MoveKeeps
<1>i. CASE DropGlobal(c)
  <2>1. /\ Done(c, "dropGlobal")
        /\ globalSem' = globalSem - 1
        /\ UNCHANGED <<sessions, saved, issued, late, sessionSems, leftover, crashes>>
    BY <1>i DEF DropGlobal
  <2>2. /\ lease[c].pc = "dropGlobal"
        /\ lease' = [lease EXCEPT ![c] = Idle]
        /\ Idle \in LeaseRecords
    BY <2>1, DoneMoves DEF LeaseSteps, IInv
  <2>3. MovesTo(c, Idle)
    BY <1>1, <1>2, <1>3, <2>1, <2>2
       DEF MovesTo, GlobalOf, SessionOf, Bit, GlobalHolding, SessionHolding, Idle
  <2>4. \A s : (Idle.pc \in Counting /\ Idle.id = s)
                 <=> (lease[c].pc \in Counting /\ lease[c].id = s)
    BY <2>2 DEF Counting, Idle
  <2> QED
    BY <2>1, <2>3, <2>4, MoveKeeps
<1> QED
  BY <1>a, <1>b, <1>c, <1>d, <1>e, <1>f, <1>g, <1>h, <1>i

\* The goroutine's step also rewrites the record of its session, and moves its
\* count by what the goroutine gains or loses.
CountsTo(c, r, s, rec) ==
  /\ MovesTo(c, r)
  /\ Exists(s)
  /\ rec \in Session
  /\ rec.active = sessions[s].active - CountOf(lease[c], s) + CountOf(r, s)
  /\ sessions' = [sessions EXCEPT ![s] = rec]
  /\ saved' \in [Ids -> Session \cup {NoSession}]
  /\ \A x \in Ids : x # s => saved'[x] = saved[x]
  /\ UNCHANGED <<issued, late, leftover, crashes>>
  /\ \A x \in Ids : x # s => CountOf(r, x) = CountOf(lease[c], x)
  /\ r = Idle \/ r.id = s

\* Such a step keeps everything.
LEMMA CountedMoveKeeps ==
  ASSUME IInv, NEW c \in Callers, NEW r, NEW s \in Ids, NEW rec,
         CountsTo(c, r, s, rec)
  PROVE  IInv'
<1>0. TypeOK /\ lease' = [lease EXCEPT ![c] = r]
  BY DEF IInv, CountsTo, MovesTo
<1>a. \A x : Cardinality(Counted(x))' = Cardinality(Counted(x))
               - CountOf(lease[c], x) + CountOf(r, x)
  BY <1>0, StepCounts
<1> USE DEF IInv, CountsTo
<1>1. lease' = [lease EXCEPT ![c] = r] /\ r \in LeaseRecords
  BY DEF MovesTo
<1>2. rec # NoSession
  BY NamesAssumption
<1>3. \A x \in Ids : /\ Exists(x)' <=> Exists(x)
                     /\ x # s => sessions'[x] = sessions[x]
  BY <1>2 DEF Exists, TypeOK
<1>4. sessions'[s] = rec
  BY DEF TypeOK
<1>5. TypeOK'
  BY <1>1, MoveSlots DEF TypeOK, LeaseRecords, Idle
<1>6. LeaseAccounting'
  <2> SUFFICES ASSUME NEW x \in Ids, Exists(x)'
               PROVE  sessions'[x].active = leftover[x] + Cardinality(Counted(x))'
    BY DEF LeaseAccounting
  <2>1. Cardinality(Counted(x))' = Cardinality(Counted(x))
           - CountOf(lease[c], x) + CountOf(r, x)
    BY <1>a
  <2>2. sessions[x].active = leftover[x] + Cardinality(Counted(x))
    BY <1>3 DEF LeaseAccounting
  <2>3. /\ Cardinality(Counted(x)) \in Nat /\ leftover[x] \in Nat
        /\ CountOf(lease[c], x) \in {0, 1} /\ CountOf(r, x) \in {0, 1}
    BY HoldersFinite DEF TypeOK, CountOf, Bit
  <2>4. CASE x = s
    BY <1>4, <2>1, <2>2, <2>3, <2>4
  <2>5. CASE x # s
    BY <1>3, <2>1, <2>2, <2>3, <2>5
  <2> QED
    BY <2>4, <2>5
<1>7. LeasedSessionExists'
  <2> SUFFICES ASSUME NEW d \in Callers, lease'[d].pc \in Counting
               PROVE  Exists(lease[d].id)'
    BY DEF LeasedSessionExists
  <2>1. CASE d = c
    <3>1. lease'[d] = r
      BY <1>1, <2>1 DEF TypeOK
    <3> QED
      BY <1>3, <3>1 DEF Idle, Counting, Exists
  <2>2. CASE d # c
    <3>1. lease'[d] = lease[d] /\ lease[d].id \in Ids
      BY <1>1, <2>2 DEF TypeOK, Idle, Counting
    <3> QED
      BY <1>3, <3>1 DEF LeasedSessionExists, Exists
  <2> QED
    BY <2>1, <2>2
<1>8. NoResurrection'
  BY <1>3 DEF NoResurrection
<1>9. Provenance'
  <2>1. s \in issued
    BY DEF Provenance
  <2>2. \A d \in Callers : lease'[d] = IF d = c THEN r ELSE lease[d]
    BY <1>1 DEF TypeOK
  <2> QED
    BY <1>3, <2>1, <2>2 DEF Provenance
<1> QED
  BY <1>5, <1>6, <1>7, <1>8, <1>9, MoveSlots

\* A request that is let in is counted from then on.
LEMMA ReserveKeeps ==
  ASSUME IInv, NEW c \in Callers, NEW s \in Ids, Reserve(c, s)
  PROVE  IInv'
<1> DEFINE r == [pc |-> "global", id |-> s]
           rec == [sessions[s] EXCEPT !.active = @ + 1]
<1>1. /\ Exists(s) /\ lease[c] = Idle
      /\ lease' = [lease EXCEPT ![c] = r]
      /\ sessions' = [sessions EXCEPT ![s] = rec]
      /\ Save(s, rec, {})
      /\ UNCHANGED <<issued, late, globalSem, sessionSems, leftover, crashes>>
  BY DEF Reserve, Admissible, Put, slots, history
<1>2. sessions[s] \in Session /\ rec \in Session
      /\ rec.active = sessions[s].active + 1
  BY <1>1 DEF IInv, TypeOK, Exists, Session
<1>3. /\ saved' \in [Ids -> Session \cup {NoSession}]
      /\ \A x \in Ids : x # s => saved'[x] = saved[x]
  BY <1>1, <1>2, SaveEffect DEF IInv, TypeOK
<1>4. /\ \A x : CountOf(lease[c], x) = 0
      /\ \A x : CountOf(r, x) = IF x = s THEN 1 ELSE 0
  BY <1>1 DEF CountOf, Bit, Idle, Counting
<1>5. MovesTo(c, r)
  <2>1. /\ globalSem \in Nat /\ globalSem <= MaximumParallelGlobalExec
        /\ sessionSems \in [Ids -> Nat]
        /\ \A x \in Ids : sessionSems[x] <= MaximumParallelExecPerSession
    BY DEF IInv, TypeOK, SlotAccounting
  <2>2. r \in LeaseRecords
    BY DEF LeaseRecords, LeaseSteps
  <2>3. /\ GlobalOf(lease[c]) = 0 /\ GlobalOf(r) = 0
        /\ \A x : SessionOf(lease[c], x) = 0 /\ SessionOf(r, x) = 0
    BY <1>1 DEF GlobalOf, SessionOf, Bit, Idle, GlobalHolding, SessionHolding
  <2> QED
    BY <1>1, <2>1, <2>2, <2>3 DEF MovesTo
<1>6. rec.active = sessions[s].active - CountOf(lease[c], s) + CountOf(r, s)
  BY <1>2, <1>4 DEF Session
<1>8. \A x \in Ids : x # s => CountOf(r, x) = CountOf(lease[c], x)
  BY <1>4
<1>7. r.id = s
  OBVIOUS
<1>9. CountsTo(c, r, s, rec)
  BY <1>1, <1>2, <1>3, <1>5, <1>6, <1>7, <1>8 DEF CountsTo
<1> HIDE DEF r, rec
<1> QED
  BY <1>9, CountedMoveKeeps

\* A goroutine that is counted has a record to be counted in, above zero.
LEMMA CountedRecord ==
  ASSUME IInv, NEW c \in Callers, lease[c].pc \in Counting, lease[c].id \in Ids
  PROVE  /\ Exists(lease[c].id)
         /\ sessions[lease[c].id] \in Session
         /\ sessions[lease[c].id].active \in Nat \ {0}
<1>1. Exists(lease[c].id)
  BY DEF IInv, LeasedSessionExists
<1>2. sessions[lease[c].id] \in Session
  BY <1>1 DEF IInv, TypeOK, Exists
<1>3. /\ Cardinality(Counted(lease[c].id)) \in Nat
      /\ Cardinality(Counted(lease[c].id)) >= 1
  BY PresentCounts, HoldersFinite
<1>4. leftover[lease[c].id] \in Nat
  BY DEF IInv, TypeOK
<1> QED
  BY <1>1, <1>2, <1>3, <1>4 DEF IInv, LeaseAccounting, Session

\* A denied request gives its count back, to the record that is still there.
LEMMA RefuseKeeps ==
  ASSUME IInv, NEW c \in Callers, Refuse(c)
  PROVE  IInv'
<1> DEFINE s == lease[c].id
           old == sessions[s]
           rec == [Aged(s) EXCEPT !.active = @ - 1]
           r == [pc |-> "dropSession", id |-> s]
<1>1. Step(c, "recheck", "dropSession") /\ TypeOK
  BY DEF Refuse, IInv
<1>2. /\ lease[c].pc = "recheck" /\ s \in Ids
      /\ lease' = [lease EXCEPT ![c] = r]
      /\ r \in LeaseRecords
  BY <1>1, StepMoves DEF LeaseSteps
<1>3. Exists(s) /\ old \in Session /\ old.active \in Nat \ {0}
  BY <1>2, CountedRecord DEF Counting
<1>4. /\ sessions' = [sessions EXCEPT ![s] = rec]
      /\ Save(s, rec, IF Overdue(s) THEN {Aged(s)} ELSE {})
      /\ UNCHANGED <<issued, late, globalSem, sessionSems, leftover, crashes>>
  BY <1>3 DEF Refuse, slots, history
<1>5. /\ Aged(s) \in Session /\ Aged(s).active = old.active
      /\ rec \in Session /\ rec.active = old.active - 1
  BY <1>3 DEF Aged, Session, Statuses
<1>6. /\ saved' \in [Ids -> Session \cup {NoSession}]
      /\ \A x \in Ids : x # s => saved'[x] = saved[x]
  <2>1. (IF Overdue(s) THEN {Aged(s)} ELSE {}) \in SUBSET Session
    BY <1>5
  <2> QED
    BY <1>1, <1>2, <1>4, <1>5, <2>1, SaveEffect DEF TypeOK
<1>7. /\ \A x : CountOf(lease[c], x) = IF x = s THEN 1 ELSE 0
      /\ \A x : CountOf(r, x) = 0
  BY <1>2 DEF CountOf, Bit, Counting
<1>8. MovesTo(c, r)
  <2>1. /\ globalSem \in Nat /\ globalSem <= MaximumParallelGlobalExec
        /\ sessionSems \in [Ids -> Nat]
        /\ \A x \in Ids : sessionSems[x] <= MaximumParallelExecPerSession
    BY DEF IInv, TypeOK, SlotAccounting
  <2>2. /\ GlobalOf(lease[c]) = 1 /\ GlobalOf(r) = 1
        /\ \A x : /\ SessionOf(lease[c], x) \in {0, 1}
                  /\ SessionOf(r, x) = SessionOf(lease[c], x)
    BY <1>2 DEF GlobalOf, SessionOf, Bit, GlobalHolding, SessionHolding
  <2> QED
    BY <1>2, <1>4, <2>1, <2>2 DEF MovesTo
<1>9. CountsTo(c, r, s, rec)
  <2>1. rec.active = sessions[s].active - CountOf(lease[c], s) + CountOf(r, s)
    BY <1>3, <1>5, <1>7
  <2> QED
    BY <1>3, <1>4, <1>5, <1>6, <1>7, <1>8, <2>1 DEF CountsTo
<1> HIDE DEF s, old, rec, r
<1> QED
  BY <1>2, <1>9, CountedMoveKeeps

\* The last step of a release and of a cancelled wait takes the count away;
\* it is never zero already, so the guard against that never matters.
LEMMA UncountKeeps ==
  ASSUME IInv, NEW c \in Callers, Uncount(c)
  PROVE  IInv'
<1> DEFINE s == lease[c].id
           old == sessions[s]
           rec == [old EXCEPT !.active = IF @ > 0 THEN @ - 1 ELSE 0]
<1>1. Done(c, "uncount") /\ TypeOK
  BY DEF Uncount, IInv
<1>2. /\ lease[c].pc = "uncount" /\ s \in Ids
      /\ lease' = [lease EXCEPT ![c] = Idle]
      /\ Idle \in LeaseRecords
  BY <1>1, DoneMoves DEF LeaseSteps
<1>3. Exists(s) /\ old \in Session /\ old.active \in Nat \ {0}
  BY <1>2, CountedRecord DEF Counting
<1>4. /\ sessions' = [sessions EXCEPT ![s] = rec]
      /\ Save(s, rec, {})
      /\ UNCHANGED <<issued, late, globalSem, sessionSems, leftover, crashes>>
  BY <1>3 DEF Uncount, Put, slots, history
<1>5. rec \in Session /\ rec.active = old.active - 1
  BY <1>3 DEF Session
<1>6. /\ saved' \in [Ids -> Session \cup {NoSession}]
      /\ \A x \in Ids : x # s => saved'[x] = saved[x]
  BY <1>1, <1>2, <1>4, <1>5, SaveEffect DEF TypeOK
<1>7. /\ \A x : CountOf(lease[c], x) = IF x = s THEN 1 ELSE 0
      /\ \A x : CountOf(Idle, x) = 0
  BY <1>2 DEF CountOf, Bit, Counting, Idle
<1>8. MovesTo(c, Idle)
  <2>1. /\ globalSem \in Nat /\ globalSem <= MaximumParallelGlobalExec
        /\ sessionSems \in [Ids -> Nat]
        /\ \A x \in Ids : sessionSems[x] <= MaximumParallelExecPerSession
    BY DEF IInv, TypeOK, SlotAccounting
  <2>2. /\ GlobalOf(lease[c]) = 0 /\ GlobalOf(Idle) = 0
        /\ \A x : SessionOf(lease[c], x) = 0 /\ SessionOf(Idle, x) = 0
    BY <1>2 DEF GlobalOf, SessionOf, Bit, GlobalHolding, SessionHolding, Idle
  <2> QED
    BY <1>2, <1>4, <2>1, <2>2 DEF MovesTo
<1>9. CountsTo(c, Idle, s, rec)
  <2>1. rec.active = sessions[s].active - CountOf(lease[c], s) + CountOf(Idle, s)
    BY <1>3, <1>5, <1>7
  <2> QED
    BY <1>3, <1>4, <1>5, <1>6, <1>7, <1>8, <2>1 DEF CountsTo
<1> HIDE DEF s, old, rec
<1> QED
  BY <1>2, <1>9, CountedMoveKeeps

-----------------------------------------------------------------------------
(* IInv is an inductive invariant.                                         *)

\* It holds of an empty state directory.
LEMMA InitEstablishes ==
  ASSUME Init
  PROVE  IInv
<1>1. GlobalHolders = {} /\ \A s : Counted(s) = {} /\ SessionHolders(s) = {}
  BY DEF Init, GlobalHolders, Counted, SessionHolders, Idle, Counting,
     GlobalHolding, SessionHolding
<1>2. Cardinality({}) = 0
  BY FS_EmptySet
<1>3. TypeOK
  BY LimitsAssumption DEF Init, TypeOK
<1>4. SlotAccounting
  BY <1>1, <1>2, LimitsAssumption DEF Init, SlotAccounting
<1>5. LeaseAccounting /\ LeasedSessionExists /\ NoResurrection /\ Provenance
  BY DEF Init, LeaseAccounting, LeasedSessionExists, NoResurrection, Provenance,
     Exists, Idle, Counting
<1> QED
  BY <1>3, <1>4, <1>5 DEF IInv

\* Every method that runs under the lock keeps it.
LEMMA ManagerCallKeeps ==
  ASSUME IInv, NEW s \in Ids, ManagerCall(s)
  PROVE  IInv'
<1>1. Exists(s) => sessions[s] \in Session
  BY DEF IInv, TypeOK, Exists
<1>2. CASE Transition(s, "created", "starting")
  <2>1. [sessions[s] EXCEPT !.status = "starting"] \in Session
    BY <1>1, <1>2 DEF Transition, Session, Statuses
  <2> QED
    BY <1>1, <1>2, <2>1, TouchKeeps DEF Transition, Session
<1>3. CASE MarkReady(s)
  <2>1. [sessions[s] EXCEPT !.status = "ready", !.snap = TRUE] \in Session
    BY <1>1, <1>3 DEF MarkReady, Touch, Session, Statuses
  <2> QED
    BY <1>1, <1>3, <2>1, TouchKeeps DEF MarkReady, Touch, Session
<1>4. CASE RecordCleanupFailure(s)
  <2>1. [sessions[s] EXCEPT !.status = "cleanup-failed"] \in Session
    BY <1>1, <1>4 DEF RecordCleanupFailure, Touch, Session, Statuses
  <2> QED
    BY <1>1, <1>4, <2>1, TouchKeeps DEF RecordCleanupFailure, Touch, Session
<1>5. CASE BeginStopping(s)
  <2>1. [sessions[s] EXCEPT !.status = "stopping"] \in Session
    BY <1>1, <1>5 DEF BeginStopping, Touch, Session, Statuses
  <2> QED
    BY <1>1, <1>5, <2>1, TouchKeeps DEF BeginStopping, Touch, Session
<1> QED
  BY <1>2, <1>3, <1>4, <1>5, CreateKeeps, CreateFailsKeeps, GetSessionKeeps,
     RemoveSessionKeeps, RemoveFailsKeeps DEF ManagerCall

\* Every step of a goroutine in AcquireExecLease or in release keeps it.
LEMMA LeaseStepKeeps ==
  ASSUME IInv, NEW c \in Callers, LeaseStep(c)
  PROVE  IInv'
<1>1. CASE \E s \in Ids : Reserve(c, s) \/ RefuseReservation(c, s)
  BY <1>1, ReserveKeeps, GetSessionKeeps DEF RefuseReservation
<1>2. CASE CancelAtGlobal(c) \/ CancelAtSession(c)
  BY <1>2, ProtocolKeeps
<1>3. CASE LeaseProgress(c)
  BY <1>3, ProtocolKeeps, RefuseKeeps, UncountKeeps DEF LeaseProgress
<1> QED
  BY <1>1, <1>2, <1>3 DEF LeaseStep

\* So does every step of the module.
LEMMA NextKeeps ==
  ASSUME IInv, [Next]_vars
  PROVE  IInv'
<1>1. CASE \E s \in Ids : ManagerCall(s) \/ DeadlinePasses(s)
  BY <1>1, ManagerCallKeeps, DeadlineKeeps
<1>2. CASE ListSessions
  BY <1>2, ListSessionsKeeps
<1>3. CASE \E c \in Callers : LeaseStep(c)
  BY <1>3, LeaseStepKeeps
<1>4. CASE Crash
  BY <1>4, CrashKeeps
<1>5. CASE UNCHANGED vars
  BY <1>5, StutterKeeps
<1> QED
  BY <1>1, <1>2, <1>3, <1>4, <1>5 DEF Next

\* The invariant of session.go: all that follows is a part of it.
THEOREM Invariance == Spec => []IInv
<1>1. Init => IInv
  BY InitEstablishes
<1>2. IInv /\ [Next]_vars => IInv'
  BY NextKeeps
<1> QED
  BY <1>1, <1>2, PTL DEF Spec

\* Every variable keeps its type; in particular the channels never hold a
\* negative number of tokens and ActiveExecCount never goes below zero.
THEOREM TypeCorrect == Spec => []TypeOK
<1>1. IInv => TypeOK
  BY DEF IInv
<1> QED
  BY <1>1, Invariance, PTL

\* ActiveExecCount is exact, with any number of goroutines, crashes and failed
\* writes: what decrementExecCount guards against (a count at zero) cannot be.
THEOREM LeasesCounted == Spec => []LeaseAccounting
<1>1. IInv => LeaseAccounting
  BY DEF IInv
<1> QED
  BY <1>1, Invariance, PTL

\* No path through AcquireExecLease and release leaks a slot or frees one
\* twice, and the limits on parallel commands are never exceeded.
THEOREM SlotsCounted == Spec => []SlotAccounting
<1>1. IInv => SlotAccounting
  BY DEF IInv
<1> QED
  BY <1>1, Invariance, PTL

\* RemoveSession never removes a record a goroutine is still counted in.
THEOREM RecordsStay == Spec => []LeasedSessionExists
<1>1. IInv => LeasedSessionExists
  BY DEF IInv
<1> QED
  BY <1>1, Invariance, PTL

\* No failed write leaves the disk knowing a session the controller forgot.
THEOREM NothingResurrected == Spec => []NoResurrection
<1>1. IInv => NoResurrection
  BY DEF IInv
<1> QED
  BY <1>1, Invariance, PTL
=============================================================================
