-------------------------- MODULE TransfersProofs --------------------------
(***************************************************************************)
(* Proofs about what goes into a sandbox and comes out of it, for any      *)
(* files, contents, limits, deployments and numbers of helpers.            *)
(***************************************************************************)
EXTENDS Transfers, PathsProofs

-----------------------------------------------------------------------------
(* Bounded output.                                                         *)

Buffers(S) == [kept : Seq(S), truncated : BOOLEAN]

\* A buffer that is full keeps what it has.
LEMMA WriteFull ==
  ASSUME NEW S, NEW w \in Buffers(S), NEW limit \in Int, NEW p \in Seq(S),
         limit > 0, limit - Len(w.kept) <= 0
  PROVE  /\ BufferWrite(w, limit, p).kept = w.kept
         /\ BufferWrite(w, limit, p).truncated = TRUE
<1>1. BufferWrite(w, limit, p) = [w EXCEPT !.truncated = TRUE]
  BY DEF BufferWrite
<1> QED
  BY <1>1 DEF Buffers

\* One that has not room for all that is written takes the beginning.
LEMMA WriteCut ==
  ASSUME NEW S, NEW w \in Buffers(S), NEW limit \in Int, NEW p \in Seq(S),
         limit > 0, limit - Len(w.kept) > 0, Len(p) > limit - Len(w.kept)
  PROVE  /\ BufferWrite(w, limit, p).kept
              = w.kept \o SubSeq(p, 1, limit - Len(w.kept))
         /\ BufferWrite(w, limit, p).truncated = TRUE
<1>0. Len(w.kept) \in Nat
  BY DEF Buffers
<1>1. BufferWrite(w, limit, p) =
        [kept |-> w.kept \o SubSeq(p, 1, limit - Len(w.kept)), truncated |-> TRUE]
  BY <1>0 DEF BufferWrite
<1> DEFINE all == w.kept \o SubSeq(p, 1, limit - Len(w.kept))
<1>2. [kept |-> all, truncated |-> TRUE].kept = all
  OBVIOUS
<1>3. [kept |-> all, truncated |-> TRUE].truncated = TRUE
  OBVIOUS
<1> QED
  BY <1>1, <1>2, <1>3, Zenon

\* One that has room, or no limit, takes all.
LEMMA WriteAll ==
  ASSUME NEW S, NEW w \in Buffers(S), NEW limit \in Int, NEW p \in Seq(S), p # << >>,
         limit <= 0 \/ Len(p) <= limit - Len(w.kept)
  PROVE  /\ BufferWrite(w, limit, p).kept = w.kept \o p
         /\ BufferWrite(w, limit, p).truncated = w.truncated
<1>0. Len(w.kept) \in Nat /\ Len(p) \in Nat \ {0}
  BY DEF Buffers
<1>1. BufferWrite(w, limit, p) = [w EXCEPT !.kept = @ \o p]
  BY <1>0 DEF BufferWrite
<1> QED
  BY <1>1 DEF Buffers

\* Write keeps exactly the beginning of everything written, and knows whether
\* that is all, over writes of any size, also when a write just fills the
\* buffer and when it comes after that.  (os/exec writes at least one byte.)
LEMMA WriteHolds ==
  ASSUME NEW S, NEW all \in Seq(S), NEW p \in Seq(S), p # << >>, NEW limit \in Int,
         NEW w \in Buffers(S), Holds(w, limit, all)
  PROVE  Holds(BufferWrite(w, limit, p), limit, all \o p)
<1> DEFINE n == Len(all)
           remaining == limit - Len(w.kept)
           r == BufferWrite(w, limit, p)
<1>0. /\ n \in Nat /\ Len(p) \in Nat \ {0} /\ all \o p \in Seq(S)
      /\ Len(all \o p) = n + Len(p)
  OBVIOUS
<1>1. CASE limit <= 0
  <2>1. r.kept = w.kept \o p /\ r.truncated = w.truncated
    BY <1>1, WriteAll
  <2>2. w.kept = all /\ ~ w.truncated
    BY <1>1 DEF Holds
  <2>3. ~ r.truncated
    BY <2>1, <2>2, Zenon
  <2> QED
    BY <1>1, <2>1, <2>2, <2>3 DEF Holds
<1>2. CASE limit > 0 /\ n >= limit
  <2>1. w.kept = SubSeq(all, 1, limit) /\ Len(w.kept) = limit
    BY <1>0, <1>2 DEF Holds, Lesser
  <2>2. SubSeq(all \o p, 1, limit) = SubSeq(all, 1, limit)
    <3>1. \A i \in 1 .. limit : (all \o p)[i] = all[i]
      BY <1>0, <1>2
    <3> QED
      BY <1>0, <1>2, <3>1
  <2>3. r.kept = w.kept /\ r.truncated = TRUE
    <3>1. limit > 0 /\ limit - Len(w.kept) <= 0
      BY <1>2, <2>1
    <3> QED
      BY <3>1, WriteFull, Zenon
  <2>4. Lesser(Len(all \o p), limit) = limit /\ Len(all \o p) > limit
    BY <1>0, <1>2 DEF Lesser
  <2> QED
    BY <1>2, <2>1, <2>2, <2>3, <2>4 DEF Holds
<1>3. CASE limit > 0 /\ n < limit
  <2>1. w.kept = all /\ ~ w.truncated
    BY <1>0, <1>3 DEF Holds, Lesser
  <2>2. CASE Len(p) > remaining
    <3>1. r.kept = all \o SubSeq(p, 1, remaining) /\ r.truncated = TRUE
      <4>1. limit > 0 /\ limit - Len(w.kept) > 0 /\ Len(p) > limit - Len(w.kept)
        BY <1>0, <1>3, <2>1, <2>2
      <4> QED
        BY <4>1, <2>1, WriteCut, Zenon
    <3>2. all \o SubSeq(p, 1, remaining) = SubSeq(all \o p, 1, limit)
      BY <1>0, <1>3, <2>1, <2>2
    <3>3. Lesser(Len(all \o p), limit) = limit /\ Len(all \o p) > limit
      BY <1>0, <1>3, <2>1, <2>2 DEF Lesser
    <3> QED
      BY <1>3, <3>1, <3>2, <3>3 DEF Holds
  <2>3. CASE Len(p) <= remaining
    <3>1. r.kept = all \o p /\ r.truncated = w.truncated
      BY <1>0, <1>3, <2>1, <2>3, WriteAll
    <3>2. all \o p = SubSeq(all \o p, 1, Len(all \o p))
      BY <1>0
    <3>3. Lesser(Len(all \o p), limit) = Len(all \o p) /\ ~ Len(all \o p) > limit
      BY <1>0, <1>3, <2>1, <2>3 DEF Lesser
    <3> QED
      BY <1>3, <2>1, <3>1, <3>2, <3>3 DEF Holds
  <2> QED
    BY <1>0, <1>3, <2>1, <2>2, <2>3
<1> QED
  BY <1>1, <1>2, <1>3

-----------------------------------------------------------------------------
ConfigOK == config \in Deployable(Deployments)

\* What a controller goes by is a valid configuration, from start to restart.
LEMMA ConfigStays ==
  ASSUME ConfigOK, [Next]_vars
  PROVE  ConfigOK'
BY DEF ConfigOK, Next, vars, controller, outside, Request, WriteFile, ReadFile, ReadRefused,
   ExportFile, HTTPRequest, StartSession, ResetSession, Work, WriteReturns,
   StatReturns, ReadReturns, Refuse, ExportLease, ExportStreamed, Publish,
   HTTPReturns, Restart, HelperActs, AgentWrites, AgentBakes, StopSession, Crash

\* clampTimeout and CreateSession limit the time that a client may choose for
\* an execution or a session, whatever it asks for: Validate lets no configuration through
\* whose default timeout is beyond its maximum.
THEOREM TimesLimited == Spec => []TimeoutsBounded
<1>1. Init => ConfigOK
  BY DEF Init, ConfigOK
<1>2. ConfigOK /\ [Next]_vars => ConfigOK'
  BY ConfigStays
<1>3. ConfigOK => TimeoutsBounded
  <2> SUFFICES ASSUME ConfigOK, NEW t \in -1 .. 3
               PROVE  /\ ClampTimeout(config, t) \in 1 .. config.maximumTimeout
                      /\ ClampTTL(config, t) <= config.maximumTTL
    BY DEF TimeoutsBounded
  <2>1. Valid(config)
    BY DEF ConfigOK, Deployable
  <2>2. /\ config.defaultTimeout \in Int /\ config.maximumTimeout \in Int
        /\ config.defaultTTL \in Int /\ config.maximumTTL \in Int
    BY TransfersAssumption DEF ConfigOK
  <2> QED
    BY <2>1, <2>2 DEF Valid, ClampTimeout, ClampTTL
<1> QED
  BY <1>1, <1>2, <1>3, PTL DEF Spec

-----------------------------------------------------------------------------
(* Grants.                                                                 *)

\* The permission that a request gets is one that it may have.
LEMMA ResolvedIsAllowed ==
  ASSUME NEW wish, NEW allowed
  PROVE  ResolveNetworkPolicy(wish, allowed) => allowed
BY DEF ResolveNetworkPolicy

\* A permission that was not granted is asked to be off, and is.
LEMMA AgainGranted ==
  ASSUME NEW granted, NEW allowed
  PROVE  ResolveNetworkPolicy(Again(granted), allowed) => granted
BY DEF ResolveNetworkPolicy, Again

\* What a session is granted is what was resolved.
LEMMA StartedWith ==
  ASSUME NEW outbound, NEW gateway
  PROVE  /\ Started(outbound, gateway).outbound = outbound
         /\ Started(outbound, gateway).gateway = gateway
         /\ Started(outbound, gateway).under = config
BY DEF Started

\* No action grants a session more.
LEMMA GrantsStay ==
  ASSUME GrantsNeverGrow, [Next]_vars
  PROVE  GrantsNeverGrow'
<1>1. ASSUME NEW o, NEW g, StartSession(o, g)
      PROVE  GrantsNeverGrow'
  <2> DEFINE outbound == ResolveNetworkPolicy(o, config.outbound)
             gateway == ResolveNetworkPolicy(g, config.gateway)
  <2>1. session' = Started(outbound, gateway) /\ origin' = session'
    BY <1>1 DEF StartSession, Start
  <2>2. /\ outbound => config.outbound
        /\ gateway => config.gateway
    BY ResolvedIsAllowed
  <2> HIDE DEF outbound, gateway
  <2>3. /\ session'.outbound = outbound
        /\ session'.gateway = gateway
        /\ session'.under = config
    BY <2>1, StartedWith
  <2> QED
    BY <2>1, <2>2, <2>3, Zenon DEF GrantsNeverGrow
<1>2. ASSUME ResetSession
      PROVE  GrantsNeverGrow'
  <2> DEFINE outbound == ResolveNetworkPolicy(Again(session.outbound), config.outbound)
             gateway == ResolveNetworkPolicy(Again(session.gateway), config.gateway)
  <2>1. session.up /\ origin' = origin
    BY <1>2 DEF ResetSession
  <2>2. CASE session' = Started(outbound, gateway)
    <3>1. /\ outbound => config.outbound /\ session.outbound
          /\ gateway => config.gateway /\ session.gateway
      BY ResolvedIsAllowed, AgainGranted
    <3> HIDE DEF outbound, gateway
    <3>2. /\ session'.outbound = outbound
          /\ session'.gateway = gateway
          /\ session'.under = config
      BY <2>2, StartedWith
    <3> QED
      BY <2>1, <3>1, <3>2, Zenon DEF GrantsNeverGrow
  <2>3. CASE session' = NoSandbox
    <3>1. ~ session'.up
      BY <2>3 DEF NoSandbox
    <3> QED
      BY <3>1 DEF GrantsNeverGrow
  <2> QED
    BY <1>2, <2>2, <2>3 DEF ResetSession, Start
<1>3. ASSUME StopSession
      PROVE  GrantsNeverGrow'
  <2>1. ~ session'.up
    BY <1>3 DEF StopSession, NoSandbox
  <2> QED
    BY <2>1 DEF GrantsNeverGrow
<1>4. CASE UNCHANGED <<session, origin>>
  BY <1>4 DEF GrantsNeverGrow
<1> QED
  <2>1. CASE \E o, g \in Asked : StartSession(o, g)
    BY <1>1, <2>1
  <2>2. CASE Next /\ ~ (\E o, g \in Asked : StartSession(o, g)) /\ ~ ResetSession
              /\ ~ StopSession
    <3>1. UNCHANGED <<session, origin>>
      BY <2>2 DEF Next, Request, Work, WriteFile, ReadFile, ReadRefused, ExportFile,
           HTTPRequest, WriteReturns, StatReturns, ReadReturns, Refuse, ExportLease,
           ExportStreamed, Publish, HTTPReturns, Restart, HelperActs, AgentWrites,
           AgentBakes, Crash, controller, outside
    <3> QED
      BY <1>4, <3>1
  <2>3. CASE UNCHANGED vars
    BY <1>4, <2>3 DEF vars, controller, outside
  <2> QED
    BY <1>2, <1>3, <2>1, <2>2, <2>3

\* No reset, under whatever configuration, gives a session more than it was
\* granted when it was started, or than its configuration allows.
THEOREM GrantsLimited == Spec => []GrantsNeverGrow
<1>1. Init => GrantsNeverGrow
  BY DEF Init, GrantsNeverGrow, NoSandbox
<1>2. GrantsNeverGrow /\ [Next]_vars => GrantsNeverGrow'
  BY GrantsStay
<1> QED
  BY <1>1, <1>2, PTL DEF Spec

-----------------------------------------------------------------------------
(* Who is attached: the helper that a request waits for, and no other.     *)

RequestFields == {"op", "pc", "h", "dest", "bytes", "original", "path"}

\* A request that is over, was refused or died is none that exports.
RequestShape ==
  /\ DOMAIN req = RequestFields
  /\ req.pc \in {"idle", "down"} => req.op = "none"
  /\ req.pc = "refused" => req.op = "read"

Fields == {"op", "pc", "file", "data", "pos", "from", "upto", "limit", "exclusive",
           "load", "cookies", "fresh", "expired", "attached", "alone"}

\* A process that is gone.
LEMMA NoneParts ==
  /\ DOMAIN None = Fields
  /\ None.op = "none" /\ None.pc = "gone" /\ ~ None.attached
BY DEF None, Fields

\* A process that is started.
LEMMA ExecParts ==
  ASSUME NEW op, NEW pc, NEW f
  PROVE  /\ DOMAIN Exec(op, pc, f) = Fields
         /\ Exec(op, pc, f).op = op /\ Exec(op, pc, f).pc = pc
         /\ Exec(op, pc, f).file = f
BY DEF Exec, None, Fields

\* A process whose docker client is killed.
LEMMA CutOffParts ==
  ASSUME NEW p, DOMAIN p = Fields
  PROVE  /\ DOMAIN CutOff(p) = Fields
         /\ ~ CutOff(p).attached
         /\ CutOff(p).op \notin {"read", "export"}
<1>1. CASE p.op \in {"write", "http"} /\ p.pc \notin {"done", "failed"}
  <2> DEFINE q == [p EXCEPT !.attached = FALSE, !.alone = TRUE]
  <2>1. DOMAIN q = Fields
    OBVIOUS
  <2>2. ~ q.attached
    BY DEF Fields
  <2>3. q.op = p.op
    BY DEF Fields
  <2>4. CutOff(p) = q
    BY <1>1 DEF CutOff
  <2> QED
    BY <1>1, <2>1, <2>2, <2>3, <2>4
<1>2. CASE ~ (p.op \in {"write", "http"} /\ p.pc \notin {"done", "failed"})
  BY <1>2, NoneParts DEF CutOff
<1> QED
  BY <1>1, <1>2

\* A process that ends.
LEMMA EndedParts ==
  ASSUME NEW p, DOMAIN p = Fields, NEW how
  PROVE  /\ DOMAIN Ended(p, how) = Fields
         /\ Ended(p, how).attached <=> p.attached
         /\ p.attached => /\ Ended(p, how).op = p.op
                          /\ Ended(p, how).pc = how
                          /\ Ended(p, how).file = p.file
         /\ ~ p.attached => Ended(p, how) = None
<1>1. CASE p.attached
  <2>1. Ended(p, how) = [p EXCEPT !.pc = how]
    BY <1>1 DEF Ended
  <2>2. DOMAIN [p EXCEPT !.pc = how] = Fields
    OBVIOUS
  <2>3. [p EXCEPT !.pc = how].attached = p.attached
    BY DEF Fields
  <2>4. [p EXCEPT !.pc = how].op = p.op
    BY DEF Fields
  <2>5. [p EXCEPT !.pc = how].pc = how
    BY DEF Fields
  <2>6. [p EXCEPT !.pc = how].file = p.file
    BY DEF Fields
  <2> QED
    BY <1>1, <2>1, <2>2, <2>3, <2>4, <2>5, <2>6
<1>2. CASE ~ p.attached
  BY <1>2, NoneParts DEF Ended
<1> QED
  BY <1>1, <1>2

HelperShape ==
  /\ DOMAIN helper = Helpers
  /\ \A h \in Helpers : DOMAIN helper[h] = Fields

\* The request loop waits for a helper that does what was requested.
Waiting ==
  req.pc = "wait" => req.h \in Helpers /\ helper[req.h].op = req.op

OneAttached ==
  \A h \in Helpers : helper[h].attached <=> (req.pc = "wait" /\ req.h = h)

ReaderAttached(p) == p.op \in {"read", "export"} /\ p.pc \in {"open", "copy"} => p.attached

ReadersAttached == \A h \in Helpers : ReaderAttached(helper[h])

Executes == req.op \in {"write", "stat", "http"} => req.pc = "wait"

Tracked ==
  /\ RequestShape /\ Executes
  /\ HelperShape /\ Waiting /\ OneAttached /\ ReadersAttached

\* A helper starts while none is attached, or in the place of the one that is.
LEMMA LaunchTracked ==
  ASSUME HelperShape, ReadersAttached, RequestShape', req'.pc = "wait",
         NEW h \in Helpers, NEW p, DOMAIN p = Fields, Launch(h, p),
         req'.h = h, req'.op = p.op,
         \A g \in Helpers : helper[g].attached => g = h
  PROVE  Tracked'
<1> DEFINE q == [p EXCEPT !.attached = TRUE]
<1>1. DOMAIN q = Fields
  OBVIOUS
<1>2. q.attached
  BY DEF Fields
<1>3. q.op = p.op
  BY DEF Fields
<1>4. helper' = [helper EXCEPT ![h] = q]
  BY DEF Launch
<1> HIDE DEF q
<1>5. HelperShape' /\ helper'[h] = q
  BY <1>1, <1>4 DEF HelperShape
<1>6. \A g \in Helpers \ {h} : helper'[g] = helper[g]
  BY <1>4 DEF HelperShape
<1>7. Waiting'
  BY <1>3, <1>5 DEF Waiting
<1>8. OneAttached'
  BY <1>2, <1>5, <1>6 DEF OneAttached
<1>9. ReadersAttached'
  <2> SUFFICES ASSUME NEW g \in Helpers
               PROVE  ReaderAttached(helper'[g])
    BY DEF ReadersAttached, ReaderAttached
  <2>1. CASE g = h
    BY <1>2, <1>5, <2>1 DEF ReaderAttached
  <2>2. CASE g # h
    BY <1>6, <2>2 DEF ReadersAttached
  <2> QED
    BY <2>1, <2>2
<1> QED
  BY <1>5, <1>7, <1>8, <1>9 DEF Tracked, Executes

\* A helper exits or is cut off, and the request goes on without one.
LEMMA ReturnTracked ==
  ASSUME Tracked, req.pc = "wait", RequestShape', Executes', req'.pc # "wait",
         (\E how : Exits(req.h, how)) \/ ExecFails(req.h)
  PROVE  Tracked'
<1>0. req.h \in Helpers /\ DOMAIN helper[req.h] = Fields /\ DOMAIN helper = Helpers
  BY DEF Tracked, Waiting, HelperShape
<1>1. PICK q : /\ helper' = [helper EXCEPT ![req.h] = q]
               /\ DOMAIN q = Fields /\ ~ q.attached /\ q.op \notin {"read", "export"}
  <2>1. CASE \E how : Exits(req.h, how)
    BY <2>1, NoneParts DEF Exits, Become
  <2>2. CASE ExecFails(req.h)
    BY <1>0, <2>2, NoneParts, CutOffParts DEF ExecFails, Exits, Become
  <2> QED
    BY <2>1, <2>2
<1>2. HelperShape' /\ helper'[req.h] = q
  BY <1>0, <1>1 DEF Tracked, HelperShape
<1>3. \A g \in Helpers \ {req.h} : helper'[g] = helper[g]
  BY <1>0, <1>1
<1>4. \A g \in Helpers : ~ helper'[g].attached
  BY <1>0, <1>1, <1>2, <1>3 DEF Tracked, OneAttached
<1>5. ReadersAttached'
  <2> SUFFICES ASSUME NEW g \in Helpers
               PROVE  ReaderAttached(helper'[g])
    BY DEF ReadersAttached, ReaderAttached
  <2>1. CASE g = req.h
    BY <1>1, <1>2, <2>1 DEF ReaderAttached
  <2>2. CASE g # req.h
    BY <1>3, <2>2 DEF Tracked, ReadersAttached
  <2> QED
    BY <2>1, <2>2
<1> QED
  BY <1>2, <1>4, <1>5 DEF Tracked, Waiting, OneAttached

\* A helper that may change its file, or whose success is still to be told.
Busy(p) == p.op \in {"write", "http"} /\ (p.attached \/ p.pc \notin {"done", "failed", "gone"})

\* What a step of the helpers makes of one of them.
Kin(p, q) ==
  /\ DOMAIN q = Fields
  /\ q.attached <=> p.attached
  /\ p.attached => q.op = p.op
  /\ Busy(q) => Busy(p) /\ q.op = p.op /\ q.file = p.file
  /\ q.op \in {"read", "export"} /\ q.pc \in {"open", "copy"} =>
       p.op \in {"read", "export"} /\ p.pc \in {"open", "copy"}

\* Helpers that stay akin are tracked.
LEMMA KinTracked ==
  ASSUME Tracked, UNCHANGED req, DOMAIN helper' = Helpers,
         \A g \in Helpers : Kin(helper[g], helper'[g])
  PROVE  Tracked'
<1>1. RequestShape' /\ Executes'
  BY DEF Tracked, RequestShape, Executes
<1>2. HelperShape'
  BY DEF HelperShape, Kin
<1>3. Waiting'
  BY DEF Tracked, Waiting, OneAttached, Kin
<1>4. OneAttached'
  BY DEF Tracked, OneAttached, Kin
<1>5. ReadersAttached'
  BY DEF Tracked, ReadersAttached, ReaderAttached, Kin
<1> QED
  BY <1>1, <1>2, <1>3, <1>4, <1>5 DEF Tracked

\* A helper that ends is akin to what it was.
LEMMA EndedKin ==
  ASSUME NEW p, DOMAIN p = Fields, NEW how \in {"done", "failed"}
  PROVE  Kin(p, Ended(p, how))
<1>1. CASE p.attached
  BY <1>1, EndedParts DEF Kin, Busy
<1>2. CASE ~ p.attached
  BY <1>2, EndedParts, NoneParts DEF Kin, Busy
<1> QED
  BY <1>1, <1>2

\* So is one that goes on.
LEMMA MovedKin ==
  ASSUME NEW p, DOMAIN p = Fields, NEW q, DOMAIN q = Fields,
         q.attached <=> p.attached, q.op = p.op, q.file = p.file,
         p.pc \notin {"done", "failed", "gone"},
         q.pc = "open" => p.pc = "open", q.pc = "copy" => p.pc \in {"open", "copy"}
  PROVE  Kin(p, q)
BY DEF Kin, Busy

\* A process that was disturbed is the same process.
LEMMA DisturbedKin ==
  ASSUME HelperShape, NEW f
  PROVE  /\ DOMAIN Disturbed(f) = Helpers
         /\ \A g \in Helpers : Kin(helper[g], Disturbed(f)[g])
<1>1. DOMAIN Disturbed(f) = Helpers
  BY DEF Disturbed
<1>2. ASSUME NEW g \in Helpers
      PROVE  Kin(helper[g], Disturbed(f)[g])
  <2> DEFINE p == helper[g]
             q == [p EXCEPT !.alone = FALSE]
  <2>1. DOMAIN p = Fields
    BY DEF HelperShape
  <2>2. Disturbed(f)[g] \in {p, q}
    BY DEF Disturbed
  <2>3. DOMAIN q = Fields
    BY <2>1
  <2>4. q.attached <=> p.attached
    BY <2>1 DEF Fields
  <2>5. q.op = p.op /\ q.pc = p.pc /\ q.file = p.file
    BY <2>1 DEF Fields
  <2> HIDE DEF p, q
  <2>6. Kin(p, q) /\ Kin(p, p)
    BY <2>1, <2>3, <2>4, <2>5 DEF Kin, Busy
  <2> QED
    BY <2>2, <2>6 DEF p
<1> QED
  BY <1>1, <1>2

\* A step of one process.
LEMMA BecomeKin ==
  ASSUME HelperShape, NEW h \in Helpers, NEW q, Kin(helper[h], q), Become(h, q)
  PROVE  DOMAIN helper' = Helpers /\ \A g \in Helpers : Kin(helper[g], helper'[g])
<1>1. \A g \in Helpers : Kin(helper[g], helper[g])
  BY DEF HelperShape, Kin, Busy
<1> QED
  BY <1>1 DEF HelperShape, Become

\* A step that changes a file.
LEMMA ChangeKin ==
  ASSUME HelperShape, NEW h \in Helpers, NEW q, Kin(helper[h], q),
         NEW f, NEW content, Change(h, f, content, q)
  PROVE  DOMAIN helper' = Helpers /\ \A g \in Helpers : Kin(helper[g], helper'[g])
<1>1. helper' = [Disturbed(f) EXCEPT ![h] = q]
  BY DEF Change
<1> QED
  BY <1>1, DisturbedKin

\* Whatever a helper does next, each is akin to what it was.
LEMMA HelperStepKin ==
  ASSUME HelperShape, NEW h \in Helpers, HelperStep(h)
  PROVE  DOMAIN helper' = Helpers /\ \A g \in Helpers : Kin(helper[g], helper'[g])
<1> DEFINE p == helper[h]
           Goal == DOMAIN helper' = Helpers /\ \A g \in Helpers : Kin(helper[g], helper'[g])
<1>0. DOMAIN p = Fields
  BY DEF HelperShape
<1>e. ASSUME NEW how \in {"done", "failed"}, Become(h, Ended(p, how))
      PROVE  Goal
  BY <1>0, <1>e, EndedKin, BecomeKin
<1>1. CASE WriteOpen(h)
  <2> DEFINE q == [p EXCEPT !.pc = "copy"]
  <2>1. p.pc = "open"
    BY <1>1 DEF WriteOpen
  <2>2. DOMAIN q = Fields /\ q.op = p.op /\ q.file = p.file
    BY <1>0 DEF Fields
  <2>3. q.attached <=> p.attached
    BY <1>0 DEF Fields
  <2> HIDE DEF q
  <2>4. Kin(p, q)
    BY <1>0, <2>1, <2>2, <2>3, MovedKin
  <2>5. Become(h, Ended(p, "failed")) \/ Change(h, p.file, << >>, q)
    BY <1>1 DEF WriteOpen, q
  <2> QED
    BY <1>e, <2>4, <2>5, ChangeKin
<1>2. CASE WriteCopy(h)
  <2> DEFINE q(upto) == [p EXCEPT !.pos = upto]
  <2>1. PICK upto, content : Change(h, p.file, content, q(upto))
    BY <1>2 DEF WriteCopy
  <2>2. /\ DOMAIN q(upto) = Fields /\ q(upto).op = p.op /\ q(upto).pc = p.pc
        /\ q(upto).file = p.file
    BY <1>0 DEF Fields
  <2>3. q(upto).attached <=> p.attached
    BY <1>0 DEF Fields
  <2> HIDE DEF q
  <2>4. Kin(p, q(upto))
    BY <1>0, <1>2, <2>2, <2>3, MovedKin DEF WriteCopy
  <2> QED
    BY <2>1, <2>4, ChangeKin
<1>3. CASE WriteEnd(h)
  BY <1>e, <1>3 DEF WriteEnd
<1>4. CASE Stat(h)
  <2> DEFINE q == [p EXCEPT !.pos = Size(p.file)]
  <2>1. Become(h, Ended(p, "failed")) \/ Become(h, Ended(q, "done"))
    BY <1>4 DEF Stat
  <2>2. DOMAIN q = Fields /\ q.op = p.op /\ q.pc = p.pc /\ q.file = p.file
    BY <1>0 DEF Fields
  <2>3. q.attached <=> p.attached
    BY <1>0 DEF Fields
  <2> HIDE DEF q
  <2>4. Kin(p, Ended(q, "done"))
    <3>1. Kin(q, Ended(q, "done")) /\ Kin(p, q)
      BY <1>0, <1>4, <2>2, <2>3, EndedKin, MovedKin DEF Stat
    <3> QED
      BY <2>2, <2>3, <3>1 DEF Kin, Busy
  <2> QED
    BY <1>e, <2>1, <2>4, BecomeKin
<1>5. CASE ReadOpen(h)
  <2> DEFINE q == [p EXCEPT !.pc = "copy", !.alone = TRUE]
  <2>1. p.pc = "open"
    BY <1>5 DEF ReadOpen
  <2>2. DOMAIN q = Fields /\ q.op = p.op /\ q.file = p.file
    BY <1>0 DEF Fields
  <2>3. q.attached <=> p.attached
    BY <1>0 DEF Fields
  <2>4. Become(h, Ended(p, "failed")) \/ Become(h, q)
    BY <1>5 DEF ReadOpen
  <2> HIDE DEF q
  <2>5. Kin(p, q)
    BY <1>0, <2>1, <2>2, <2>3, MovedKin
  <2> QED
    BY <1>e, <2>4, <2>5, BecomeKin
<1>6. CASE ReadCopy(h)
  <2> DEFINE q(upto) == [p EXCEPT !.pos = upto]
  <2>1. PICK upto : Become(h, q(upto))
    BY <1>6 DEF ReadCopy
  <2>2. /\ DOMAIN q(upto) = Fields /\ q(upto).op = p.op /\ q(upto).pc = p.pc
        /\ q(upto).file = p.file
    BY <1>0 DEF Fields
  <2>3. q(upto).attached <=> p.attached
    BY <1>0 DEF Fields
  <2> HIDE DEF q
  <2>4. Kin(p, q(upto))
    BY <1>0, <1>6, <2>2, <2>3, MovedKin DEF ReadCopy
  <2> QED
    BY <2>1, <2>4, BecomeKin
<1>7. CASE ReadEnd(h)
  BY <1>e, <1>7 DEF ReadEnd
<1>8. CASE LoadCookies(h)
  <2> DEFINE q == [p EXCEPT !.pc = "request",
                            !.cookies = IF p.load = Absent THEN {} ELSE jar[p.load]]
  <2>1. DOMAIN q = Fields /\ q.op = p.op /\ q.pc = "request" /\ q.file = p.file
    BY <1>0 DEF Fields
  <2>2. q.attached <=> p.attached
    BY <1>0 DEF Fields
  <2>3. Become(h, q) /\ p.pc = "load"
    BY <1>8 DEF LoadCookies
  <2> HIDE DEF q
  <2> QED
    BY <1>0, <2>1, <2>2, <2>3, MovedKin, BecomeKin
<1>9. CASE Exchange(h)
  <2> DEFINE q(new, old) == [p EXCEPT !.cookies = (@ \ old) \cup new,
                                      !.fresh = new, !.expired = old]
             r(new, old) == [q(new, old) EXCEPT !.pc = "save"]
  <2>1. p.pc = "request"
    BY <1>9 DEF Exchange
  <2>2. PICK new, old : Become(h, Ended(q(new, old), "done")) \/ Become(h, r(new, old))
    BY <1>9 DEF Exchange
  <2>3. /\ DOMAIN q(new, old) = Fields /\ q(new, old).op = p.op
        /\ q(new, old).pc = "request" /\ q(new, old).file = p.file
    BY <1>0, <2>1 DEF Fields
  <2>4. q(new, old).attached <=> p.attached
    BY <1>0 DEF Fields
  <2> HIDE DEF q
  <2>5. /\ DOMAIN r(new, old) = Fields /\ r(new, old).op = p.op
        /\ r(new, old).pc = "save" /\ r(new, old).file = p.file
    BY <2>3 DEF Fields
  <2>6. r(new, old).attached <=> p.attached
    BY <2>3, <2>4 DEF Fields
  <2> HIDE DEF r
  <2>7. Kin(p, r(new, old))
    BY <1>0, <2>1, <2>5, <2>6, MovedKin
  <2>8. Kin(p, Ended(q(new, old), "done"))
    <3>1. Kin(q(new, old), Ended(q(new, old), "done")) /\ Kin(p, q(new, old))
      BY <1>0, <2>1, <2>3, <2>4, EndedKin, MovedKin
    <3> QED
      BY <2>3, <2>4, <3>1 DEF Kin, Busy
  <2> QED
    BY <2>2, <2>7, <2>8, BecomeKin
<1>10. CASE SaveCookies(h)
  <2> DEFINE q == [p EXCEPT !.pc = "rename"]
  <2>1. DOMAIN q = Fields /\ q.op = p.op /\ q.pc = "rename" /\ q.file = p.file
    BY <1>0 DEF Fields
  <2>2. q.attached <=> p.attached
    BY <1>0 DEF Fields
  <2>3. Become(h, q) /\ p.pc = "save"
    BY <1>10 DEF SaveCookies
  <2> HIDE DEF q
  <2> QED
    BY <1>0, <2>1, <2>2, <2>3, MovedKin, BecomeKin
<1>11. CASE RenameCookies(h)
  BY <1>e, <1>11 DEF RenameCookies, Replace
<1>12. CASE Fails(h)
  BY <1>e, <1>12 DEF Fails
<1> QED
  BY <1>1, <1>2, <1>3, <1>4, <1>5, <1>6, <1>7, <1>8, <1>9, <1>10, <1>11, <1>12
     DEF HelperStep

\* Place finds a vacant place.
LEMMA PlaceIsVacant ==
  ASSUME Vacant # {}
  PROVE  Place \in Helpers /\ helper[Place].pc = "gone"
BY DEF Vacant, Place

\* No action but a step of the helpers changes who is attached, save with the
\* request that waits.
LEMMA TrackedStays ==
  ASSUME Tracked, [Next]_vars
  PROVE  Tracked'
<1> USE DEF RequestFields
<1>0. /\ Idle => \A g \in Helpers : ~ helper[g].attached
      /\ req.pc = "lease" => \A g \in Helpers : ~ helper[g].attached
  BY DEF Idle, Tracked, OneAttached
<1>1. ASSUME NEW f \in Scratchfiles, NEW p \in Payloads, NEW overwrite,
             WriteFile(f, p, overwrite)
      PROVE  Tracked'
  <2> DEFINE x == Exec("write", "open", f)
             q == [x EXCEPT !.data = p, !.exclusive = ~ overwrite]
  <2>1. DOMAIN x = Fields /\ x.op = "write"
    BY ExecParts
  <2>2. DOMAIN q = Fields /\ q.op = "write"
    BY <2>1 DEF Fields
  <2>3. Launch(Place, q) /\ Idle /\ Vacant # {}
    BY <1>1 DEF WriteFile, Accepts
  <2> HIDE DEF q
  <2>4. /\ DOMAIN req' = RequestFields
        /\ req'.op = "write" /\ req'.pc = "wait" /\ req'.h = Place
    BY <1>1 DEF WriteFile, Unoccupied
  <2> QED
    BY <1>0, <2>2, <2>3, <2>4, PlaceIsVacant, LaunchTracked DEF Tracked, RequestShape
<1>2. ASSUME NEW p, NEW n \in 0 .. 1, NEW encoding, ReadFile(p, n, encoding)
      PROVE  Tracked'
  <2>1. PICK f : /\ Launch(Place, Exec("stat", "open", f)) /\ Idle /\ Vacant # {}
                 /\ req' = [Unoccupied EXCEPT !.op = "stat", !.pc = "wait", !.h = Place,
                                              !.bytes = n, !.path = p]
    BY <1>2 DEF ReadFile, Accepts
  <2>2. /\ DOMAIN req' = RequestFields
        /\ req'.op = "stat" /\ req'.pc = "wait" /\ req'.h = Place
    BY <2>1 DEF Unoccupied
  <2> QED
    BY <1>0, <2>1, <2>2, ExecParts, PlaceIsVacant, LaunchTracked DEF Tracked, RequestShape
<1>3. ASSUME NEW p, ReadRefused(p)
      PROVE  Tracked'
  <2>1. /\ DOMAIN req' = RequestFields /\ req'.op = "read" /\ req'.pc = "refused"
        /\ helper' = helper /\ req.pc = "idle"
    BY <1>3 DEF ReadRefused, Accepts, Idle, Unoccupied, inside
  <2> QED
    BY <2>1 DEF Tracked, RequestShape, Executes, HelperShape, Waiting, OneAttached,
       ReadersAttached, ReaderAttached
<1>4. ASSUME NEW d \in Dests, ExportFile(d)
      PROVE  Tracked'
  <2>1. /\ DOMAIN req' = RequestFields /\ req'.op = "export" /\ req'.pc = "lease"
        /\ helper' = helper /\ req.pc = "idle"
    BY <1>4 DEF ExportFile, Accepts, Idle, Unoccupied, inside
  <2> QED
    BY <2>1 DEF Tracked, RequestShape, Executes, HelperShape, Waiting, OneAttached,
       ReadersAttached, ReaderAttached
<1>5. ASSUME NEW load, NEW save, HTTPRequest(load, save)
      PROVE  Tracked'
  <2> DEFINE x == Exec("http", "load", save)
             q == [x EXCEPT !.load = load]
  <2>1. DOMAIN x = Fields /\ x.op = "http"
    BY ExecParts
  <2>2. DOMAIN q = Fields /\ q.op = "http"
    BY <2>1 DEF Fields
  <2>3. Launch(Place, q) /\ Idle /\ Vacant # {}
    BY <1>5 DEF HTTPRequest, Accepts
  <2> HIDE DEF q
  <2>4. /\ DOMAIN req' = RequestFields
        /\ req'.op = "http" /\ req'.pc = "wait" /\ req'.h = Place
    BY <1>5 DEF HTTPRequest, Unoccupied
  <2> QED
    BY <1>0, <2>2, <2>3, <2>4, PlaceIsVacant, LaunchTracked DEF Tracked, RequestShape
<1>6. ASSUME helper' = helper, req' = req
      PROVE  Tracked'
  BY <1>6 DEF Tracked, RequestShape, Executes, HelperShape, Waiting, OneAttached,
     ReadersAttached, ReaderAttached
<1>7. ASSUME ResetSession \/ StopSession
      PROVE  Tracked'
  <2>1. /\ helper' = [h \in Helpers |-> None] /\ req' = req
        /\ req.pc # "wait"
    BY <1>7 DEF ResetSession, StopSession, Empty, Idle
  <2>2. \A h \in Helpers : helper'[h] = None
    BY <2>1
  <2> QED
    BY <2>1, <2>2, NoneParts DEF Tracked, RequestShape, Executes, HelperShape, Waiting,
       OneAttached, ReadersAttached, ReaderAttached
<1>8. ASSUME WriteReturns \/ ReadReturns \/ HTTPReturns
      PROVE  Tracked'
  <2>1. req' = Unoccupied /\ req.pc = "wait"
    BY <1>8 DEF WriteReturns, ReadReturns, HTTPReturns, Tracked, Executes
  <2>2. (\E how : Exits(req.h, how)) \/ ExecFails(req.h)
    BY <1>8 DEF WriteReturns, ReadReturns, HTTPReturns
  <2>3. RequestShape' /\ Executes' /\ req'.pc # "wait"
    BY <2>1 DEF RequestShape, Executes, Unoccupied
  <2> QED
    BY <2>1, <2>2, <2>3, ReturnTracked
<1>9. ASSUME StatReturns
      PROVE  Tracked'
  <2>0. req.op = "stat" /\ req.pc = "wait" /\ req.h \in Helpers
    BY <1>9 DEF StatReturns, Tracked, Executes, Waiting
  <2>1. CASE ExecFails(req.h) /\ req' = Unoccupied
    <3>1. RequestShape' /\ Executes' /\ req'.pc # "wait"
      BY <2>1 DEF RequestShape, Executes, Unoccupied
    <3> QED
      BY <2>0, <2>1, <3>1, ReturnTracked
  <2>2. CASE /\ req' = [req EXCEPT !.op = "read", !.bytes = SizeIn(helper[req.h])]
             /\ Launch(req.h, [Exec("read", "open", helper[req.h].file) EXCEPT
                    !.pos = Len(pager.got),
                    !.from = Len(pager.got),
                    !.upto = Len(pager.got) + ReadSize(config, req.bytes),
                    !.limit = ExecOutputLimit(config.outputBytes)])
    <3> DEFINE x == Exec("read", "open", helper[req.h].file)
               q == [x EXCEPT
                      !.pos = Len(pager.got),
                      !.from = Len(pager.got),
                      !.upto = Len(pager.got) + ReadSize(config, req.bytes),
                      !.limit = ExecOutputLimit(config.outputBytes)]
    <3>1. DOMAIN x = Fields /\ x.op = "read"
      BY ExecParts
    <3>2. DOMAIN q = Fields /\ q.op = "read"
      BY <3>1 DEF Fields
    <3>3. Launch(req.h, q)
      BY <2>2
    <3> HIDE DEF q
    <3>4. /\ DOMAIN req' = RequestFields
          /\ req'.op = "read" /\ req'.pc = "wait" /\ req'.h = req.h
      BY <2>0, <2>2 DEF Tracked, RequestShape
    <3>5. \A g \in Helpers : helper[g].attached => g = req.h
      BY DEF Tracked, OneAttached
    <3> QED
      BY <2>0, <3>2, <3>3, <3>4, <3>5, LaunchTracked DEF Tracked, RequestShape
  <2> QED
    BY <1>9, <2>1, <2>2 DEF StatReturns
<1>10. ASSUME Refuse \/ Restart
      PROVE  Tracked'
  <2>1. req' = Unoccupied /\ req.pc # "wait" /\ helper' = helper
    BY <1>10 DEF Refuse, Restart, inside
  <2> QED
    BY <2>1 DEF Tracked, RequestShape, Executes, HelperShape, Waiting, OneAttached,
       ReadersAttached, ReaderAttached, Unoccupied
<1>11. ASSUME NEW f \in Scratchfiles, ExportLease(f)
      PROVE  Tracked'
  <2>0. req.op = "export" /\ req.pc = "lease"
    BY <1>11 DEF ExportLease
  <2>1. CASE /\ Vacant # {}
             /\ Launch(Place, Exec("export", "open", f))
             /\ req' = [req EXCEPT !.pc = "wait", !.h = Place]
    <3>1. /\ DOMAIN req' = RequestFields
          /\ req'.op = "export" /\ req'.pc = "wait" /\ req'.h = Place
      BY <2>0, <2>1 DEF Tracked, RequestShape
    <3> QED
      BY <1>0, <2>0, <2>1, <3>1, ExecParts, PlaceIsVacant, LaunchTracked
         DEF Tracked, RequestShape
  <2>2. CASE req' = Unoccupied /\ helper' = helper
    BY <2>0, <2>2 DEF Tracked, RequestShape, Executes, HelperShape, Waiting, OneAttached,
       ReadersAttached, ReaderAttached, Unoccupied
  <2> QED
    BY <1>11, <2>1, <2>2 DEF ExportLease, inside
<1>12. ASSUME ExportStreamed
      PROVE  Tracked'
  <2>0. req.op = "export" /\ req.pc = "wait"
    BY <1>12 DEF ExportStreamed
  <2>1. (\E how : Exits(req.h, how)) \/ ExecFails(req.h)
    BY <1>12 DEF ExportStreamed
  <2>2. RequestShape' /\ Executes' /\ req'.pc # "wait"
    <3>1. CASE req' = Unoccupied
      BY <3>1 DEF RequestShape, Executes, Unoccupied
    <3>2. ASSUME NEW original,
                 req' = [req EXCEPT !.pc = "publish", !.h = Absent, !.original = original]
          PROVE  RequestShape' /\ Executes' /\ req'.pc # "wait"
      <4>1. DOMAIN req' = DOMAIN req /\ req'.pc = "publish" /\ req'.op = req.op
        BY <3>2 DEF Tracked, RequestShape
      <4> QED
        BY <2>0, <4>1 DEF Tracked, RequestShape, Executes
    <3> QED
      BY <1>12, <3>1, <3>2 DEF ExportStreamed
  <2> QED
    BY <2>0, <2>1, <2>2, ReturnTracked
<1>13. ASSUME Publish
      PROVE  Tracked'
  <2>1. req' = Unoccupied /\ req.pc # "wait" /\ helper' = helper
    BY <1>13 DEF Publish
  <2> QED
    BY <2>1 DEF Tracked, RequestShape, Executes, HelperShape, Waiting, OneAttached,
       ReadersAttached, ReaderAttached, Unoccupied
<1>14. ASSUME NEW h \in Helpers, HelperActs(h)
      PROVE  Tracked'
  BY <1>14, HelperStepKin, KinTracked DEF HelperActs, controller, Tracked
<1>15. ASSUME NEW f \in Scratchfiles, NEW p \in Payloads, AgentWrites(f, p)
      PROVE  Tracked'
  <2>1. helper' = Disturbed(f) /\ req' = req
    BY <1>15 DEF AgentWrites, controller
  <2> QED
    BY <2>1, DisturbedKin, KinTracked DEF Tracked
<1>16. ASSUME Crash
      PROVE  Tracked'
  <2>1. req' = [Unoccupied EXCEPT !.pc = "down"]
    BY <1>16 DEF Crash
  <2>2. RequestShape' /\ Executes' /\ req'.pc # "wait"
    BY <2>1 DEF RequestShape, Executes, Unoccupied
  <2>3. helper' = [h \in Helpers |->
                     IF helper[h].attached THEN CutOff(helper[h]) ELSE helper[h]]
    BY <1>16 DEF Crash
  <2>4. DOMAIN helper' = Helpers
    BY <2>3
  <2>5. ASSUME NEW h \in Helpers
        PROVE  /\ DOMAIN helper'[h] = Fields /\ ~ helper'[h].attached
               /\ ReaderAttached(helper'[h])
    <3>1. DOMAIN helper[h] = Fields /\ ReaderAttached(helper[h])
      BY DEF Tracked, HelperShape, ReadersAttached
    <3>2. CASE helper[h].attached
      <4>1. helper'[h] = CutOff(helper[h])
        BY <2>3, <3>2
      <4> QED
        BY <3>1, <4>1, CutOffParts DEF ReaderAttached
    <3>3. CASE ~ helper[h].attached
      <4>1. helper'[h] = helper[h]
        BY <2>3, <3>3
      <4> QED
        BY <3>1, <3>3, <4>1
    <3> QED
      BY <3>2, <3>3
  <2>6. HelperShape' /\ Waiting' /\ OneAttached' /\ ReadersAttached'
    BY <2>2, <2>4, <2>5 DEF HelperShape, Waiting, OneAttached, ReadersAttached,
       ReaderAttached
  <2> QED
    BY <2>2, <2>6 DEF Tracked
<1>17. ASSUME NEW o, NEW g, StartSession(o, g)
      PROVE  Tracked'
  BY <1>6, <1>17 DEF StartSession, inside
<1>18. ASSUME NEW f, NEW cookies, AgentBakes(f, cookies)
      PROVE  Tracked'
  BY <1>6, <1>18 DEF AgentBakes, controller
<1>19. CASE UNCHANGED vars
  BY <1>6, <1>19 DEF vars, inside, controller
<1> QED
  BY <1>1, <1>2, <1>3, <1>4, <1>5, <1>7, <1>8, <1>9, <1>10, <1>11, <1>12, <1>13, <1>14,
     <1>15, <1>16, <1>17, <1>18, <1>19 DEF Next, Request, Sizes, Work

\* The invariant at the start.
LEMMA TrackedInit == Init => Tracked
<1> SUFFICES ASSUME Init PROVE Tracked
  OBVIOUS
<1>1. /\ DOMAIN helper = Helpers
      /\ \A h \in Helpers : helper[h] = None
      /\ req = Unoccupied
  BY DEF Init
<1> QED
  BY <1>1, NoneParts DEF Tracked, RequestShape, RequestFields, Executes, HelperShape,
     Waiting, OneAttached, ReadersAttached, ReaderAttached, Unoccupied

-----------------------------------------------------------------------------
(* What of a file has come through.                                        *)

\* A buffer stays one.
LEMMA WriteBuffers ==
  ASSUME NEW S, NEW w \in Buffers(S), NEW limit \in Int, NEW p \in Seq(S)
  PROVE  BufferWrite(w, limit, p) \in Buffers(S)
<1>0. w.kept \in Seq(S) /\ Len(w.kept) \in Nat /\ Len(p) \in Nat
  BY DEF Buffers
<1>1. CASE limit > 0 /\ limit - Len(w.kept) <= 0
  <2>1. [w EXCEPT !.truncated = TRUE] \in Buffers(S)
    BY DEF Buffers
  <2> QED
    BY <1>1, <2>1 DEF BufferWrite
<1>2. CASE limit > 0 /\ limit - Len(w.kept) > 0 /\ Len(p) > limit - Len(w.kept)
  <2> DEFINE k == w.kept \o SubSeq(p, 1, limit - Len(w.kept))
  <2>1. k \in Seq(S)
    BY <1>0, <1>2
  <2> HIDE DEF k
  <2>2. [kept |-> k, truncated |-> TRUE] \in Buffers(S)
    BY <2>1 DEF Buffers
  <2> QED
    BY <1>0, <1>2, <2>2 DEF BufferWrite, k
<1>3. CASE limit <= 0 \/ (limit - Len(w.kept) > 0 /\ Len(p) <= limit - Len(w.kept))
  <2> DEFINE k == w.kept \o p
  <2>1. k \in Seq(S)
    BY <1>0
  <2>2. [w EXCEPT !.kept = @ \o p] = [w EXCEPT !.kept = k]
    OBVIOUS
  <2>3. BufferWrite(w, limit, p) = [w EXCEPT !.kept = k]
    BY <1>0, <1>3, <2>2 DEF BufferWrite
  <2> HIDE DEF k
  <2>4. [w EXCEPT !.kept = k] \in Buffers(S)
    BY <2>1 DEF Buffers
  <2> QED
    BY <2>3, <2>4
<1> QED
  BY <1>0, <1>1, <1>2, <1>3

\* A file that is written at its end grows by what is written.
LEMMA OverlayAppends ==
  ASSUME NEW S, NEW d \in Seq(S), NEW pos \in Nat, NEW upto \in pos + 1 .. Len(d)
  PROVE  Overlay(SubSeq(d, 1, pos), pos, SubSeq(d, pos + 1, upto)) = SubSeq(d, 1, upto)
<1> DEFINE a == SubSeq(d, 1, pos)
           b == SubSeq(d, pos + 1, upto)
<1>1. Len(a) = pos /\ Len(b) = upto - pos
  OBVIOUS
<1>2. \A i \in 1 .. pos : a[i] = d[i]
  OBVIOUS
<1>3. \A i \in 1 .. upto - pos : b[i] = d[pos + i]
  OBVIOUS
<1> HIDE DEF a, b
<1>4. Overlay(a, pos, b) = [i \in 1 .. upto |-> d[i]]
  BY <1>1, <1>2, <1>3 DEF Overlay
<1>5. SubSeq(d, 1, upto) = [i \in 1 .. upto |-> d[i]]
  OBVIOUS
<1> QED
  BY <1>4, <1>5 DEF a, b

\* Wherever it is written, a file stays a sequence of bytes.
LEMMA OverlayIsContent ==
  ASSUME NEW S, Hole \in S, NEW content \in Seq(S), NEW pos \in Nat, NEW chunk \in Seq(S)
  PROVE  Overlay(content, pos, chunk) \in Seq(S)
<1> DEFINE n == IF Len(content) > pos + Len(chunk) THEN Len(content) ELSE pos + Len(chunk)
           F(i) == IF i \in pos + 1 .. pos + Len(chunk) THEN chunk[i - pos]
                   ELSE IF i <= Len(content) THEN content[i]
                   ELSE Hole
<1>1. Len(content) \in Nat /\ Len(chunk) \in Nat
  OBVIOUS
<1>2. n \in Nat
  BY <1>1
<1>3. ASSUME NEW i \in 1 .. n
      PROVE  F(i) \in S
  <2>1. CASE i \in pos + 1 .. pos + Len(chunk)
    <3>1. i - pos \in 1 .. Len(chunk)
      BY <1>1, <2>1
    <3> QED
      BY <2>1, <3>1
  <2>2. CASE i \notin pos + 1 .. pos + Len(chunk) /\ i <= Len(content)
    <3>1. i \in 1 .. Len(content)
      BY <1>1, <1>2, <2>2
    <3> QED
      BY <2>2, <3>1
  <2>3. CASE i \notin pos + 1 .. pos + Len(chunk) /\ ~ (i <= Len(content))
    BY <2>3
  <2> QED
    BY <2>1, <2>2, <2>3
<1>4. Overlay(content, pos, chunk) = [i \in 1 .. n |-> F(i)]
  BY DEF Overlay
<1> HIDE DEF n, F
<1> QED
  BY <1>2, <1>3, <1>4

\* A piece follows the pieces before it.
LEMMA PiecesFollow ==
  ASSUME NEW S, NEW d \in Seq(S), NEW pos \in Nat, NEW from \in 0 .. pos,
         NEW upto \in pos + 1 .. Len(d)
  PROVE  /\ SubSeq(d, from + 1, upto)
              = SubSeq(d, from + 1, pos) \o SubSeq(d, pos + 1, upto)
         /\ SubSeq(d, from + 1, pos) \in Seq(S)
         /\ SubSeq(d, pos + 1, upto) \in Seq(S)
         /\ SubSeq(d, pos + 1, upto) # << >>
OBVIOUS

\* Where nothing was sent, nothing is kept.
LEMMA NothingHeld ==
  ASSUME NEW limit \in Int, NEW d, NEW from \in Nat
  PROVE  Holds(EmptyBuffer, limit, SubSeq(d, from + 1, from))
<1>1. SubSeq(d, from + 1, from) = << >>
  OBVIOUS
<1>2. EmptyBuffer.kept = << >> /\ ~ EmptyBuffer.truncated
  BY DEF EmptyBuffer
<1>3. Lesser(0, limit) \in Int /\ (limit > 0 => Lesser(0, limit) = 0)
  BY DEF Lesser
<1>4. SubSeq(<< >>, 1, 0) = << >>
  OBVIOUS
<1>5. Len(<< >>) = 0
  OBVIOUS
<1> QED
  BY <1>1, <1>2, <1>3, <1>4, <1>5 DEF Holds

Moving(p) == p.op \in {"write", "read", "export"} /\ p.pc \in {"open", "copy"}

\* A process that has a file open has a file; a writer is on its way through
\* its input.
CopySound(p, files) ==
  /\ Moving(p) /\ p.pc = "copy" =>
       p.file \in Scratchfiles /\ files[p.file] \in Seq(Bytes)
  /\ Moving(p) /\ p.op = "write" =>
       /\ p.file \in Scratchfiles /\ p.data \in Seq(Bytes)
       /\ p.pos \in 0 .. Len(p.data)
       /\ p.pc = "open" => p.pos = 0

\* What an attached reader has sent is what the controller keeps of it.
ReadSound(p, files, out) ==
  Moving(p) /\ p.op \in {"read", "export"} /\ p.attached =>
    /\ p.from \in Nat /\ p.pos \in Nat /\ p.from <= p.pos
    /\ p.limit \in Int /\ p.upto \in Int
    /\ p.pc = "open" => out = EmptyBuffer /\ p.pos = p.from
    /\ p.pc = "copy" /\ p.alone =>
         Holds(out, p.limit, SubSeq(files[p.file], p.from + 1, p.pos))

ProcessSound(p, files, out) ==
  CopySound(p, files) /\ ReadSound(p, files, out)

PagerFields == {"file", "encoding", "got", "start", "more", "answered"}

PagerTyped ==
  /\ DOMAIN pager = PagerFields
  /\ pager.got \in Seq(Bytes \cup {Replacement}) /\ pager.start \in Nat

FileTypes ==
  /\ DOMAIN scratch = Scratchfiles
  /\ \A f \in Scratchfiles : scratch[f] \in Seq(Bytes) \cup {Absent}
  /\ stdout \in Buffers(Bytes)
  /\ PagerTyped

ProcessesSound == \A h \in Helpers : ProcessSound(helper[h], scratch, stdout)

Sound ==
  /\ Tracked /\ ConfigOK
  /\ req.op = "stat" => req.bytes \in Int
  /\ FileTypes /\ ProcessesSound

\* The same process as far as its file goes, unless it has ended.
Same(p, q) ==
  Moving(q) =>
    /\ p.op = q.op /\ p.pc = q.pc /\ p.file = q.file /\ p.data = q.data
    /\ p.pos = q.pos /\ p.from = q.from /\ p.limit = q.limit /\ p.upto = q.upto
    /\ q.attached => p.attached /\ (q.alone => p.alone)

\* Such a process is as sound as before.
LEMMA SameSound ==
  ASSUME NEW p, NEW q, NEW files, NEW out, NEW later,
         Same(p, q), ProcessSound(p, files, out), q.attached => later = out
  PROVE  ProcessSound(q, files, later)
<1>1. Moving(q) => Moving(p)
  BY DEF Same, Moving
<1>2. CopySound(q, files)
  BY <1>1 DEF ProcessSound, CopySound, Same
<1>3. ReadSound(q, files, later)
  BY <1>1 DEF ProcessSound, ReadSound, Same
<1> QED
  BY <1>2, <1>3 DEF ProcessSound

\* What has ended, and what was disturbed, is the same in that sense.
LEMMA CutOffSame ==
  ASSUME NEW p, DOMAIN p = Fields
  PROVE  Same(p, CutOff(p)) /\ Same(p, None) /\ Same(p, Ended(p, "failed"))
<1> DEFINE q == [p EXCEPT !.attached = FALSE, !.alone = TRUE]
<1>1. /\ q.op = p.op /\ q.pc = p.pc /\ q.file = p.file /\ q.data = p.data
      /\ q.pos = p.pos /\ q.from = p.from /\ q.limit = p.limit /\ q.upto = p.upto
  BY DEF Fields
<1>2. ~ q.attached
  BY DEF Fields
<1>3. CutOff(p) \in {q, None}
  BY DEF CutOff
<1> HIDE DEF q
<1>4. Same(p, None)
  BY NoneParts DEF Same, Moving
<1>5. Same(p, q)
  BY <1>1, <1>2 DEF Same
<1>6. Same(p, Ended(p, "failed"))
  <2>1. CASE p.attached
    BY <2>1, EndedParts DEF Same, Moving
  <2>2. CASE ~ p.attached
    BY <1>4, <2>2, EndedParts
  <2> QED
    BY <2>1, <2>2
<1> QED
  BY <1>3, <1>4, <1>5, <1>6

\* A process that was disturbed has got no further.
LEMMA DisturbedSame ==
  ASSUME NEW p, DOMAIN p = Fields
  PROVE  Same(p, p) /\ Same(p, [p EXCEPT !.alone = FALSE])
<1> DEFINE q == [p EXCEPT !.alone = FALSE]
<1>1. /\ q.op = p.op /\ q.pc = p.pc /\ q.file = p.file /\ q.data = p.data
      /\ q.pos = p.pos /\ q.from = p.from /\ q.limit = p.limit /\ q.upto = p.upto
  BY DEF Fields
<1>2. q.attached <=> p.attached
  BY DEF Fields
<1>3. ~ q.alone
  BY DEF Fields
<1> HIDE DEF q
<1> QED
  BY <1>1, <1>2, <1>3 DEF Same, q

\* What a file has where nothing was written is a byte like any other.
LEMMA HoleIsByte == Hole \in Bytes
BY DEF Bytes

\* While no file changes, a process that is the same is as sound as before.
LEMMA SameStaysSound ==
  ASSUME Sound, scratch' = scratch,
         \A g \in Helpers : /\ Same(helper[g], helper'[g])
                            /\ helper'[g].attached => stdout' = stdout
  PROVE  ProcessesSound'
<1> SUFFICES ASSUME NEW g \in Helpers
             PROVE  ProcessSound(helper'[g], scratch', stdout')
  BY DEF ProcessesSound, ProcessSound, CopySound, ReadSound, Moving
<1>1. ProcessSound(helper[g], scratch, stdout)
  BY DEF Sound, ProcessesSound
<1>2. ProcessSound(helper'[g], scratch, stdout')
  BY <1>1, SameSound
<1> QED
  BY <1>2

\* Whoever changes a file disturbs those that are attached and work with it.
LEMMA DisturbedStaySound ==
  ASSUME Sound, NEW f \in Scratchfiles, NEW content \in Seq(Bytes),
         NEW files, files = [scratch EXCEPT ![f] = content], NEW g \in Helpers
  PROVE  ProcessSound(Disturbed(f)[g], files, stdout)
<1> DEFINE p == helper[g]
           q == Disturbed(f)[g]
           r == [p EXCEPT !.alone = FALSE]
<1>0. DOMAIN p = Fields /\ DOMAIN scratch = Scratchfiles
  BY DEF Sound, Tracked, HelperShape, FileTypes
<1>1. q = IF p.file = f /\ p.attached THEN r ELSE p
  BY DEF Disturbed
<1>2. Same(p, q)
  BY <1>0, <1>1, DisturbedSame
<1>3. q.attached /\ q.alone => p.file # f
  <2>1. ~ r.alone
    BY <1>0 DEF Fields
  <2> QED
    BY <1>1, <2>1
<1> HIDE DEF p, q, r
<1>4. ProcessSound(p, scratch, stdout)
  BY DEF Sound, ProcessesSound, p
<1>5. ProcessSound(q, scratch, stdout)
  BY <1>2, <1>4, SameSound
<1>6. Moving(q) => p.file = q.file
  BY <1>2 DEF Same
<1>7. \A e \in Scratchfiles : files[e] = IF e = f THEN content ELSE scratch[e]
  BY <1>0
<1>8. CopySound(q, files)
  BY <1>5, <1>7 DEF ProcessSound, CopySound
<1>9. ReadSound(q, files, stdout)
  BY <1>3, <1>5, <1>6, <1>7 DEF ProcessSound, CopySound, ReadSound
<1> QED
  BY <1>8, <1>9 DEF ProcessSound, q

\* A step of a helper that changes a file.
LEMMA ChangeStaysSound ==
  ASSUME Sound, NEW h \in Helpers, NEW f \in Scratchfiles, NEW content \in Seq(Bytes),
         NEW q, Change(h, f, content, q), UNCHANGED stdout,
         ProcessSound(q, [scratch EXCEPT ![f] = content], stdout)
  PROVE  ProcessesSound'
<1>1. scratch' = [scratch EXCEPT ![f] = content] /\ helper' = [Disturbed(f) EXCEPT ![h] = q]
  BY DEF Change
<1>2. DOMAIN Disturbed(f) = Helpers
  BY DEF Disturbed
<1> SUFFICES ASSUME NEW g \in Helpers
             PROVE  ProcessSound(helper'[g], scratch', stdout')
  BY DEF ProcessesSound, ProcessSound, CopySound, ReadSound, Moving
<1>3. CASE g = h
  BY <1>1, <1>2, <1>3
<1>4. CASE g # h
  <2>1. helper'[g] = Disturbed(f)[g]
    BY <1>1, <1>2, <1>4
  <2>2. ProcessSound(Disturbed(f)[g], scratch', stdout)
    BY <1>1, DisturbedStaySound
  <2> QED
    BY <2>1, <2>2
<1> QED
  BY <1>3, <1>4

\* A step of a helper that changes none.
LEMMA BecomeStaysSound ==
  ASSUME Sound, NEW h \in Helpers, NEW q, Become(h, q), UNCHANGED scratch,
         ProcessSound(q, scratch, stdout'),
         \A g \in Helpers : g # h /\ helper[g].attached => stdout' = stdout
  PROVE  ProcessesSound'
<1>1. /\ helper' = [helper EXCEPT ![h] = q] /\ DOMAIN helper = Helpers
      /\ \A g \in Helpers : DOMAIN helper[g] = Fields
  BY DEF Become, Sound, Tracked, HelperShape
<1> SUFFICES ASSUME NEW g \in Helpers
             PROVE  ProcessSound(helper'[g], scratch', stdout')
  BY DEF ProcessesSound, ProcessSound, CopySound, ReadSound, Moving
<1>2. CASE g = h
  BY <1>1, <1>2
<1>3. CASE g # h
  <2>1. helper'[g] = helper[g] /\ ProcessSound(helper[g], scratch, stdout)
    BY <1>1, <1>3 DEF Sound, ProcessesSound
  <2>2. Same(helper[g], helper[g])
    BY <1>1, DisturbedSame
  <2> QED
    BY <1>3, <2>1, <2>2, SameSound
<1> QED
  BY <1>2, <1>3

\* A helper that starts.
LEMMA LaunchStaysSound ==
  ASSUME Sound, UNCHANGED scratch, NEW h \in Helpers, NEW p, DOMAIN p = Fields,
         Launch(h, p), ProcessSound([p EXCEPT !.attached = TRUE], scratch, EmptyBuffer),
         \A g \in Helpers : helper[g].attached => g = h
  PROVE  ProcessesSound' /\ stdout' \in Buffers(Bytes)
<1> DEFINE q == [p EXCEPT !.attached = TRUE]
<1>1. stdout' = EmptyBuffer /\ Become(h, q)
  BY DEF Launch, Become
<1>2. EmptyBuffer \in Buffers(Bytes)
  BY DEF EmptyBuffer, Buffers
<1>3. ProcessSound(q, scratch, stdout')
  BY <1>1
<1> HIDE DEF q
<1>4. ProcessesSound'
  BY <1>1, <1>3, BecomeStaysSound
<1> QED
  BY <1>1, <1>2, <1>4

\* What the client gets of a page has as many characters, and is nothing else
\* unless something was replaced.
LEMMA CarriedParts ==
  ASSUME NEW encoding, NEW s \in Seq(Bytes)
  PROVE  /\ Carried(encoding, s) \in Seq(Bytes \cup {Replacement})
         /\ Len(Carried(encoding, s)) = Len(s)
         /\ Whole(Carried(encoding, s)) => Carried(encoding, s) = s
<1>1. CASE encoding = "base64"
  BY <1>1 DEF Carried
<1>2. CASE encoding # "base64"
  <2> DEFINE F(i) == IF InCharacter(s, i) THEN s[i] ELSE Replacement
             c == [i \in 1 .. Len(s) |-> F(i)]
  <2>1. Carried(encoding, s) = c
    BY <1>2 DEF Carried
  <2>2. \A i \in 1 .. Len(s) : F(i) \in Bytes \cup {Replacement}
    OBVIOUS
  <2>3. \A i \in 1 .. Len(s) : F(i) # Replacement => F(i) = s[i]
    OBVIOUS
  <2> HIDE DEF F
  <2>4. Len(s) \in Nat
    OBVIOUS
  <2>5. c \in Seq(Bytes \cup {Replacement}) /\ Len(c) = Len(s)
    BY <2>2, <2>4
  <2>6. ASSUME Whole(c)
        PROVE  c = s
    <3>1. \A i \in 1 .. Len(s) : c[i] = s[i]
      BY <2>3, <2>5, <2>6 DEF Whole
    <3> QED
      BY <2>5, <3>1
  <2> QED
    BY <2>1, <2>5, <2>6
<1> QED
  BY <1>1, <1>2

\* What is in use after a step that changes one file.
LEMMA RereadTyped ==
  ASSUME Sound, NEW f \in Scratchfiles, NEW content \in Seq(Bytes), Reread(f),
         UNCHANGED stdout, scratch' = [scratch EXCEPT ![f] = content]
  PROVE  FileTypes'
<1>1. pager' \in {NothingRead, pager}
  BY DEF Reread
<1>2. /\ DOMAIN NothingRead = PagerFields
      /\ NothingRead.got \in Seq(Bytes \cup {Replacement}) /\ NothingRead.start \in Nat
  BY DEF NothingRead, PagerFields
<1> QED
  BY <1>1, <1>2 DEF Sound, FileTypes, PagerTyped

\* Whether a process is sound is a matter of these fields.
LEMMA NotMovingSound ==
  ASSUME NEW p, ~ Moving(p), NEW files, NEW out
  PROVE  ProcessSound(p, files, out)
BY DEF ProcessSound, CopySound, ReadSound

\* What the step of a helper leaves of the files, when it changes none.
LEMMA KeepsFiles ==
  ASSUME Sound, UNCHANGED <<scratch, pager>>, stdout' \in Buffers(Bytes)
  PROVE  FileTypes'
BY DEF Sound, FileTypes, PagerTyped

\* A writer opens its file, which is empty then.
LEMMA WriteOpenSound ==
  ASSUME Sound, NEW h \in Helpers, HelperActs(h), WriteOpen(h)
  PROVE  FileTypes' /\ ProcessesSound'
<1> DEFINE p == helper[h]
           q == [p EXCEPT !.pc = "copy"]
<1>0. /\ DOMAIN p = Fields /\ ProcessSound(p, scratch, stdout)
      /\ stdout \in Buffers(Bytes)
  BY DEF Sound, Tracked, HelperShape, ProcessesSound, FileTypes
<1>1. /\ p.op = "write" /\ p.pc = "open" /\ stdout' = stdout
      /\ p.file \in Scratchfiles /\ p.data \in Seq(Bytes) /\ p.pos = 0
  BY <1>0 DEF WriteOpen, ProcessSound, CopySound, Moving
<1>2. CASE Become(h, Ended(p, "failed")) /\ UNCHANGED scratch
  <2>1. ProcessSound(Ended(p, "failed"), scratch, stdout)
    BY <1>0, CutOffSame, SameSound
  <2>2. UNCHANGED pager
    BY <1>2 DEF HelperActs
  <2> QED
    BY <1>0, <1>1, <1>2, <2>1, <2>2, BecomeStaysSound, KeepsFiles
<1>3. CASE Change(h, p.file, << >>, q)
  <2>1. << >> \in Seq(Bytes) /\ scratch' = [scratch EXCEPT ![p.file] = << >>]
    BY <1>3 DEF Change
  <2>2. /\ q.op = "write" /\ q.pc = "copy" /\ q.file = p.file /\ q.data = p.data
        /\ q.pos = 0
    BY <1>0, <1>1 DEF Fields
  <2> HIDE DEF q
  <2>3. [scratch EXCEPT ![p.file] = << >>][q.file] = << >>
    BY <1>1, <2>2 DEF Sound, FileTypes
  <2>4. SubSeq(q.data, 1, 0) = << >> /\ 0 \in 0 .. Len(q.data)
    BY <1>1, <2>2
  <2>5. ProcessSound(q, [scratch EXCEPT ![p.file] = << >>], stdout)
    BY <1>1, <2>1, <2>2, <2>3, <2>4
       DEF ProcessSound, CopySound, ReadSound
  <2>6. ProcessesSound'
    BY <1>1, <1>3, <2>1, <2>5, ChangeStaysSound
  <2>7. CASE scratch' = scratch
    BY <1>0, <1>1, <2>6, <2>7, KeepsFiles DEF HelperActs
  <2>8. CASE scratch' # scratch
    BY <1>1, <1>3, <2>1, <2>6, <2>8, RereadTyped DEF HelperActs
  <2> QED
    BY <2>7, <2>8
<1> QED
  BY <1>2, <1>3 DEF WriteOpen

\* A writer copies some of its input.
LEMMA WriteCopySound ==
  ASSUME Sound, NEW h \in Helpers, HelperActs(h), WriteCopy(h)
  PROVE  FileTypes' /\ ProcessesSound'
<1> DEFINE p == helper[h]
           f == p.file
<1>0. /\ DOMAIN p = Fields /\ ProcessSound(p, scratch, stdout)
      /\ stdout \in Buffers(Bytes)
  BY DEF Sound, Tracked, HelperShape, ProcessesSound, FileTypes
<1>1. /\ p.op = "write" /\ p.pc = "copy" /\ stdout' = stdout
      /\ f \in Scratchfiles /\ scratch[f] \in Seq(Bytes)
      /\ p.data \in Seq(Bytes) /\ p.pos \in 0 .. Len(p.data)
  BY <1>0 DEF WriteCopy, ProcessSound, CopySound, Moving
<1>2. PICK upto \in p.pos + 1 .. Len(p.data) :
        Change(h, f, Overlay(scratch[f], p.pos, SubSeq(p.data, p.pos + 1, upto)),
               [p EXCEPT !.pos = upto])
  BY DEF WriteCopy
<1> DEFINE chunk == SubSeq(p.data, p.pos + 1, upto)
           content == Overlay(scratch[f], p.pos, chunk)
           q == [p EXCEPT !.pos = upto]
           files == [scratch EXCEPT ![f] = content]
<1>3. chunk \in Seq(Bytes) /\ p.pos \in Nat /\ upto \in 0 .. Len(p.data)
  BY <1>1
<1>4. content \in Seq(Bytes)
  BY <1>1, <1>3, HoleIsByte, OverlayIsContent
<1>6. /\ q.op = "write" /\ q.pc = "copy" /\ q.file = f /\ q.data = p.data
      /\ q.pos = upto
  BY <1>0, <1>1 DEF Fields
<1>8. Change(h, f, content, q)
  BY <1>2
<1>9. scratch' = files
  BY <1>8 DEF Change
<1> HIDE DEF q, content, chunk
<1>10. files[f] = content
  BY <1>1 DEF Sound, FileTypes
<1>12. ProcessSound(q, files, stdout)
  <2> HIDE DEF files
  <2>1. CopySound(q, files)
    BY <1>1, <1>3, <1>4, <1>6, <1>10 DEF CopySound
  <2>2. ReadSound(q, files, stdout)
    BY <1>6 DEF ReadSound
  <2> QED
    BY <2>1, <2>2 DEF ProcessSound
<1>13. ProcessesSound'
  BY <1>1, <1>4, <1>8, <1>12, ChangeStaysSound
<1>14. CASE scratch' = scratch
  BY <1>0, <1>1, <1>13, <1>14, KeepsFiles DEF HelperActs
<1>15. CASE scratch' # scratch
  BY <1>1, <1>4, <1>8, <1>9, <1>13, <1>15, RereadTyped DEF HelperActs
<1> QED
  BY <1>14, <1>15

\* A helper that opens no file, or has ended, has none to be sound about.
LEMMA AsideSound ==
  ASSUME Sound, NEW h \in Helpers, HelperActs(h), UNCHANGED <<scratch, stdout>>,
         NEW q, Become(h, q), ~ Moving(q)
  PROVE  FileTypes' /\ ProcessesSound'
<1>1. UNCHANGED pager
  BY DEF HelperActs
<1>2. ProcessSound(q, scratch, stdout')
  BY NotMovingSound
<1>3. ProcessesSound'
  BY <1>2, BecomeStaysSound
<1> QED
  BY <1>1, <1>3, KeepsFiles DEF Sound, FileTypes

\* Nothing that has ended is moving.
LEMMA EndedAside ==
  ASSUME NEW p, DOMAIN p = Fields, NEW how \in {"done", "failed"}
  PROVE  ~ Moving(Ended(p, how))
<1>1. CASE p.attached
  BY <1>1, EndedParts DEF Moving
<1>2. CASE ~ p.attached
  BY <1>2, EndedParts, NoneParts DEF Moving
<1> QED
  BY <1>1, <1>2

\* A reader opens its file, and nothing has come yet.
LEMMA ReadOpenSound ==
  ASSUME Sound, NEW h \in Helpers, HelperActs(h), ReadOpen(h)
  PROVE  FileTypes' /\ ProcessesSound'
<1> DEFINE p == helper[h]
           q == [p EXCEPT !.pc = "copy", !.alone = TRUE]
<1>0. /\ DOMAIN p = Fields /\ ProcessSound(p, scratch, stdout)
      /\ stdout \in Buffers(Bytes) /\ ReaderAttached(p)
  BY DEF Sound, Tracked, HelperShape, ReadersAttached, ProcessesSound, FileTypes
<1>1. /\ p.op \in {"read", "export"} /\ p.pc = "open" /\ UNCHANGED <<scratch, stdout>>
  BY DEF ReadOpen
<1>2. /\ p.attached /\ p.from \in Nat /\ p.pos = p.from
      /\ p.limit \in Int /\ p.upto \in Int /\ stdout = EmptyBuffer
  BY <1>0, <1>1 DEF ReaderAttached, ProcessSound, ReadSound, Moving
<1>3. CASE Become(h, Ended(p, "failed"))
  <2>1. ~ Moving(Ended(p, "failed"))
    BY <1>0, EndedAside
  <2> QED
    BY <1>1, <1>3, <2>1, AsideSound
<1>4. CASE Become(h, q) /\ Content(p.file) # Absent
  <2>1. p.file \in Scratchfiles /\ scratch[p.file] \in Seq(Bytes)
    BY <1>4 DEF Content, Sound, FileTypes
  <2>2. /\ q.op = p.op /\ q.pc = "copy" /\ q.file = p.file /\ q.pos = p.pos
        /\ q.from = p.from /\ q.limit = p.limit /\ q.upto = p.upto
    BY <1>0 DEF Fields
  <2> HIDE DEF q
  <2>3. Holds(stdout, p.limit, SubSeq(scratch[p.file], p.from + 1, p.from))
    BY <1>2, NothingHeld
  <2>4. CopySound(q, scratch)
    BY <1>1, <2>1, <2>2 DEF CopySound
  <2>6. ReadSound(q, scratch, stdout)
    BY <1>2, <2>2, <2>3 DEF ReadSound
  <2>7. ProcessSound(q, scratch, stdout')
    BY <1>1, <2>4, <2>6 DEF ProcessSound
  <2>8. UNCHANGED pager
    BY <1>1 DEF HelperActs
  <2> QED
    BY <1>0, <1>1, <1>4, <2>7, <2>8, BecomeStaysSound, KeepsFiles
<1> QED
  BY <1>3, <1>4 DEF ReadOpen

\* A reader sends a piece of its file.
LEMMA ReadCopySound ==
  ASSUME Sound, NEW h \in Helpers, HelperActs(h), ReadCopy(h)
  PROVE  FileTypes' /\ ProcessesSound'
<1> DEFINE p == helper[h]
           content == scratch[p.file]
<1>0. /\ DOMAIN p = Fields /\ ProcessSound(p, scratch, stdout)
      /\ stdout \in Buffers(Bytes) /\ ReaderAttached(p)
      /\ \A g \in Helpers : p.attached /\ helper[g].attached => g = h
  BY DEF Sound, Tracked, HelperShape, ReadersAttached, OneAttached, ProcessesSound,
     FileTypes
<1>1. /\ p.op \in {"read", "export"} /\ p.pc = "copy" /\ UNCHANGED scratch
      /\ p.file \in Scratchfiles /\ content \in Seq(Bytes)
  BY <1>0 DEF ReadCopy, ProcessSound, CopySound, Moving
<1>2. /\ p.attached /\ p.from \in Nat /\ p.pos \in Nat /\ p.from <= p.pos
      /\ p.limit \in Int /\ p.upto \in Int
      /\ p.alone => Holds(stdout, p.limit, SubSeq(content, p.from + 1, p.pos))
  BY <1>0, <1>1 DEF ReaderAttached, ProcessSound, ReadSound, Moving
<1>3. PICK upto \in p.pos + 1 .. Reach(p) :
        /\ Become(h, [p EXCEPT !.pos = upto])
        /\ stdout' = BufferWrite(stdout, p.limit, SubSeq(content, p.pos + 1, upto))
  BY DEF ReadCopy
<1>4. upto \in p.pos + 1 .. Len(content)
  <2>1. CASE p.op = "export"
    BY <1>3, <2>1 DEF Reach, Size
  <2>2. CASE p.op # "export"
    <3>1. Reach(p) \in Int /\ Reach(p) <= Len(content)
      BY <1>1, <1>2, <2>2 DEF Reach, Lesser, Size
    <3> QED
      BY <1>1, <1>3, <3>1
  <2> QED
    BY <2>1, <2>2
<1> DEFINE chunk == SubSeq(content, p.pos + 1, upto)
           sent == SubSeq(content, p.from + 1, p.pos)
           q == [p EXCEPT !.pos = upto]
<1>5. /\ SubSeq(content, p.from + 1, upto) = sent \o chunk
      /\ sent \in Seq(Bytes) /\ chunk \in Seq(Bytes) /\ chunk # << >>
  <2>1. /\ p.from \in 0 .. p.pos /\ p.pos \in Nat /\ content \in Seq(Bytes)
        /\ upto \in p.pos + 1 .. Len(content)
    BY <1>1, <1>2, <1>4
  <2> HIDE DEF p, content
  <2> QED
    BY <2>1, PiecesFollow
<1>6. stdout' \in Buffers(Bytes)
  BY <1>0, <1>2, <1>3, <1>5, WriteBuffers
<1>7. p.alone => Holds(stdout', p.limit, SubSeq(content, p.from + 1, upto))
  <2> SUFFICES ASSUME p.alone
               PROVE  Holds(stdout', p.limit, sent \o chunk)
    BY <1>5
  <2> HIDE DEF sent, chunk
  <2>1. Holds(stdout, p.limit, sent)
    BY <1>2 DEF sent
  <2>2. Holds(BufferWrite(stdout, p.limit, chunk), p.limit, sent \o chunk)
    BY <1>0, <1>2, <1>5, <2>1, WriteHolds
  <2> QED
    BY <1>3, <2>2 DEF chunk
<1>8. /\ q.op = p.op /\ q.pc = "copy" /\ q.file = p.file /\ q.pos = upto
      /\ q.from = p.from /\ q.limit = p.limit /\ q.upto = p.upto
  BY <1>0, <1>1 DEF Fields
<1>9. q.alone <=> p.alone
  BY <1>0 DEF Fields
<1>10. Become(h, q)
  BY <1>3
<1> HIDE DEF q
<1>11. ProcessSound(q, scratch, stdout')
  <2>1. CopySound(q, scratch)
    BY <1>1, <1>8 DEF CopySound
  <2>3. upto \in Nat /\ p.from <= upto
    BY <1>2, <1>4
  <2>4. ReadSound(q, scratch, stdout')
    BY <1>2, <1>7, <1>8, <1>9, <2>3 DEF ReadSound
  <2> QED
    BY <2>1, <2>4 DEF ProcessSound
<1>12. UNCHANGED pager
  BY <1>1 DEF HelperActs
<1> QED
  BY <1>0, <1>1, <1>2, <1>6, <1>10, <1>11, <1>12, BecomeStaysSound, KeepsFiles

\* Whatever a helper does.
LEMMA HelperActsSound ==
  ASSUME Sound, NEW h \in Helpers, HelperActs(h)
  PROVE  FileTypes' /\ ProcessesSound'
<1> DEFINE p == helper[h]
<1>0. DOMAIN p = Fields
  BY DEF Sound, Tracked, HelperShape
<1>1. CASE Stat(h)
  <2> DEFINE q == [p EXCEPT !.pos = Size(p.file)]
  <2>1. DOMAIN q = Fields /\ q.op = "stat" /\ p.op = "stat"
    BY <1>0, <1>1 DEF Stat, Fields
  <2>2. Become(h, Ended(p, "failed")) \/ Become(h, Ended(q, "done"))
    BY <1>1 DEF Stat
  <2> HIDE DEF q
  <2>3. ~ Moving(Ended(p, "failed")) /\ ~ Moving(Ended(q, "done"))
    BY <1>0, <2>1, EndedAside
  <2> QED
    BY <1>1, <2>2, <2>3, AsideSound DEF Stat
<1>7. CASE WriteEnd(h)
  <2>1. ~ Moving(Ended(p, "done"))
    BY <1>0, EndedAside
  <2> QED
    BY <1>7, <2>1, AsideSound DEF WriteEnd
<1>8. CASE RenameCookies(h)
  <2>1. ~ Moving(Ended(p, "done"))
    BY <1>0, EndedAside
  <2> QED
    BY <1>8, <2>1, AsideSound DEF RenameCookies, Replace
<1>2. CASE ReadEnd(h)
  <2>1. ~ Moving(Ended(p, "done"))
    BY <1>0, <1>2, EndedAside DEF ReadEnd
  <2> QED
    BY <1>2, <2>1, AsideSound DEF ReadEnd
<1>3. CASE Fails(h)
  <2>1. ~ Moving(Ended(p, "failed"))
    BY <1>0, EndedAside
  <2> QED
    BY <1>3, <2>1, AsideSound DEF Fails
<1>4. CASE LoadCookies(h)
  <2> DEFINE q == [p EXCEPT !.pc = "request",
                            !.cookies = IF p.load = Absent THEN {} ELSE jar[p.load]]
  <2>1. q.op = "http"
    BY <1>0, <1>4 DEF LoadCookies, Fields
  <2>2. Become(h, q)
    BY <1>4 DEF LoadCookies
  <2> HIDE DEF q
  <2> QED
    BY <1>4, <2>1, <2>2, AsideSound DEF LoadCookies, Moving
<1>5. CASE Exchange(h)
  <2> DEFINE q(new, old) == [p EXCEPT !.cookies = (@ \ old) \cup new,
                                      !.fresh = new, !.expired = old]
             r(new, old) == [q(new, old) EXCEPT !.pc = "save"]
  <2>1. PICK new, old : Become(h, Ended(q(new, old), "done")) \/ Become(h, r(new, old))
    BY <1>5 DEF Exchange
  <2>2. DOMAIN q(new, old) = Fields
    BY <1>0
  <2>3. r(new, old).pc = "save"
    BY <1>0 DEF Fields
  <2> HIDE DEF q, r
  <2>4. ~ Moving(Ended(q(new, old), "done")) /\ ~ Moving(r(new, old))
    BY <2>2, <2>3, EndedAside DEF Moving
  <2> QED
    BY <1>5, <2>1, <2>4, AsideSound DEF Exchange
<1>6. CASE SaveCookies(h)
  <2> DEFINE q == [p EXCEPT !.pc = "rename"]
  <2>1. q.op = "http"
    BY <1>0, <1>6 DEF SaveCookies, Fields
  <2>2. Become(h, q)
    BY <1>6 DEF SaveCookies
  <2> HIDE DEF q
  <2> QED
    BY <1>6, <2>1, <2>2, AsideSound DEF SaveCookies, Moving
<1> QED
  BY <1>1, <1>2, <1>3, <1>4, <1>5, <1>6, <1>7, <1>8, WriteOpenSound, WriteCopySound,
     ReadOpenSound, ReadCopySound DEF HelperActs, HelperStep

\* A process that is started has done nothing yet.
LEMMA ExecZero ==
  ASSUME NEW op, NEW pc, NEW f
  PROVE  /\ Exec(op, pc, f).pos = 0 /\ Exec(op, pc, f).from = 0
         /\ Exec(op, pc, f).upto = 0 /\ Exec(op, pc, f).limit = 0
BY DEF Exec, None

\* An attached process that starts with this is sound.
LEMMA StartsSound ==
  ASSUME NEW p, DOMAIN p = Fields, NEW files,
         \/ /\ p.op = "write" /\ p.pc = "open" /\ p.file \in Scratchfiles
            /\ p.data \in Seq(Bytes) /\ p.pos = 0
         \/ /\ p.op \in {"read", "export"} /\ p.pc = "open"
            /\ p.from \in Nat /\ p.pos = p.from /\ p.limit \in Int /\ p.upto \in Int
         \/ p.op \in {"stat", "http"}
  PROVE  ProcessSound([p EXCEPT !.attached = TRUE], files, EmptyBuffer)
<1> DEFINE q == [p EXCEPT !.attached = TRUE]
<1>1. /\ q.op = p.op /\ q.pc = p.pc /\ q.file = p.file /\ q.data = p.data
      /\ q.pos = p.pos /\ q.from = p.from /\ q.limit = p.limit /\ q.upto = p.upto
  BY DEF Fields
<1> HIDE DEF q
<1>2. CopySound(q, files)
  BY <1>1 DEF CopySound, Moving
<1>3. ReadSound(q, files, EmptyBuffer)
  BY <1>1 DEF ReadSound, Moving
<1> QED
  BY <1>2, <1>3 DEF ProcessSound, q

\* The helper of a request that returns has ended or goes on by itself.
LEMMA ReturnSound ==
  ASSUME Sound, Tracked', req.pc = "wait", req'.pc # "wait", UNCHANGED scratch,
         (\E how : Exits(req.h, how)) \/ ExecFails(req.h)
  PROVE  ProcessesSound'
<1>1. req.h \in Helpers /\ DOMAIN helper = Helpers
  BY DEF Sound, Tracked, Waiting, HelperShape
<1>2. PICK q \in {None, CutOff(helper[req.h])} : helper' = [helper EXCEPT ![req.h] = q]
  BY DEF Exits, ExecFails, Become
<1>3. ASSUME NEW g \in Helpers
      PROVE  Same(helper[g], helper'[g]) /\ ~ helper'[g].attached
  <2>1. DOMAIN helper[g] = Fields
    BY DEF Sound, Tracked, HelperShape
  <2>2. ~ helper'[g].attached
    BY DEF Tracked, OneAttached
  <2>3. CASE g = req.h
    BY <1>1, <1>2, <2>1, <2>2, <2>3, CutOffSame
  <2>4. CASE g # req.h
    BY <1>1, <1>2, <2>1, <2>2, <2>4, DisturbedSame
  <2> QED
    BY <2>3, <2>4
<1> QED
  BY <1>3, SameStaysSound

\* No action leaves a reader's output inexact.
LEMMA SoundStays ==
  ASSUME Sound, [Next]_vars
  PROVE  Sound'
<1>0. Tracked /\ Tracked' /\ ConfigOK'
  BY TrackedStays, ConfigStays DEF Sound
<1> DEFINE Asks == req.op = "stat" => req.bytes \in Int
           Goal == FileTypes' /\ ProcessesSound' /\ Asks'
<1>a. /\ Idle => \A g \in Helpers : ~ helper[g].attached
      /\ req.pc = "lease" => \A g \in Helpers : ~ helper[g].attached
  BY <1>0 DEF Idle, Tracked, OneAttached
<1>b. ASSUME UNCHANGED <<scratch, pager>>, ProcessesSound',
             stdout' \in Buffers(Bytes), Asks'
      PROVE  Goal
  BY <1>b, KeepsFiles
<1>c. EmptyBuffer \in Buffers(Bytes) /\ stdout \in Buffers(Bytes)
  BY DEF EmptyBuffer, Buffers, Sound, FileTypes
<1>d. ASSUME UNCHANGED <<scratch, helper, stdout, pager>>, Asks'
      PROVE  Goal
  <2>1. ASSUME NEW g \in Helpers
        PROVE  Same(helper[g], helper'[g])
    BY <1>0, <1>d, DisturbedSame DEF Tracked, HelperShape
  <2> QED
    BY <1>b, <1>c, <1>d, <2>1, SameStaysSound
<1>1. ASSUME NEW f \in Scratchfiles, NEW p \in Payloads, NEW overwrite,
             WriteFile(f, p, overwrite)
      PROVE  Goal
  <2> DEFINE x == Exec("write", "open", f)
             q == [x EXCEPT !.data = p, !.exclusive = ~ overwrite]
  <2>1. DOMAIN x = Fields /\ x.op = "write" /\ x.pc = "open" /\ x.file = f /\ x.pos = 0
    BY ExecParts, ExecZero
  <2>2. /\ DOMAIN q = Fields /\ q.op = "write" /\ q.pc = "open" /\ q.file = f
        /\ q.pos = 0 /\ q.data = p
    BY <2>1 DEF Fields
  <2>3. /\ Launch(Place, q) /\ Idle /\ Vacant # {}
        /\ UNCHANGED <<scratch, pager>> /\ Asks'
    BY <1>1 DEF WriteFile, Accepts, outside, Unoccupied
  <2> HIDE DEF q
  <2>4. ProcessSound([q EXCEPT !.attached = TRUE], scratch, EmptyBuffer)
    BY <2>2, PayloadsAssumption, StartsSound
  <2>5. ProcessesSound' /\ stdout' \in Buffers(Bytes)
    BY <1>a, <2>2, <2>3, <2>4, PlaceIsVacant, LaunchStaysSound
  <2> QED
    BY <1>b, <2>3, <2>5
<1>2. ASSUME NEW p, NEW n \in 0 .. 1, NEW encoding, ReadFile(p, n, encoding)
      PROVE  Goal
  <2>1. PICK f : /\ Launch(Place, Exec("stat", "open", f)) /\ Vacant # {}
                 /\ pager' \in {pager, [NothingRead EXCEPT !.file = f, !.encoding = encoding,
                                                           !.more = TRUE]}
    BY <1>2 DEF ReadFile, Accepts
  <2>2. Idle /\ UNCHANGED scratch /\ Asks'
    BY <1>2 DEF ReadFile, Accepts, Unoccupied
  <2>3. DOMAIN Exec("stat", "open", f) = Fields /\ Exec("stat", "open", f).op = "stat"
    BY ExecParts
  <2>4. ProcessesSound' /\ stdout' \in Buffers(Bytes)
    BY <1>a, <2>1, <2>2, <2>3, StartsSound, PlaceIsVacant, LaunchStaysSound
  <2>5. PagerTyped'
    <3>1. << >> \in Seq(Bytes \cup {Replacement})
      OBVIOUS
    <3>2. CASE pager' = pager
      BY <3>2 DEF Sound, FileTypes, PagerTyped
    <3>3. CASE pager' = [NothingRead EXCEPT !.file = f, !.encoding = encoding, !.more = TRUE]
      BY <3>1, <3>3 DEF NothingRead, PagerTyped, PagerFields
    <3> QED
      BY <2>1, <3>2, <3>3
  <2> QED
    BY <2>2, <2>4, <2>5 DEF Sound, FileTypes
<1>3. ASSUME NEW load, NEW save, HTTPRequest(load, save)
      PROVE  Goal
  <2> DEFINE x == Exec("http", "load", save)
             q == [x EXCEPT !.load = load]
  <2>1. DOMAIN x = Fields /\ x.op = "http"
    BY ExecParts
  <2>2. DOMAIN q = Fields /\ q.op = "http"
    BY <2>1 DEF Fields
  <2>3. /\ Launch(Place, q) /\ Idle /\ Vacant # {}
        /\ UNCHANGED <<scratch, pager>> /\ Asks'
    BY <1>3 DEF HTTPRequest, Accepts, Unoccupied
  <2> HIDE DEF q
  <2>4. ProcessesSound' /\ stdout' \in Buffers(Bytes)
    BY <1>a, <2>2, <2>3, StartsSound, PlaceIsVacant, LaunchStaysSound
  <2> QED
    BY <1>b, <2>3, <2>4
<1>4. ASSUME ResetSession \/ StopSession
      PROVE  Goal
  <2>1. /\ scratch' = [f \in Scratchfiles |-> Absent]
        /\ helper' = [h \in Helpers |-> None]
        /\ pager' = NothingRead /\ stdout' = stdout /\ req' = req
    BY <1>4 DEF ResetSession, StopSession, Empty
  <2>2. FileTypes'
    BY <1>c, <2>1 DEF FileTypes, PagerTyped, PagerFields, NothingRead
  <2>3. ProcessesSound'
    <3>1. ASSUME NEW h \in Helpers
          PROVE  ~ Moving(helper'[h])
      BY <2>1, NoneParts DEF Moving
    <3> QED
      BY <3>1 DEF ProcessesSound, ProcessSound, CopySound, ReadSound, Moving
  <2> QED
    BY <2>1, <2>2, <2>3 DEF Sound
<1>5. ASSUME WriteReturns \/ HTTPReturns
      PROVE  Goal
  <2>1. /\ req' = Unoccupied /\ req.pc = "wait"
        /\ UNCHANGED <<scratch, stdout, pager>> /\ Asks'
    BY <1>0, <1>5 DEF WriteReturns, HTTPReturns, Tracked, Executes, Unoccupied
  <2>2. req'.pc # "wait"
    BY <2>1 DEF Unoccupied
  <2>3. ProcessesSound'
    BY <1>0, <1>5, <2>1, <2>2, ReturnSound DEF WriteReturns, HTTPReturns
  <2> QED
    BY <1>b, <1>c, <2>1, <2>3
<1>6. ASSUME ReadReturns
      PROVE  Goal
  <2>1. /\ req' = Unoccupied /\ req.pc = "wait" /\ stdout' = EmptyBuffer
        /\ UNCHANGED scratch /\ Asks'
    BY <1>6 DEF ReadReturns, Unoccupied
  <2>2. ProcessesSound'
    <3>1. req'.pc # "wait"
      BY <2>1 DEF Unoccupied
    <3> QED
      BY <1>0, <1>6, <2>1, <3>1, ReturnSound DEF ReadReturns
  <2>3. PagerTyped'
    <3>0. PagerTyped
      BY DEF Sound, FileTypes
    <3>1. CASE pager' = pager
      BY <3>0, <3>1 DEF PagerTyped
    <3> DEFINE text == Carried(pager.encoding, stdout.kept)
               n == Len(pager.got)
    <3>2. ASSUME NEW more, pager' = [pager EXCEPT !.got = @ \o text, !.start = n,
                                                  !.more = more, !.answered = TRUE]
          PROVE  PagerTyped'
      <4>1. stdout.kept \in Seq(Bytes)
        BY <1>c DEF Buffers
      <4>2. text \in Seq(Bytes \cup {Replacement})
        BY <4>1, CarriedParts
      <4> HIDE DEF text
      <4>3. n \in Nat
        BY <3>0 DEF PagerTyped
      <4> HIDE DEF n
      <4>4. DOMAIN pager' = PagerFields
        BY <3>0, <3>2 DEF PagerTyped
      <4>5. pager'.got = pager.got \o text
        BY <3>0, <3>2 DEF PagerTyped, PagerFields
      <4>6. pager'.start = n
        BY <3>0, <3>2 DEF PagerTyped, PagerFields
      <4> QED
        BY <3>0, <4>2, <4>3, <4>4, <4>5, <4>6 DEF PagerTyped
    <3> QED
      BY <1>6, <3>1, <3>2 DEF ReadReturns
  <2> QED
    BY <1>c, <2>1, <2>2, <2>3 DEF Sound, FileTypes
<1>8. ASSUME StatReturns
      PROVE  Goal
  <2>0. /\ UNCHANGED <<scratch, pager>> /\ req.h \in Helpers
        /\ req.op = "stat" /\ req.pc = "wait"
    BY <1>0, <1>8 DEF StatReturns, outside, Tracked, Executes, Waiting
  <2>1. CASE ExecFails(req.h) /\ req' = Unoccupied /\ UNCHANGED stdout
    <3>1. req'.pc # "wait" /\ Asks'
      BY <2>1 DEF Unoccupied
    <3>2. ProcessesSound'
      BY <1>0, <2>0, <2>1, <3>1, ReturnSound
    <3> QED
      BY <1>b, <1>c, <2>0, <2>1, <3>1, <3>2
  <2>2. CASE /\ req' = [req EXCEPT !.op = "read", !.bytes = SizeIn(helper[req.h])]
             /\ Launch(req.h, [Exec("read", "open", helper[req.h].file) EXCEPT
                    !.pos = Len(pager.got),
                    !.from = Len(pager.got),
                    !.upto = Len(pager.got) + ReadSize(config, req.bytes),
                    !.limit = ExecOutputLimit(config.outputBytes)])
    <3> DEFINE from == Len(pager.got)
               upto == from + ReadSize(config, req.bytes)
               limit == ExecOutputLimit(config.outputBytes)
               x == Exec("read", "open", helper[req.h].file)
               q == [x EXCEPT !.pos = from, !.from = from, !.upto = upto, !.limit = limit]
    <3>1. DOMAIN x = Fields /\ x.op = "read" /\ x.pc = "open"
      BY ExecParts
    <3>2. from \in Nat /\ upto \in Int /\ limit \in Int
      <4>1. config.readBytes \in Int /\ config.outputBytes \in Int
        BY TransfersAssumption DEF Sound, ConfigOK
      <4>2. req.bytes \in Int /\ from \in Nat
        BY <2>0 DEF Sound, FileTypes, PagerTyped
      <4>3. ReadSize(config, req.bytes) \in Int
        BY <4>1, <4>2 DEF ReadSize
      <4> QED
        BY <4>1, <4>2, <4>3 DEF ExecOutputLimit, DefaultExecOutputLimit
    <3> HIDE DEF from, upto, limit, x
    <3>3. /\ DOMAIN q = Fields /\ q.op = "read" /\ q.pc = "open"
          /\ q.from = from /\ q.pos = from /\ q.upto = upto /\ q.limit = limit
      BY <3>1 DEF Fields
    <3>4. Launch(req.h, q)
      BY <2>2 DEF from, upto, limit, x
    <3> HIDE DEF q
    <3>5. \A g \in Helpers : helper[g].attached => g = req.h
      BY <1>0 DEF Tracked, OneAttached
    <3>6. ProcessSound([q EXCEPT !.attached = TRUE], scratch, EmptyBuffer)
      BY <3>2, <3>3, StartsSound
    <3>7. ProcessesSound' /\ stdout' \in Buffers(Bytes)
      BY <2>0, <3>3, <3>4, <3>5, <3>6, LaunchStaysSound
    <3>8. Asks'
      BY <1>0, <2>2 DEF Tracked, RequestShape, RequestFields
    <3> QED
      BY <1>b, <2>0, <3>7, <3>8
  <2> QED
    BY <1>8, <2>1, <2>2 DEF StatReturns
<1>9. ASSUME NEW f \in Scratchfiles, ExportLease(f)
      PROVE  Goal
  <2>0. UNCHANGED pager /\ req.op = "export" /\ req.pc = "lease"
    BY <1>9 DEF ExportLease, outside
  <2>1. CASE /\ Launch(Place, Exec("export", "open", f)) /\ Vacant # {}
             /\ UNCHANGED scratch /\ req' = [req EXCEPT !.pc = "wait", !.h = Place]
    <3> DEFINE x == Exec("export", "open", f)
    <3>1. /\ DOMAIN x = Fields /\ x.op = "export" /\ x.pc = "open"
          /\ x.pos = 0 /\ x.from = 0 /\ x.upto = 0 /\ x.limit = 0
      BY ExecParts, ExecZero
    <3> HIDE DEF x
    <3>2. ProcessSound([x EXCEPT !.attached = TRUE], scratch, EmptyBuffer)
      BY <3>1, StartsSound
    <3>3. Launch(Place, x)
      BY <2>1 DEF x
    <3>4. ProcessesSound' /\ stdout' \in Buffers(Bytes)
      BY <1>a, <2>0, <2>1, <3>1, <3>2, <3>3, PlaceIsVacant, LaunchStaysSound
    <3>5. Asks'
      BY <1>0, <2>0, <2>1 DEF Tracked, RequestShape, RequestFields
    <3> QED
      BY <1>b, <2>0, <2>1, <3>4, <3>5
  <2>2. CASE req' = Unoccupied /\ UNCHANGED inside
    BY <1>d, <2>0, <2>2 DEF inside, Unoccupied
  <2> QED
    BY <1>9, <2>1, <2>2 DEF ExportLease
<1>10. ASSUME ExportStreamed
      PROVE  Goal
  <2>1. /\ UNCHANGED <<scratch, pager>> /\ req.op = "export" /\ req.pc = "wait"
        /\ stdout' \in {stdout, EmptyBuffer}
    BY <1>10 DEF ExportStreamed, outside
  <2>2. req'.pc # "wait" /\ Asks'
    <3>1. CASE req' = Unoccupied
      BY <3>1 DEF Unoccupied
    <3>2. ASSUME NEW original,
                 req' = [req EXCEPT !.pc = "publish", !.h = Absent, !.original = original]
          PROVE  req'.pc # "wait" /\ Asks'
      BY <1>0, <2>1, <3>2 DEF Tracked, RequestShape, RequestFields
    <3> QED
      BY <1>10, <3>1, <3>2 DEF ExportStreamed
  <2>3. ProcessesSound'
    BY <1>0, <1>10, <2>1, <2>2, ReturnSound DEF ExportStreamed
  <2> QED
    BY <1>b, <1>c, <2>1, <2>2, <2>3
<1>11. ASSUME NEW h \in Helpers, HelperActs(h)
      PROVE  Goal
  <2>1. Asks'
    BY <1>11 DEF Sound, HelperActs, controller
  <2> QED
    BY <1>11, <2>1, HelperActsSound
<1>12. ASSUME NEW f \in Scratchfiles, NEW p \in Payloads, AgentWrites(f, p)
      PROVE  Goal
  <2>1. /\ helper' = Disturbed(f) /\ stdout' = stdout /\ Reread(f)
        /\ scratch' = [scratch EXCEPT ![f] = p] /\ p \in Seq(Bytes)
    BY <1>12, PayloadsAssumption DEF AgentWrites
  <2>2. FileTypes'
    BY <2>1, RereadTyped
  <2>3. ProcessesSound'
    <3>1. ASSUME NEW g \in Helpers
          PROVE  ProcessSound(helper'[g], scratch', stdout')
      BY <2>1, DisturbedStaySound
    <3> QED
      BY <3>1 DEF ProcessesSound, ProcessSound, CopySound, ReadSound, Moving
  <2>4. Asks'
    BY <1>12 DEF Sound, AgentWrites, controller
  <2> QED
    BY <2>2, <2>3, <2>4
<1>13. ASSUME Crash
      PROVE  Goal
  <2>1. /\ req' = [Unoccupied EXCEPT !.pc = "down"] /\ stdout' = EmptyBuffer
        /\ UNCHANGED <<scratch, pager>>
        /\ helper' = [h \in Helpers |->
                        IF helper[h].attached THEN CutOff(helper[h]) ELSE helper[h]]
    BY <1>13 DEF Crash, outside
  <2>2. req'.pc # "wait" /\ Asks'
    BY <2>1 DEF Unoccupied
  <2>3. ASSUME NEW g \in Helpers
        PROVE  Same(helper[g], helper'[g]) /\ ~ helper'[g].attached
    <3>1. DOMAIN helper[g] = Fields
      BY <1>0 DEF Tracked, HelperShape
    <3>2. ~ helper'[g].attached
      BY <1>0, <2>2 DEF Tracked, OneAttached
    <3> QED
      BY <2>1, <3>1, <3>2, CutOffSame, DisturbedSame
  <2>4. ProcessesSound'
    BY <2>1, <2>3, SameStaysSound
  <2> QED
    BY <1>b, <1>c, <2>1, <2>2, <2>4
<1>14. ASSUME Publish
      PROVE  Goal
  <2>1. /\ req' = Unoccupied /\ stdout' = EmptyBuffer /\ req.pc = "publish"
        /\ UNCHANGED <<scratch, helper, pager>>
    BY <1>14 DEF Publish
  <2>2. Asks'
    BY <2>1 DEF Unoccupied
  <2>3. ASSUME NEW g \in Helpers
        PROVE  Same(helper[g], helper'[g]) /\ ~ helper'[g].attached
    BY <1>0, <2>1, DisturbedSame DEF Tracked, HelperShape, OneAttached
  <2>4. ProcessesSound'
    BY <2>1, <2>3, SameStaysSound
  <2> QED
    BY <1>b, <1>c, <2>1, <2>2, <2>4
<1>15. ASSUME NEW p, ReadRefused(p)
      PROVE  Goal
  BY <1>d, <1>15 DEF ReadRefused, inside, outside, Unoccupied
<1>16. ASSUME NEW d \in Dests, ExportFile(d)
      PROVE  Goal
  BY <1>d, <1>16 DEF ExportFile, inside, outside, Unoccupied
<1>17. ASSUME NEW o, NEW g, StartSession(o, g)
      PROVE  Goal
  BY <1>d, <1>17 DEF StartSession, inside, Sound
<1>18. ASSUME Refuse \/ Restart
      PROVE  Goal
  BY <1>d, <1>18 DEF Refuse, Restart, inside, outside, Unoccupied
<1>19. ASSUME NEW f, NEW cookies, AgentBakes(f, cookies)
      PROVE  Goal
  <2>1. UNCHANGED <<scratch, helper, stdout, pager, req>>
    BY <1>19 DEF AgentBakes, controller
  <2>2. Asks'
    BY <2>1 DEF Sound
  <2> QED
    BY <1>d, <2>1, <2>2
<1>20. ASSUME UNCHANGED vars
      PROVE  Goal
  <2>1. UNCHANGED <<scratch, helper, stdout, pager, req>>
    BY <1>20 DEF vars, inside, controller, outside
  <2>2. Asks'
    BY <2>1 DEF Sound
  <2> QED
    BY <1>d, <2>1, <2>2
<1> QED
  <2>1. Goal
    <3> HIDE DEF Goal
    <3> QED
      BY <1>1, <1>2, <1>3, <1>4, <1>5, <1>6, <1>8, <1>9, <1>10, <1>11, <1>12, <1>13,
         <1>14, <1>15, <1>16, <1>17, <1>18, <1>19, <1>20 DEF Next, Request, Sizes, Work
  <2> QED
    BY <1>0, <2>1 DEF Sound

\* The invariant at the start.
LEMMA SoundInit == Init => Sound
<1> SUFFICES ASSUME Init PROVE Sound
  OBVIOUS
<1>1. /\ scratch = [f \in Scratchfiles |-> Absent]
      /\ stdout = EmptyBuffer /\ pager = NothingRead /\ req = Unoccupied
      /\ \A h \in Helpers : helper[h] = None
  BY DEF Init
<1>2. FileTypes
  BY <1>1 DEF FileTypes, PagerTyped, PagerFields, EmptyBuffer, Buffers, NothingRead
<1>3. ProcessesSound
  BY <1>1, NoneParts, NotMovingSound DEF ProcessesSound, Moving
<1> QED
  BY <1>1, <1>2, <1>3, TrackedInit DEF Sound, Init, ConfigOK, Unoccupied

\* The controller keeps exactly the beginning of what an undisturbed reader
\* has sent it, and says whether something is missing.
THEOREM OutputIsExact == Spec => []OutputExact
<1>1. Sound /\ [Next]_vars => Sound'
  BY SoundStays
<1>2. Sound => OutputExact
  BY DEF Sound, ProcessesSound, ProcessSound, ReadSound, Moving, OutputExact
<1> QED
  BY <1>1, <1>2, SoundInit, PTL DEF Spec

-----------------------------------------------------------------------------
(* What the client may rely on.                                            *)

\* A writer that will be told to have succeeded has written, so far, just what
\* it was given; where something is stored, it may only be refused.
WritePromise(p, content, told) ==
  /\ told # Absent => p.exclusive /\ p.pc \in {"open", "failed"}
  /\ told = Absent /\ p.attached =>
       /\ p.pc = "copy" => content = SubSeq(p.data, 1, p.pos)
       /\ p.pc = "done" => content = p.data

\* A request that sends HTTP has, from loading to saving, what was answered
\* before and has not expired.
CookiePromise(p, kept, known) ==
  /\ p.pc = "load" => p.load = p.file \/ known = {}
  /\ p.pc = "request" => known \subseteq p.cookies
  /\ p.pc \in {"save", "rename"} =>
       known \ p.expired \subseteq p.cookies /\ p.fresh \subseteq p.cookies
  /\ p.attached /\ p.pc = "done" => p.fresh \subseteq kept

At(f) == {h \in Helpers : Busy(helper[h]) /\ helper[h].file = f}

Sole(f) == \A g, h \in At(f) : g = h

FileRelied(f) ==
  /\ Sole(f)
  /\ stored[f] # Absent => scratch[f] = stored[f]
  /\ \A h \in At(f) : WritePromise(helper[h], scratch[f], stored[f])

CookiesRelied(f) ==
  /\ Sole(f)
  /\ acked[f] \subseteq jar[f]
  /\ \A h \in At(f) : CookiePromise(helper[h], jar[f], acked[f])

\* Writers work on files, and the others on cookie files, if on any.
InPlace(p) ==
  Busy(p) => IF p.op = "write" THEN p.file \in Scratchfiles
                               ELSE p.file \in CookieFiles \cup {Absent}

\* One helper at a time keeps the promises about a file that is not contested.
Relied ==
  /\ Sound
  /\ DOMAIN stored = Scratchfiles /\ DOMAIN jar = CookieFiles /\ DOMAIN acked = CookieFiles
  /\ \A h \in Helpers : InPlace(helper[h])
  /\ \A f \in Scratchfiles \ contested : FileRelied(f)
  /\ \A f \in CookieFiles \ contested : CookiesRelied(f)

\* The same process as far as its promise goes, unless it is not busy.
Alike(p, q) ==
  Busy(q) =>
    /\ Busy(p) /\ p.op = q.op /\ p.pc = q.pc /\ p.file = q.file
    /\ p.data = q.data /\ p.pos = q.pos /\ p.exclusive = q.exclusive
    /\ p.load = q.load /\ p.cookies = q.cookies
    /\ p.fresh = q.fresh /\ p.expired = q.expired
    /\ q.attached => p.attached

AllAlike(f) == \A g \in Helpers : helper'[g].file = f => Alike(helper[g], helper'[g])

\* Files are no cookie files.
LEMMA FilesApart ==
  CookieFiles \cap Scratchfiles = {} /\ Absent \notin Scratchfiles \cup CookieFiles
BY TransfersAssumption, PathsAssumption

\* What only writers work on is relied on as before.
LEMMA FileStays ==
  ASSUME NEW f, FileRelied(f), AllAlike(f), scratch'[f] = scratch[f], stored'[f] = stored[f]
  PROVE  FileRelied(f)'
<1>1. At(f)' \subseteq At(f)
  BY DEF At, AllAlike, Alike
<1>2. Sole(f)'
  BY <1>1 DEF Sole, FileRelied
<1>3. ASSUME NEW h \in At(f)'
      PROVE  WritePromise(helper'[h], scratch'[f], stored'[f])
  <2>1. WritePromise(helper[h], scratch[f], stored[f])
    BY <1>1 DEF FileRelied
  <2>2. Busy(helper'[h]) /\ Alike(helper[h], helper'[h])
    BY DEF At, AllAlike
  <2> QED
    BY <2>1, <2>2 DEF WritePromise, Alike
<1> QED
  BY <1>2, <1>3 DEF FileRelied

\* So are cookies.
LEMMA JarStays ==
  ASSUME NEW f, CookiesRelied(f), AllAlike(f), jar'[f] = jar[f], acked'[f] = acked[f]
  PROVE  CookiesRelied(f)'
<1>1. At(f)' \subseteq At(f)
  BY DEF At, AllAlike, Alike
<1>2. Sole(f)'
  BY <1>1 DEF Sole, CookiesRelied
<1>3. ASSUME NEW h \in At(f)'
      PROVE  CookiePromise(helper'[h], jar'[f], acked'[f])
  <2>1. CookiePromise(helper[h], jar[f], acked[f])
    BY <1>1 DEF CookiesRelied
  <2>2. Busy(helper'[h]) /\ Alike(helper[h], helper'[h])
    BY DEF At, AllAlike
  <2> QED
    BY <2>1, <2>2 DEF CookiePromise, Alike
<1> QED
  BY <1>2, <1>3 DEF CookiesRelied

\* A helper that starts to write, where no other is at work, promises that.
LEMMA FileAnew ==
  ASSUME NEW f, NEW h, At(f)' \subseteq {h}, stored'[f] # Absent => scratch'[f] = stored'[f],
         h \in At(f)' => WritePromise(helper'[h], scratch'[f], stored'[f])
  PROVE  FileRelied(f)'
<1>1. \A g \in At(f)' : g = h
  OBVIOUS
<1> QED
  BY <1>1 DEF FileRelied, Sole

LEMMA JarAnew ==
  ASSUME NEW f, NEW h, At(f)' \subseteq {h}, acked'[f] \subseteq jar'[f],
         h \in At(f)' => CookiePromise(helper'[h], jar'[f], acked'[f])
  PROVE  CookiesRelied(f)'
<1>1. \A g \in At(f)' : g = h
  OBVIOUS
<1> QED
  BY <1>1 DEF CookiesRelied, Sole

Promises == <<scratch, jar, stored, acked, contested>>

\* Nothing is relied on less while all busy helpers are what they were.
LEMMA ReliedStays ==
  ASSUME Relied, Sound', UNCHANGED Promises,
         \A g \in Helpers : Alike(helper[g], helper'[g])
  PROVE  Relied'
<1>1. \A f \in Scratchfiles \ contested' : FileRelied(f)'
  BY FileStays DEF Relied, Promises, AllAlike
<1>2. \A f \in CookieFiles \ contested' : CookiesRelied(f)'
  BY JarStays DEF Relied, Promises, AllAlike
<1>3. \A g \in Helpers : InPlace(helper'[g])
  BY DEF Relied, InPlace, Alike
<1> QED
  BY <1>1, <1>2, <1>3 DEF Relied, Promises, InPlace

\* A process whose docker client is killed goes on as it was.
LEMMA CutOffAlike ==
  ASSUME NEW p, DOMAIN p = Fields
  PROVE  Alike(p, CutOff(p)) /\ Alike(p, None) /\ Alike(p, p)
<1> DEFINE q == [p EXCEPT !.attached = FALSE, !.alone = TRUE]
<1>1. /\ q.op = p.op /\ q.pc = p.pc /\ q.file = p.file /\ q.data = p.data
      /\ q.pos = p.pos /\ q.exclusive = p.exclusive /\ q.load = p.load
      /\ q.cookies = p.cookies /\ q.fresh = p.fresh /\ q.expired = p.expired
  BY DEF Fields
<1>2. ~ q.attached
  BY DEF Fields
<1>3. CutOff(p) \in {q, None}
  BY DEF CutOff
<1> HIDE DEF q
<1>4. Alike(p, None)
  BY NoneParts DEF Alike, Busy
<1>5. Alike(p, q)
  BY <1>1, <1>2 DEF Alike, Busy
<1>6. Alike(p, p)
  BY DEF Alike
<1> QED
  BY <1>3, <1>4, <1>5, <1>6

\* So does one whose file is changed by another.
LEMMA DisturbedAlike ==
  ASSUME NEW p, DOMAIN p = Fields
  PROVE  Alike(p, [p EXCEPT !.alone = FALSE])
<1> DEFINE q == [p EXCEPT !.alone = FALSE]
<1>1. /\ q.op = p.op /\ q.pc = p.pc /\ q.file = p.file /\ q.data = p.data
      /\ q.pos = p.pos /\ q.exclusive = p.exclusive /\ q.load = p.load
      /\ q.cookies = p.cookies /\ q.fresh = p.fresh /\ q.expired = p.expired
  BY DEF Fields
<1>2. q.attached <=> p.attached
  BY DEF Fields
<1> HIDE DEF q
<1> QED
  BY <1>1, <1>2 DEF Alike, Busy, q

\* A helper that starts, and promises nothing.
LEMMA LaunchAlike ==
  ASSUME HelperShape, NEW h \in Helpers, NEW p, DOMAIN p = Fields, Launch(h, p),
         p.op \notin {"write", "http"}
  PROVE  \A g \in Helpers : Alike(helper[g], helper'[g])
<1> DEFINE q == [p EXCEPT !.attached = TRUE]
<1>1. q.op = p.op
  BY DEF Fields
<1>2. helper' = [helper EXCEPT ![h] = q]
  BY DEF Launch
<1> HIDE DEF q
<1>3. Alike(helper[h], q)
  BY <1>1 DEF Alike, Busy
<1> QED
  BY <1>2, <1>3, CutOffAlike DEF HelperShape

\* A helper whose request returns.
LEMMA ReturnAlike ==
  ASSUME Tracked, req.pc = "wait", (\E how : Exits(req.h, how)) \/ ExecFails(req.h)
  PROVE  \A g \in Helpers : Alike(helper[g], helper'[g])
<1>1. req.h \in Helpers /\ HelperShape
  BY DEF Tracked, Waiting
<1>2. PICK q \in {None, CutOff(helper[req.h])} : helper' = [helper EXCEPT ![req.h] = q]
  BY DEF Exits, ExecFails, Become
<1> QED
  BY <1>1, <1>2, CutOffAlike DEF HelperShape

\* A step of a helper concerns its file only, and others only if they read it.
LEMMA StepReaches ==
  ASSUME HelperShape, NEW h \in Helpers, HelperStep(h)
  PROVE  /\ \A g \in Helpers \ {h} : Alike(helper[g], helper'[g])
         /\ \A e \in DOMAIN scratch \ {helper[h].file} : scratch'[e] = scratch[e]
         /\ \A e \in DOMAIN jar \ {helper[h].file} : jar'[e] = jar[e]
         /\ scratch' = scratch \/ (Busy(helper[h]) /\ helper[h].op = "write")
         /\ jar' = jar \/ (Busy(helper[h]) /\ helper[h].op = "http")
         /\ DOMAIN jar' = DOMAIN jar
<1> DEFINE p == helper[h]
           Goal == /\ \A g \in Helpers \ {h} : Alike(helper[g], helper'[g])
                   /\ \A e \in DOMAIN scratch \ {p.file} : scratch'[e] = scratch[e]
                   /\ \A e \in DOMAIN jar \ {p.file} : jar'[e] = jar[e]
                   /\ scratch' = scratch \/ (Busy(p) /\ p.op = "write")
                   /\ jar' = jar \/ (Busy(p) /\ p.op = "http")
                   /\ DOMAIN jar' = DOMAIN jar
<1>1. ASSUME NEW q, Become(h, q)
      PROVE  \A g \in Helpers \ {h} : Alike(helper[g], helper'[g])
  BY <1>1, CutOffAlike DEF HelperShape, Become
<1>2. ASSUME NEW q, Become(h, q), UNCHANGED <<scratch, jar>>
      PROVE  Goal
  BY <1>1, <1>2
<1>3. ASSUME NEW q, NEW content, Change(h, p.file, content, q), UNCHANGED jar,
             p.op = "write", p.pc \in {"open", "copy"}
      PROVE  Goal
  <2>1. /\ scratch' = [scratch EXCEPT ![p.file] = content]
        /\ helper' = [Disturbed(p.file) EXCEPT ![h] = q]
    BY <1>3 DEF Change
  <2>2. Busy(p)
    BY <1>3 DEF Busy
  <2>3. ASSUME NEW g \in Helpers \ {h}
        PROVE  Alike(helper[g], helper'[g])
    <3>1. helper'[g] \in {helper[g], [helper[g] EXCEPT !.alone = FALSE]}
      BY <2>1 DEF Disturbed
    <3>2. DOMAIN helper[g] = Fields
      BY DEF HelperShape
    <3> QED
      BY <3>1, <3>2, CutOffAlike, DisturbedAlike
  <2> QED
    BY <1>3, <2>1, <2>2, <2>3
<1>4. ASSUME WriteOpen(h)
      PROVE  Goal
  BY <1>2, <1>3, <1>4 DEF WriteOpen
<1>5. ASSUME WriteCopy(h)
      PROVE  Goal
  <2>1. PICK content, q : Change(h, p.file, content, q)
    BY <1>5 DEF WriteCopy
  <2> QED
    BY <1>3, <1>5, <2>1 DEF WriteCopy
<1>6. ASSUME RenameCookies(h)
      PROVE  Goal
  <2>1. /\ jar' = [jar EXCEPT ![p.file] = p.cookies] /\ UNCHANGED scratch
        /\ Become(h, Ended(p, "done")) /\ p.op = "http" /\ p.pc = "rename"
    BY <1>6 DEF RenameCookies, Replace
  <2>2. Busy(p)
    BY <2>1 DEF Busy
  <2> QED
    BY <1>1, <2>1, <2>2
<1>7. ASSUME WriteEnd(h) \/ Stat(h) \/ ReadOpen(h) \/ ReadCopy(h) \/ ReadEnd(h)
             \/ LoadCookies(h) \/ Exchange(h) \/ SaveCookies(h) \/ Fails(h)
      PROVE  Goal
  <2>1. UNCHANGED <<scratch, jar>> /\ \E q : Become(h, q)
    BY <1>7 DEF WriteEnd, Stat, ReadOpen, ReadCopy, ReadEnd, LoadCookies, Exchange,
       SaveCookies, Fails
  <2> QED
    BY <1>2, <2>1
<1> QED
  <2>1. Goal
    <3> HIDE DEF Goal
    <3> QED
      BY <1>4, <1>5, <1>6, <1>7 DEF HelperStep
  <2> QED
    BY <2>1

\* What becomes of a process that ends, as far as its promise goes.
LEMMA EndedKeeps ==
  ASSUME NEW p, DOMAIN p = Fields, NEW how \in {"done", "failed"}, Busy(Ended(p, how))
  PROVE  /\ p.attached /\ Ended(p, how).pc = how
         /\ Ended(p, how).exclusive = p.exclusive /\ Ended(p, how).data = p.data
         /\ Ended(p, how).fresh = p.fresh
<1>1. p.attached
  BY EndedParts, NoneParts DEF Busy
<1>2. Ended(p, how) = [p EXCEPT !.pc = how]
  BY <1>1 DEF Ended
<1> QED
  BY <1>1, <1>2, EndedParts DEF Fields

\* The step of a writer that is alone at work on its file.
LEMMA WriterActs ==
  ASSUME Relied, NEW h \in Helpers, HelperActs(h), Busy(helper[h]), helper[h].op = "write",
         FileRelied(helper[h].file)
  PROVE  LET f == helper[h].file IN
         /\ stored[f] # Absent => scratch'[f] = stored[f]
         /\ Busy(helper'[h]) => WritePromise(helper'[h], scratch'[f], stored[f])
<1> DEFINE p == helper[h]
           f == p.file
           Goal == /\ stored[f] # Absent => scratch'[f] = stored[f]
                   /\ Busy(helper'[h]) => WritePromise(helper'[h], scratch'[f], stored[f])
<1>0. /\ DOMAIN p = Fields /\ DOMAIN helper = Helpers /\ CopySound(p, scratch)
      /\ f \in Scratchfiles /\ DOMAIN scratch = Scratchfiles
      /\ stored[f] # Absent => scratch[f] = stored[f]
      /\ WritePromise(p, scratch[f], stored[f])
  BY DEF Relied, Sound, Tracked, HelperShape, ProcessesSound, ProcessSound, FileTypes,
     InPlace, FileRelied, At
<1>a. ASSUME NEW q, Become(h, q)
      PROVE  helper'[h] = q
  BY <1>0, <1>a DEF Become
<1>b. ASSUME NEW q, NEW content, Change(h, f, content, q)
      PROVE  helper'[h] = q /\ scratch'[f] = content
  BY <1>0, <1>b DEF Change, Disturbed
<1>1. ASSUME Become(h, Ended(p, "failed")) /\ UNCHANGED scratch
      PROVE  Goal
  <2>1. helper'[h] = Ended(p, "failed")
    BY <1>1, <1>a
  <2> QED
    BY <1>0, <1>1, <2>1, EndedKeeps DEF WritePromise
<1>2. ASSUME WriteOpen(h) /\ ~ (Become(h, Ended(p, "failed")) /\ UNCHANGED scratch)
      PROVE  Goal
  <2> DEFINE q == [p EXCEPT !.pc = "copy"]
  <2>1. /\ Change(h, f, << >>, q) /\ p.pc = "open"
        /\ ~ (p.exclusive /\ scratch[f] # Absent)
    BY <1>2 DEF WriteOpen
  <2>2. stored[f] = Absent
    BY <1>0, <2>1 DEF WritePromise
  <2>3. q.pc = "copy" /\ q.pos = 0 /\ q.data = p.data
    BY <1>0, <2>1 DEF CopySound, Moving, Fields
  <2>4. helper'[h] = q /\ scratch'[f] = << >>
    BY <1>b, <2>1
  <2> HIDE DEF q
  <2>5. SubSeq(q.data, 1, q.pos) = << >>
    BY <2>3
  <2> QED
    BY <2>2, <2>3, <2>4, <2>5 DEF WritePromise
<1>3. ASSUME WriteCopy(h)
      PROVE  Goal
  <2>1. /\ p.pc = "copy" /\ p.data \in Seq(Bytes) /\ p.pos \in 0 .. Len(p.data)
        /\ stored[f] = Absent
    BY <1>0, <1>3 DEF WriteCopy, CopySound, Moving, WritePromise
  <2>2. PICK upto \in p.pos + 1 .. Len(p.data) :
          Change(h, f, Overlay(scratch[f], p.pos, SubSeq(p.data, p.pos + 1, upto)),
                 [p EXCEPT !.pos = upto])
    BY <1>3 DEF WriteCopy
  <2> DEFINE content == Overlay(scratch[f], p.pos, SubSeq(p.data, p.pos + 1, upto))
             q == [p EXCEPT !.pos = upto]
  <2>3. helper'[h] = q /\ scratch'[f] = content
    BY <1>b, <2>2
  <2>4. q.pc = "copy" /\ q.pos = upto /\ q.data = p.data
    BY <1>0, <2>1 DEF Fields
  <2>5. q.attached <=> p.attached
    BY <1>0 DEF Fields
  <2>6. p.attached => content = SubSeq(p.data, 1, upto)
    <3>1. p.attached => scratch[f] = SubSeq(p.data, 1, p.pos)
      BY <1>0, <2>1 DEF WritePromise
    <3>2. p.pos \in Nat
      BY <2>1
    <3> QED
      BY <2>1, <2>2, <3>1, <3>2, OverlayAppends
  <2> HIDE DEF q, content
  <2> QED
    BY <2>1, <2>3, <2>4, <2>5, <2>6 DEF WritePromise
<1>4. ASSUME WriteEnd(h)
      PROVE  Goal
  <2>1. /\ p.pc = "copy" /\ p.data \in Seq(Bytes) /\ stored[f] = Absent
        /\ p.attached => p.pos = Len(p.data)
        /\ Become(h, Ended(p, "done")) /\ UNCHANGED scratch
    BY <1>0, <1>4 DEF WriteEnd, CopySound, Moving, WritePromise
  <2>2. helper'[h] = Ended(p, "done")
    BY <1>a, <2>1
  <2>3. p.attached => scratch[f] = p.data
    <3>1. SubSeq(p.data, 1, Len(p.data)) = p.data
      BY <2>1
    <3> QED
      BY <1>0, <2>1, <3>1 DEF WritePromise
  <2> QED
    BY <2>1, <2>2, <2>3, EndedKeeps, <1>0 DEF WritePromise
<1> QED
  <2>1. WriteOpen(h) \/ WriteCopy(h) \/ WriteEnd(h) \/ Fails(h)
    BY DEF HelperActs, HelperStep, Stat, ReadOpen, ReadCopy, ReadEnd, LoadCookies,
       Exchange, SaveCookies, RenameCookies
  <2>2. Goal
    <3> HIDE DEF Goal
    <3> QED
      BY <1>1, <1>2, <1>3, <1>4, <2>1 DEF Fails
  <2> QED
    BY <2>2

\* The step of a helper that alone is at work on its cookie file.
LEMMA BakerActs ==
  ASSUME Relied, NEW h \in Helpers, HelperActs(h), Busy(helper[h]), helper[h].op = "http",
         helper[h].file \in CookieFiles, CookiesRelied(helper[h].file)
  PROVE  LET f == helper[h].file IN
         /\ acked'[f] \subseteq jar'[f]
         /\ Busy(helper'[h]) => CookiePromise(helper'[h], jar'[f], acked'[f])
<1> DEFINE p == helper[h]
           f == p.file
           Goal == /\ acked'[f] \subseteq jar'[f]
                   /\ Busy(helper'[h]) => CookiePromise(helper'[h], jar'[f], acked'[f])
<1>0. /\ DOMAIN p = Fields /\ DOMAIN helper = Helpers
      /\ f # Absent /\ DOMAIN jar = CookieFiles /\ DOMAIN acked = CookieFiles
      /\ acked[f] \subseteq jar[f]
      /\ CookiePromise(p, jar[f], acked[f])
  BY FilesApart DEF Relied, Sound, Tracked, HelperShape, CookiesRelied, At
<1>a. ASSUME NEW q, Become(h, q)
      PROVE  helper'[h] = q
  BY <1>0, <1>a DEF Become
<1>b. ASSUME jar' = jar
      PROVE  acked' = acked
  BY <1>b DEF HelperActs
<1>1. ASSUME Fails(h)
      PROVE  Goal
  <2>1. helper'[h] = Ended(p, "failed") /\ jar' = jar
    BY <1>1, <1>a DEF Fails
  <2> QED
    BY <1>0, <1>b, <2>1, EndedKeeps DEF CookiePromise
<1>2. ASSUME LoadCookies(h)
      PROVE  Goal
  <2> DEFINE loaded == IF p.load = Absent THEN {} ELSE jar[p.load]
             q == [p EXCEPT !.pc = "request", !.cookies = loaded]
  <2>1. helper'[h] = q /\ jar' = jar /\ p.pc = "load"
    BY <1>2, <1>a DEF LoadCookies
  <2>2. q.pc = "request" /\ q.cookies = loaded
    BY <1>0 DEF Fields
  <2>3. acked[f] \subseteq loaded
    BY <1>0, <2>1 DEF CookiePromise
  <2> HIDE DEF q, loaded
  <2> QED
    BY <1>0, <1>b, <2>1, <2>2, <2>3 DEF CookiePromise
<1>3. ASSUME Exchange(h)
      PROVE  Goal
  <2> DEFINE q(new, old) == [p EXCEPT !.cookies = (@ \ old) \cup new,
                                      !.fresh = new, !.expired = old]
             r(new, old) == [q(new, old) EXCEPT !.pc = "save"]
  <2>1. PICK new, old : Become(h, r(new, old))
    BY <1>0, <1>3 DEF Exchange
  <2>2. helper'[h] = r(new, old) /\ jar' = jar /\ p.pc = "request"
    BY <1>3, <1>a, <2>1 DEF Exchange
  <2>3. /\ r(new, old).pc = "save" /\ r(new, old).cookies = (p.cookies \ old) \cup new
        /\ r(new, old).fresh = new /\ r(new, old).expired = old
    BY <1>0 DEF Fields
  <2> HIDE DEF r
  <2> QED
    BY <1>0, <1>b, <2>2, <2>3 DEF CookiePromise
<1>4. ASSUME SaveCookies(h)
      PROVE  Goal
  <2> DEFINE q == [p EXCEPT !.pc = "rename"]
  <2>1. helper'[h] = q /\ jar' = jar /\ p.pc = "save"
    BY <1>4, <1>a DEF SaveCookies
  <2>2. /\ q.pc = "rename" /\ q.cookies = p.cookies /\ q.fresh = p.fresh
        /\ q.expired = p.expired
    BY <1>0 DEF Fields
  <2> HIDE DEF q
  <2> QED
    BY <1>0, <1>b, <2>1, <2>2 DEF CookiePromise
<1>5. ASSUME RenameCookies(h)
      PROVE  Goal
  <2>1. /\ jar' = [jar EXCEPT ![f] = p.cookies] /\ p.pc = "rename"
        /\ helper'[h] = Ended(p, "done")
    BY <1>5, <1>a DEF RenameCookies, Replace
  <2>2. jar'[f] = p.cookies
    BY <1>0, <2>1
  <2>3. acked[f] \ p.expired \subseteq p.cookies /\ p.fresh \subseteq p.cookies
    BY <1>0, <2>1 DEF CookiePromise
  <2>4. acked'[f] \subseteq jar'[f]
    <3>1. CASE jar' = jar
      BY <1>0, <1>b, <3>1
    <3>2. CASE jar' # jar
      <4>1. acked' = [acked EXCEPT ![f] = @ \ p.expired]
        BY <3>2 DEF HelperActs
      <4> QED
        BY <1>0, <2>2, <2>3, <4>1
    <3> QED
      BY <3>1, <3>2
  <2> QED
    BY <1>0, <2>1, <2>2, <2>3, <2>4, EndedKeeps DEF CookiePromise
<1> QED
  <2>1. \/ LoadCookies(h) \/ Exchange(h) \/ SaveCookies(h) \/ RenameCookies(h)
        \/ Fails(h)
    BY DEF HelperActs, HelperStep, WriteOpen, WriteCopy, WriteEnd, Stat, ReadOpen,
       ReadCopy, ReadEnd
  <2>2. Goal
    <3> HIDE DEF Goal
    <3> QED
      BY <1>1, <1>2, <1>3, <1>4, <1>5, <2>1
  <2> QED
    BY <2>2

\* Whatever a helper does, cut off or not, keeps what is relied on.
LEMMA HelperActsRelied ==
  ASSUME Relied, Sound', NEW h \in Helpers, HelperActs(h)
  PROVE  Relied'
<1> DEFINE p == helper[h]
<1>0. /\ HelperShape /\ HelperStep(h) /\ UNCHANGED <<stored, contested>>
      /\ DOMAIN scratch = Scratchfiles /\ DOMAIN jar = CookieFiles
      /\ DOMAIN acked = CookieFiles
  BY DEF Relied, Sound, Tracked, FileTypes, HelperActs
<1>1. Kin(p, helper'[h])
  BY <1>0, HelperStepKin
<1>2. \A g \in Helpers \ {h} : Alike(helper[g], helper'[g])
  BY <1>0, StepReaches
<1>3. \A g \in Helpers : InPlace(helper'[g])
  <2>1. InPlace(helper'[h])
    BY <1>1 DEF Relied, InPlace, Kin
  <2> QED
    BY <1>2, <2>1 DEF Relied, InPlace, Alike
<1>4. ASSUME NEW f, f # p.file \/ ~ Busy(p)
      PROVE  AllAlike(f)
  <2>1. helper'[h].file = f => ~ Busy(helper'[h])
    BY <1>1, <1>4 DEF Kin
  <2> QED
    BY <1>2, <2>1 DEF AllAlike, Alike
<1>5. ASSUME NEW f, Sole(f), f = p.file, Busy(p)
      PROVE  h \in At(f) /\ At(f)' \subseteq {h}
  <2>1. h \in At(f)
    BY <1>5 DEF At
  <2>2. ASSUME NEW g \in At(f)', g # h
        PROVE  FALSE
    <3>1. g \in At(f)
      BY <1>2, <2>2 DEF At, Alike
    <3> QED
      BY <1>5, <2>1, <2>2, <3>1 DEF Sole
  <2> QED
    BY <2>1, <2>2
<1>6. ASSUME NEW f \in Scratchfiles \ contested
      PROVE  FileRelied(f)'
  <2>0. FileRelied(f) /\ Sole(f)
    BY DEF Relied, FileRelied
  <2>1. CASE f = p.file /\ Busy(p)
    <3>1. p.op = "write"
      BY <2>1, FilesApart DEF Relied, InPlace
    <3>2. /\ stored[f] # Absent => scratch'[f] = stored[f]
          /\ Busy(helper'[h]) => WritePromise(helper'[h], scratch'[f], stored[f])
      BY <2>0, <2>1, <3>1, WriterActs
    <3> QED
      BY <1>0, <1>5, <2>0, <2>1, <3>2, FileAnew DEF At
  <2>2. CASE f # p.file \/ ~ Busy(p)
    <3>1. scratch'[f] = scratch[f]
      BY <1>0, <2>2, StepReaches
    <3> QED
      BY <1>0, <1>4, <2>0, <2>2, <3>1, FileStays
  <2> QED
    BY <2>1, <2>2
<1>7. ASSUME NEW f \in CookieFiles \ contested
      PROVE  CookiesRelied(f)'
  <2>0. CookiesRelied(f) /\ Sole(f)
    BY DEF Relied, CookiesRelied
  <2>1. CASE f = p.file /\ Busy(p)
    <3>1. p.op = "http"
      BY <2>1, FilesApart DEF Relied, InPlace, Busy
    <3>2. /\ acked'[f] \subseteq jar'[f]
          /\ Busy(helper'[h]) => CookiePromise(helper'[h], jar'[f], acked'[f])
      BY <2>0, <2>1, <3>1, BakerActs
    <3> QED
      BY <1>5, <2>0, <2>1, <3>2, JarAnew DEF At
  <2>2. CASE f # p.file \/ ~ Busy(p)
    <3>1. jar'[f] = jar[f]
      BY <1>0, <2>2, StepReaches
    <3>2. acked'[f] = acked[f]
      <4>1. CASE jar' = jar
        BY <4>1 DEF HelperActs
      <4>2. CASE jar' # jar
        <5>1. acked' = [acked EXCEPT ![p.file] = @ \ p.expired]
          BY <4>2 DEF HelperActs
        <5>2. Busy(p)
          BY <1>0, <4>2, StepReaches
        <5> QED
          BY <1>0, <2>2, <5>1, <5>2
      <4> QED
        BY <4>1, <4>2
    <3> QED
      BY <1>4, <2>0, <2>2, <3>1, <3>2, JarStays
  <2> QED
    BY <2>1, <2>2
<1>8. DOMAIN jar' = CookieFiles /\ DOMAIN acked' = CookieFiles
  BY <1>0, StepReaches DEF HelperActs
<1> QED
  BY <1>0, <1>3, <1>6, <1>7, <1>8 DEF Relied, InPlace

\* Between requests only what was left behind is at work.
LEMMA NobodyAt ==
  ASSUME Tracked, Idle, NEW f, ~ LeftBehind(f)
  PROVE  At(f) = {}
BY DEF Tracked, OneAttached, Idle, LeftBehind, Detached, Running, At, Busy

\* A helper starts that may change its file.
LEMMA LaunchAt ==
  ASSUME HelperShape, NEW h \in Helpers, NEW p, DOMAIN p = Fields, Launch(h, p)
  PROVE  /\ \A f : f # p.file => AllAlike(f)
         /\ \A f : At(f)' \subseteq At(f) \cup {h}
         /\ helper'[h] = [p EXCEPT !.attached = TRUE]
<1> DEFINE q == [p EXCEPT !.attached = TRUE]
<1>1. helper' = [helper EXCEPT ![h] = q]
  BY DEF Launch
<1>2. q.file = p.file
  BY DEF Fields
<1> HIDE DEF q
<1>3. helper'[h] = q /\ \A g \in Helpers \ {h} : helper'[g] = helper[g]
  BY <1>1 DEF HelperShape
<1>4. \A f : f # p.file => AllAlike(f)
  BY <1>2, <1>3, CutOffAlike DEF AllAlike, HelperShape
<1>5. \A f : At(f)' \subseteq At(f) \cup {h}
  BY <1>3 DEF At
<1> QED
  BY <1>3, <1>4, <1>5 DEF q

\* What is asked for anew is given up where it was not sure; where somebody was
\* left behind, nothing is promised.
LEMMA WriteFileRelied ==
  ASSUME Relied, Sound', NEW f \in Scratchfiles, NEW p \in Payloads, NEW overwrite,
         WriteFile(f, p, overwrite)
  PROVE  Relied'
<1> DEFINE x == Exec("write", "open", f)
           q == [x EXCEPT !.data = p, !.exclusive = ~ overwrite]
           r == [q EXCEPT !.attached = TRUE]
<1>0. /\ Tracked /\ HelperShape /\ DOMAIN stored = Scratchfiles /\ DOMAIN jar = CookieFiles
      /\ DOMAIN acked = CookieFiles /\ Idle /\ Place \in Helpers /\ Launch(Place, q)
      /\ UNCHANGED <<scratch, jar, acked>>
  BY PlaceIsVacant DEF Relied, Sound, Tracked, WriteFile, Accepts
<1>1. DOMAIN x = Fields /\ x.op = "write" /\ x.pc = "open" /\ x.file = f
  BY ExecParts
<1>2. /\ DOMAIN q = Fields /\ q.op = "write" /\ q.pc = "open" /\ q.file = f
      /\ q.exclusive = ~ overwrite
  BY <1>1 DEF Fields
<1> HIDE DEF x, q
<1>3. r.op = "write" /\ r.pc = "open" /\ r.file = f /\ r.exclusive = ~ overwrite
  BY <1>2 DEF Fields
<1>4. /\ \A e : e # f => AllAlike(e)
      /\ \A e : At(e)' \subseteq At(e) \cup {Place}
      /\ helper'[Place] = r
  BY <1>0, <1>2, LaunchAt
<1> HIDE DEF r
<1>5. /\ contested' = IF LeftBehind(f) THEN contested \cup {f} ELSE contested \ {f}
      /\ stored' = IF overwrite \/ f \in contested THEN [stored EXCEPT ![f] = Absent]
                   ELSE stored
  BY DEF WriteFile, Contend, GivesUp
<1>6. ASSUME NEW e \in Scratchfiles \ contested'
      PROVE  FileRelied(e)'
  <2>1. CASE e # f
    <3>1. FileRelied(e) /\ stored'[e] = stored[e]
      BY <1>0, <1>5, <2>1 DEF Relied
    <3> QED
      BY <1>0, <1>4, <2>1, <3>1, FileStays
  <2>2. CASE e = f
    <3>1. ~ LeftBehind(f) /\ At(f)' \subseteq {Place}
      BY <1>0, <1>4, <1>5, <2>2, NobodyAt
    <3>2. stored'[f] # Absent => f \notin contested /\ ~ overwrite /\ stored' = stored
      BY <1>0, <1>5
    <3>3. stored'[f] # Absent => scratch'[f] = stored'[f] /\ r.exclusive
      BY <1>0, <1>3, <3>2 DEF Relied, FileRelied
    <3>4. WritePromise(helper'[Place], scratch'[f], stored'[f])
      BY <1>3, <1>4, <3>3 DEF WritePromise
    <3> QED
      BY <2>2, <3>1, <3>3, <3>4, FileAnew
  <2> QED
    BY <2>1, <2>2
<1>7. ASSUME NEW e \in CookieFiles \ contested'
      PROVE  CookiesRelied(e)'
  <2>1. e # f /\ CookiesRelied(e)
    BY <1>5, FilesApart DEF Relied
  <2> QED
    BY <1>0, <1>4, <2>1, JarStays
<1>8. ASSUME NEW g \in Helpers
      PROVE  InPlace(helper'[g])
  <2>1. InPlace(r)
    BY <1>3 DEF InPlace
  <2>2. g # Place => helper'[g] = helper[g]
    BY <1>0 DEF Launch, HelperShape
  <2> QED
    BY <1>4, <2>1, <2>2 DEF Relied
<1>9. DOMAIN stored' = Scratchfiles
  BY <1>0, <1>5
<1> QED
  BY <1>0, <1>6, <1>7, <1>8, <1>9 DEF Relied, InPlace

LEMMA HTTPRequestRelied ==
  ASSUME Relied, Sound', NEW load \in CookieFiles \cup {Absent},
         NEW save \in CookieFiles \cup {Absent}, HTTPRequest(load, save)
  PROVE  Relied'
<1> DEFINE x == Exec("http", "load", save)
           q == [x EXCEPT !.load = load]
           r == [q EXCEPT !.attached = TRUE]
<1>0. /\ Tracked /\ HelperShape /\ DOMAIN stored = Scratchfiles /\ DOMAIN jar = CookieFiles
      /\ DOMAIN acked = CookieFiles /\ Idle /\ Place \in Helpers /\ Launch(Place, q)
      /\ UNCHANGED <<scratch, jar, stored>>
  BY PlaceIsVacant DEF Relied, Sound, Tracked, HTTPRequest, Accepts
<1>1. DOMAIN x = Fields /\ x.op = "http" /\ x.pc = "load" /\ x.file = save
  BY ExecParts
<1>2. /\ DOMAIN q = Fields /\ q.op = "http" /\ q.pc = "load" /\ q.file = save
      /\ q.load = load
  BY <1>1 DEF Fields
<1> HIDE DEF x, q
<1>3. r.op = "http" /\ r.pc = "load" /\ r.file = save /\ r.load = load
  BY <1>2 DEF Fields
<1>4. /\ \A e : e # save => AllAlike(e)
      /\ \A e : At(e)' \subseteq At(e) \cup {Place}
      /\ helper'[Place] = r
  BY <1>0, <1>2, LaunchAt
<1> HIDE DEF r
<1>5. /\ save = Absent => UNCHANGED <<acked, contested>>
      /\ save # Absent =>
           /\ contested' = IF LeftBehind(save) THEN contested \cup {save}
                           ELSE contested \ {save}
           /\ acked' = IF load # save \/ save \in contested THEN [acked EXCEPT ![save] = {}]
                       ELSE acked
  BY DEF HTTPRequest, Contend, GivesUp
<1>6. ASSUME NEW e \in Scratchfiles \ contested'
      PROVE  FileRelied(e)'
  <2>1. e # save /\ FileRelied(e)
    BY <1>5, FilesApart DEF Relied
  <2> QED
    BY <1>0, <1>4, <2>1, FileStays
<1>7. ASSUME NEW e \in CookieFiles \ contested'
      PROVE  CookiesRelied(e)'
  <2>1. CASE e # save
    <3>1. CookiesRelied(e) /\ acked'[e] = acked[e]
      BY <1>0, <1>5, <2>1 DEF Relied
    <3> QED
      BY <1>0, <1>4, <2>1, <3>1, JarStays
  <2>2. CASE e = save
    <3>0. save # Absent
      BY <2>2, FilesApart
    <3>1. ~ LeftBehind(save) /\ At(save)' \subseteq {Place}
      BY <1>0, <1>4, <1>5, <2>2, <3>0, NobodyAt
    <3>2. acked'[save] = {} \/ (save \notin contested /\ load = save /\ acked' = acked)
      BY <1>0, <1>5, <2>2, <3>0
    <3>3. acked'[save] \subseteq jar'[save]
      BY <1>0, <2>2, <3>2 DEF Relied, CookiesRelied
    <3>4. CookiePromise(helper'[Place], jar'[save], acked'[save])
      BY <1>3, <1>4, <3>2 DEF CookiePromise
    <3> QED
      BY <2>2, <3>1, <3>3, <3>4, JarAnew
  <2> QED
    BY <2>1, <2>2
<1>8. ASSUME NEW g \in Helpers
      PROVE  InPlace(helper'[g])
  <2>1. InPlace(r)
    BY <1>3 DEF InPlace
  <2>2. g # Place => helper'[g] = helper[g]
    BY <1>0 DEF Launch, HelperShape
  <2> QED
    BY <1>4, <2>1, <2>2 DEF Relied
<1>9. DOMAIN acked' = CookieFiles
  BY <1>0, <1>5
<1> QED
  BY <1>0, <1>6, <1>7, <1>8, <1>9 DEF Relied, InPlace

\* The helper of a request ends that has succeeded: nobody else was at work.
LEMMA DoneAlone ==
  ASSUME Tracked, req.pc = "wait", Exits(req.h, "done"), NEW f, Sole(f),
         f = helper[req.h].file, helper[req.h].op \in {"write", "http"}
  PROVE  req.h \in At(f) /\ At(f)' = {}
<1>1. /\ req.h \in Helpers /\ DOMAIN helper = Helpers
      /\ helper' = [helper EXCEPT ![req.h] = None] /\ helper[req.h].attached
  BY DEF Tracked, Waiting, HelperShape, OneAttached, Exits, Become
<1>2. req.h \in At(f)
  BY <1>1 DEF At, Busy
<1>3. ASSUME NEW g \in At(f)'
      PROVE  FALSE
  <2>1. g # req.h
    BY <1>1, <1>3, NoneParts DEF At, Busy
  <2>2. g \in At(f)
    BY <1>1, <1>3, <2>1 DEF At
  <2> QED
    BY <1>2, <2>1, <2>2 DEF Sole
<1> QED
  BY <1>2, <1>3

LEMMA WriteReturnsRelied ==
  ASSUME Relied, Sound', WriteReturns
  PROVE  Relied'
<1> DEFINE p == helper[req.h]
<1>0. /\ Tracked /\ req.pc = "wait" /\ req.h \in Helpers /\ p.op = "write"
      /\ UNCHANGED <<scratch, jar, acked, contested>> /\ p.attached
  BY DEF Relied, Sound, Tracked, Executes, Waiting, OneAttached, WriteReturns
<1>1. \A g \in Helpers : Alike(helper[g], helper'[g])
  BY <1>0, ReturnAlike DEF WriteReturns
<1>2. CASE stored' = stored
  BY <1>0, <1>1, <1>2, ReliedStays DEF Promises
<1>3. CASE Exits(req.h, "done") /\ stored' = [stored EXCEPT ![p.file] = p.data]
  <2>0. p.pc = "done" /\ Busy(p)
    BY <1>0, <1>3 DEF Exits, Busy
  <2>1. ASSUME NEW e \in Scratchfiles \ contested'
        PROVE  FileRelied(e)'
    <3>0. FileRelied(e) /\ Sole(e) /\ DOMAIN stored = Scratchfiles
      BY <1>0 DEF Relied, FileRelied
    <3>1. CASE e # p.file
      <4>1. stored'[e] = stored[e]
        BY <1>3, <3>0, <3>1
      <4> QED
        BY <1>0, <1>1, <3>0, <4>1, FileStays DEF AllAlike
    <3>2. CASE e = p.file
      <4>1. req.h \in At(e) /\ At(e)' = {}
        BY <1>0, <1>3, <3>0, <3>2, DoneAlone
      <4>2. WritePromise(p, scratch[e], stored[e])
        BY <3>0, <4>1 DEF FileRelied
      <4>3. scratch[e] = p.data
        BY <1>0, <2>0, <4>2 DEF WritePromise
      <4>4. stored'[e] = p.data
        BY <1>3, <3>0, <3>2
      <4> QED
        BY <1>0, <4>1, <4>3, <4>4, FileAnew
    <3> QED
      BY <3>1, <3>2
  <2>2. ASSUME NEW e \in CookieFiles \ contested'
        PROVE  CookiesRelied(e)'
    BY <1>0, <1>1, JarStays DEF Relied, AllAlike
  <2>3. \A g \in Helpers : InPlace(helper'[g])
    BY <1>1 DEF Relied, InPlace, Alike
  <2> QED
    BY <1>0, <1>3, <2>1, <2>2, <2>3 DEF Relied, InPlace
<1> QED
  BY <1>2, <1>3 DEF WriteReturns

LEMMA HTTPReturnsRelied ==
  ASSUME Relied, Sound', HTTPReturns
  PROVE  Relied'
<1> DEFINE p == helper[req.h]
<1>0. /\ Tracked /\ req.pc = "wait" /\ req.h \in Helpers /\ p.op = "http"
      /\ UNCHANGED <<scratch, jar, stored, contested>> /\ p.attached
  BY DEF Relied, Sound, Tracked, Executes, Waiting, OneAttached, HTTPReturns
<1>1. \A g \in Helpers : Alike(helper[g], helper'[g])
  BY <1>0, ReturnAlike DEF HTTPReturns
<1>2. CASE acked' = acked
  BY <1>0, <1>1, <1>2, ReliedStays DEF Promises
<1>3. CASE Exits(req.h, "done") /\ acked' = [acked EXCEPT ![p.file] = @ \cup p.fresh]
  <2>0. p.pc = "done" /\ Busy(p)
    BY <1>0, <1>3 DEF Exits, Busy
  <2>1. ASSUME NEW e \in CookieFiles \ contested'
        PROVE  CookiesRelied(e)'
    <3>0. CookiesRelied(e) /\ Sole(e) /\ DOMAIN acked = CookieFiles
      BY <1>0 DEF Relied, CookiesRelied
    <3>1. CASE e # p.file
      <4>1. acked'[e] = acked[e]
        BY <1>3, <3>0, <3>1
      <4> QED
        BY <1>0, <1>1, <3>0, <4>1, JarStays DEF AllAlike
    <3>2. CASE e = p.file
      <4>1. req.h \in At(e) /\ At(e)' = {}
        BY <1>0, <1>3, <3>0, <3>2, DoneAlone
      <4>2. CookiePromise(p, jar[e], acked[e]) /\ acked[e] \subseteq jar[e]
        BY <3>0, <4>1 DEF CookiesRelied
      <4>3. p.fresh \subseteq jar[e]
        BY <1>0, <2>0, <4>2 DEF CookiePromise
      <4>4. acked'[e] = acked[e] \cup p.fresh
        BY <1>3, <3>0, <3>2
      <4> QED
        BY <1>0, <4>1, <4>2, <4>3, <4>4, JarAnew
    <3> QED
      BY <3>1, <3>2
  <2>2. ASSUME NEW e \in Scratchfiles \ contested'
        PROVE  FileRelied(e)'
    BY <1>0, <1>1, FileStays DEF Relied, AllAlike
  <2>3. \A g \in Helpers : InPlace(helper'[g])
    BY <1>1 DEF Relied, InPlace, Alike
  <2> QED
    BY <1>0, <1>3, <2>1, <2>2, <2>3 DEF Relied, InPlace
<1> QED
  BY <1>2, <1>3 DEF HTTPReturns

\* Nothing is promised of what the agent changed, and it disturbs those who are
\* to be told of their success.
LEMMA AgentRelied ==
  ASSUME Relied, Sound', NEW f,
         \/ f \in Scratchfiles /\ \E content \in Payloads : AgentWrites(f, content)
         \/ f \in CookieFiles /\ \E cookies \in SUBSET Cookies : AgentBakes(f, cookies)
  PROVE  Relied'
<1>0. /\ HelperShape /\ DOMAIN scratch = Scratchfiles /\ DOMAIN stored = Scratchfiles
      /\ DOMAIN jar = CookieFiles /\ DOMAIN acked = CookieFiles
  BY DEF Relied, Sound, Tracked, FileTypes
<1>1. /\ contested \subseteq contested'
      /\ f \notin contested' => ~ \E h \in Helpers : helper[h].attached /\ helper[h].file = f
  BY DEF AgentWrites, AgentBakes, Meddle
<1>2. \A g \in Helpers : Alike(helper[g], helper'[g])
  <2>1. helper' = helper \/ helper' = Disturbed(f)
    BY DEF AgentWrites, AgentBakes
  <2>2. ASSUME NEW g \in Helpers
        PROVE  helper'[g] \in {helper[g], [helper[g] EXCEPT !.alone = FALSE]}
    BY <2>1 DEF Disturbed
  <2> QED
    BY <1>0, <2>2, CutOffAlike, DisturbedAlike DEF HelperShape
<1>3. \A e \in Scratchfiles \ contested' : FileRelied(e)'
  <2> SUFFICES ASSUME NEW e \in Scratchfiles \ contested'
               PROVE  FileRelied(e)'
    OBVIOUS
  <2>0. FileRelied(e)
    BY <1>1 DEF Relied
  <2>1. CASE scratch'[e] = scratch[e] /\ stored'[e] = stored[e]
    BY <1>2, <2>0, <2>1, FileStays DEF AllAlike
  <2>2. CASE e = f /\ stored' = [stored EXCEPT ![f] = Absent]
    <3>1. At(e)' \subseteq At(e) /\ stored'[e] = Absent
      BY <1>0, <1>2, <2>2 DEF At, Alike
    <3>2. ASSUME NEW h \in At(e)'
          PROVE  ~ helper'[h].attached
      BY <1>1, <1>2, <2>2, <3>2 DEF At, Alike
    <3> QED
      BY <2>0, <3>1, <3>2 DEF FileRelied, Sole, WritePromise
  <2> QED
    BY <1>0, <2>1, <2>2 DEF AgentWrites, AgentBakes
<1>4. \A e \in CookieFiles \ contested' : CookiesRelied(e)'
  <2> SUFFICES ASSUME NEW e \in CookieFiles \ contested'
               PROVE  CookiesRelied(e)'
    OBVIOUS
  <2>0. CookiesRelied(e)
    BY <1>1 DEF Relied
  <2>1. CASE jar'[e] = jar[e] /\ acked'[e] = acked[e]
    BY <1>2, <2>0, <2>1, JarStays DEF AllAlike
  <2>2. CASE e = f /\ acked' = [acked EXCEPT ![f] = {}]
    <3>1. At(e)' \subseteq At(e) /\ acked'[e] = {}
      BY <1>0, <1>2, <2>2 DEF At, Alike
    <3>2. ASSUME NEW h \in At(e)'
          PROVE  CookiePromise(helper'[h], jar'[e], acked'[e])
      <4>1. CookiePromise(helper[h], jar[e], acked[e]) /\ Alike(helper[h], helper'[h])
        BY <1>2, <2>0, <3>1, <3>2 DEF CookiesRelied, At
      <4>2. ~ helper'[h].attached
        BY <1>1, <1>2, <2>2, <3>2 DEF At, Alike
      <4> QED
        BY <3>1, <3>2, <4>1, <4>2 DEF CookiePromise, Alike, At
    <3> QED
      BY <2>0, <3>1, <3>2 DEF CookiesRelied, Sole
  <2> QED
    BY <1>0, <2>1, <2>2 DEF AgentWrites, AgentBakes
<1>5. \A g \in Helpers : InPlace(helper'[g])
  BY <1>2 DEF Relied, InPlace, Alike
<1>6. /\ DOMAIN stored' = Scratchfiles /\ DOMAIN jar' = CookieFiles
      /\ DOMAIN acked' = CookieFiles
  BY <1>0 DEF AgentWrites, AgentBakes
<1> QED
  BY <1>3, <1>4, <1>5, <1>6 DEF Relied, InPlace

\* No action breaks a promise.
LEMMA PromisesKept ==
  ASSUME Relied, [Next]_vars
  PROVE  Relied'
<1>0. Sound /\ Sound' /\ Tracked /\ Tracked' /\ HelperShape
  BY SoundStays DEF Relied, Sound, Tracked
<1>1. ASSUME ResetSession \/ StopSession
      PROVE  Relied'
  <2>1. /\ helper' = [h \in Helpers |-> None]
        /\ stored' = [f \in Scratchfiles |-> Absent]
        /\ jar' = [f \in CookieFiles |-> {}] /\ acked' = [f \in CookieFiles |-> {}]
    BY <1>1 DEF ResetSession, StopSession, Empty
  <2>2. \A g \in Helpers : ~ Busy(helper'[g])
    BY <2>1, NoneParts DEF Busy
  <2>3. \A f : At(f)' = {}
    BY <2>2 DEF At
  <2>4. \A f \in Scratchfiles : stored'[f] = Absent
    BY <2>1
  <2>5. \A f \in CookieFiles : acked'[f] = {}
    BY <2>1
  <2>6. /\ \A f \in Scratchfiles : FileRelied(f)'
        /\ \A f \in CookieFiles : CookiesRelied(f)'
    BY <2>3, <2>4, <2>5 DEF FileRelied, CookiesRelied, Sole
  <2> QED
    BY <1>0, <2>1, <2>2, <2>6 DEF Relied, InPlace
<1>2. ASSUME NEW p, NEW n \in 0 .. 1, NEW encoding, ReadFile(p, n, encoding)
      PROVE  Relied'
  <2>1. PICK f : Launch(Place, Exec("stat", "open", f)) /\ Vacant # {}
    BY <1>2 DEF ReadFile, Accepts
  <2>2. UNCHANGED Promises
    BY <1>2 DEF ReadFile, Promises
  <2> QED
    BY <1>0, <2>1, <2>2, ExecParts, PlaceIsVacant, LaunchAlike, ReliedStays
<1>3. ASSUME StatReturns
      PROVE  Relied'
  <2>0. UNCHANGED Promises /\ req.pc = "wait" /\ req.h \in Helpers
    BY <1>0, <1>3 DEF StatReturns, outside, Promises, Tracked, Executes, Waiting
  <2>1. CASE ExecFails(req.h)
    BY <1>0, <2>0, <2>1, ReturnAlike, ReliedStays
  <2>2. ASSUME NEW from, NEW upto, NEW limit,
               Launch(req.h, [Exec("read", "open", helper[req.h].file) EXCEPT
                        !.pos = from, !.from = from, !.upto = upto, !.limit = limit])
        PROVE  Relied'
    <3> DEFINE x == Exec("read", "open", helper[req.h].file)
               q == [x EXCEPT !.pos = from, !.from = from, !.upto = upto, !.limit = limit]
    <3>1. DOMAIN x = Fields /\ x.op = "read"
      BY ExecParts
    <3>2. DOMAIN q = Fields /\ q.op = "read"
      BY <3>1 DEF Fields
    <3>3. Launch(req.h, q)
      BY <2>2
    <3> HIDE DEF q
    <3> QED
      BY <1>0, <2>0, <3>2, <3>3, LaunchAlike, ReliedStays
  <2> QED
    BY <1>3, <2>1, <2>2 DEF StatReturns
<1>4. ASSUME NEW f \in Scratchfiles, ExportLease(f)
      PROVE  Relied'
  <2>0. UNCHANGED Promises
    BY <1>4 DEF ExportLease, outside, inside, Promises
  <2>1. CASE Launch(Place, Exec("export", "open", f)) /\ Vacant # {}
    BY <1>0, <2>0, <2>1, ExecParts, PlaceIsVacant, LaunchAlike, ReliedStays
  <2>2. CASE helper' = helper
    BY <1>0, <2>0, <2>2, CutOffAlike, ReliedStays DEF HelperShape
  <2> QED
    BY <1>4, <2>1, <2>2 DEF ExportLease, inside
<1>5. ASSUME ReadReturns \/ ExportStreamed
      PROVE  Relied'
  <2>1. /\ req.pc = "wait" /\ UNCHANGED Promises
        /\ (\E how : Exits(req.h, how)) \/ ExecFails(req.h)
    BY <1>5 DEF ReadReturns, ExportStreamed, outside, Promises
  <2> QED
    BY <1>0, <2>1, ReturnAlike, ReliedStays
<1>6. ASSUME Crash
      PROVE  Relied'
  <2>1. /\ UNCHANGED Promises
        /\ helper' = [h \in Helpers |->
                        IF helper[h].attached THEN CutOff(helper[h]) ELSE helper[h]]
    BY <1>6 DEF Crash, outside, Promises
  <2>2. \A g \in Helpers : Alike(helper[g], helper'[g])
    BY <1>0, <2>1, CutOffAlike DEF HelperShape
  <2> QED
    BY <1>0, <2>1, <2>2, ReliedStays
<1>7. ASSUME UNCHANGED Promises, UNCHANGED helper
      PROVE  Relied'
  BY <1>0, <1>7, CutOffAlike, ReliedStays DEF HelperShape
<1>8. ASSUME \/ \E p \in Spelled : ReadRefused(p)
             \/ \E d \in Dests : ExportFile(d)
             \/ \E o, g \in Asked : StartSession(o, g)
             \/ Refuse \/ Publish \/ Restart \/ UNCHANGED vars
      PROVE  Relied'
  <2>1. UNCHANGED Promises /\ UNCHANGED helper
    BY <1>8 DEF ReadRefused, ExportFile, StartSession, Refuse, Publish, Restart, vars,
       inside, outside, Promises
  <2> QED
    BY <1>7, <2>1
<1> QED
  BY <1>0, <1>1, <1>2, <1>3, <1>4, <1>5, <1>6, <1>8, WriteFileRelied, HTTPRequestRelied,
     WriteReturnsRelied, HTTPReturnsRelied, HelperActsRelied, AgentRelied
     DEF Next, Request, Sizes, Work

\* The promises at the start.
LEMMA ReliedInit == Init => Relied
<1> SUFFICES ASSUME Init PROVE Relied
  OBVIOUS
<1>1. /\ \A h \in Helpers : helper[h] = None
      /\ stored = [f \in Scratchfiles |-> Absent]
      /\ jar = [f \in CookieFiles |-> {}] /\ acked = [f \in CookieFiles |-> {}]
  BY DEF Init
<1>2. \A h \in Helpers : ~ Busy(helper[h])
  BY <1>1, NoneParts DEF Busy
<1>3. \A f : At(f) = {}
  BY <1>2 DEF At
<1>4. \A f \in Scratchfiles : stored[f] = Absent
  BY <1>1
<1>5. \A f \in CookieFiles : acked[f] = {}
  BY <1>1
<1>6. /\ \A f \in Scratchfiles : FileRelied(f)
      /\ \A f \in CookieFiles : CookiesRelied(f)
  BY <1>3, <1>4, <1>5 DEF FileRelied, CookiesRelied, Sole
<1> QED
  BY <1>1, <1>2, <1>6, SoundInit DEF Relied, InPlace

\* What a successful write left in a file stays there whole until the client
\* asks to overwrite it or the agent does: no step of any helper, cut off,
\* refused or failed, undoes it.
THEOREM WritesStay == Spec => []StoredStays
<1>1. Relied /\ [Next]_vars => Relied'
  BY PromisesKept
<1>2. Relied => StoredStays
  BY DEF Relied, FileRelied, StoredStays
<1> QED
  BY <1>1, <1>2, ReliedInit, PTL DEF Spec

\* The cookies of every answered response stay in the file they were to be
\* saved to, whatever fails or is cut off between loading and replacing it.
THEOREM AnsweredCookiesStay == Spec => []CookiesKept
<1>1. Relied /\ [Next]_vars => Relied'
  BY PromisesKept
<1>2. Relied => CookiesKept
  BY DEF Relied, CookiesRelied, CookiesKept
<1> QED
  BY <1>1, <1>2, ReliedInit, PTL DEF Spec

-----------------------------------------------------------------------------
(* Exports.                                                                *)

\* An attached reader that exports starts at the beginning, under no limit,
\* and when it has ended undisturbed, all of the file has come.
ExportSound(p, files, out) ==
  p.op = "export" /\ p.attached =>
    /\ p.from = 0 /\ p.limit = 0
    /\ p.pc \in {"copy", "done"} => p.file \in Scratchfiles
    /\ p.pc = "copy" /\ p.alone => p.pos <= Len(files[p.file])
    /\ p.pc = "done" /\ p.alone => out.kept = files[p.file]

Exporting == \A h \in Helpers : ExportSound(helper[h], scratch, stdout)

WholeTracked ==
  /\ Sound
  /\ Exporting
  /\ req.pc = "publish" => req.original \in {Absent, stdout.kept}
  /\ DOMAIN exports = Dests
  /\ ExportsAreWhole

\* A disturbed reader has nothing to be whole.
LEMMA DisturbedExports ==
  ASSUME WholeTracked, NEW f, NEW files, NEW g \in Helpers,
         \A e \in Scratchfiles : e # f => files[e] = scratch[e]
  PROVE  ExportSound(Disturbed(f)[g], files, stdout)
<1> DEFINE p == helper[g]
           r == [p EXCEPT !.alone = FALSE]
<1>0. DOMAIN p = Fields /\ ExportSound(p, scratch, stdout)
  BY DEF WholeTracked, Sound, Tracked, HelperShape, Exporting
<1>1. Disturbed(f)[g] = IF p.file = f /\ p.attached THEN r ELSE p
  BY DEF Disturbed
<1>2. /\ r.op = p.op /\ r.pc = p.pc /\ r.file = p.file /\ r.from = p.from
      /\ r.limit = p.limit
  BY <1>0 DEF Fields
<1>3. (r.attached <=> p.attached) /\ ~ r.alone
  <2>1. r.attached <=> p.attached
    BY <1>0 DEF Fields
  <2>2. ~ r.alone
    BY <1>0 DEF Fields
  <2> QED
    BY <2>1, <2>2
<1> HIDE DEF p, r
<1>4. CASE p.file = f /\ p.attached
  BY <1>0, <1>1, <1>2, <1>3, <1>4 DEF ExportSound
<1>5. CASE ~ (p.file = f /\ p.attached)
  BY <1>0, <1>1, <1>5 DEF ExportSound
<1> QED
  BY <1>4, <1>5

\* A step of one helper leaves the export of another as it is.
LEMMA OthersExport ==
  ASSUME WholeTracked, NEW h \in Helpers, HelperStep(h), NEW g \in Helpers, g # h
  PROVE  ExportSound(helper'[g], scratch', stdout')
<1>0. /\ DOMAIN helper = Helpers /\ DOMAIN helper[g] = Fields
      /\ DOMAIN scratch = Scratchfiles
      /\ ExportSound(helper[g], scratch, stdout)
  BY DEF WholeTracked, Sound, Tracked, HelperShape, FileTypes, Exporting
<1>1. ASSUME NEW q, Become(h, q), UNCHANGED <<scratch, stdout>>
      PROVE  ExportSound(helper'[g], scratch', stdout')
  BY <1>0, <1>1 DEF Become
<1>2. ASSUME NEW f, NEW content, NEW q, Change(h, f, content, q), UNCHANGED stdout
      PROVE  ExportSound(helper'[g], scratch', stdout')
  <2>1. helper'[g] = Disturbed(f)[g]
    BY <1>2 DEF Change, Disturbed
  <2>2. \A e \in Scratchfiles : e # f => scratch'[e] = scratch[e]
    BY <1>0, <1>2 DEF Change
  <2> QED
    BY <1>2, <2>1, <2>2, DisturbedExports
<1>4. CASE WriteOpen(h) \/ WriteCopy(h) \/ WriteEnd(h)
  BY <1>1, <1>2, <1>4 DEF WriteOpen, WriteCopy, WriteEnd
<1>5. CASE Stat(h) \/ ReadOpen(h) \/ ReadEnd(h)
  BY <1>1, <1>5 DEF Stat, ReadOpen, ReadEnd
<1>6. CASE ReadCopy(h)
  <2>1. helper[h].attached
    BY <1>6 DEF ReadCopy, WholeTracked, Sound, Tracked, ReadersAttached, ReaderAttached
  <2>2. ~ helper[g].attached
    BY <2>1 DEF WholeTracked, Sound, Tracked, OneAttached
  <2>3. helper'[g] = helper[g]
    BY <1>0, <1>6 DEF ReadCopy, Become
  <2> QED
    BY <2>2, <2>3 DEF ExportSound
<1>7. CASE LoadCookies(h) \/ Exchange(h) \/ SaveCookies(h) \/ Fails(h)
  BY <1>1, <1>7 DEF LoadCookies, Exchange, SaveCookies, Fails
<1>8. CASE RenameCookies(h)
  BY <1>1, <1>8 DEF RenameCookies, Replace
<1> QED
  BY <1>4, <1>5, <1>6, <1>7, <1>8 DEF HelperStep

\* So does a step of the helper that exports.
LEMMA ExporterActs ==
  ASSUME WholeTracked, Sound', NEW h \in Helpers, HelperStep(h),
         helper[h].op = "export", helper[h].attached
  PROVE  ExportSound(helper'[h], scratch', stdout')
<1> DEFINE p == helper[h]
<1>0. /\ DOMAIN helper = Helpers /\ DOMAIN p = Fields
      /\ p.from = 0 /\ p.limit = 0
      /\ p.pc \in {"copy", "done"} => p.file \in Scratchfiles
      /\ p.pc = "copy" /\ p.alone => p.pos <= Len(scratch[p.file])
      /\ ProcessSound(p, scratch, stdout)
  BY DEF WholeTracked, Sound, Tracked, HelperShape, Exporting, ExportSound, ProcessesSound
<1>1. ASSUME Become(h, Ended(p, "failed"))
      PROVE  ExportSound(helper'[h], scratch', stdout')
  <2> DEFINE q == [p EXCEPT !.pc = "failed"]
  <2>1. helper'[h] = q
    BY <1>0, <1>1 DEF Become, Ended
  <2>2. q.from = 0 /\ q.limit = 0 /\ q.pc = "failed"
    BY <1>0 DEF Fields
  <2> HIDE DEF q
  <2> QED
    BY <2>1, <2>2 DEF ExportSound
<1>2. CASE ReadOpen(h)
  <2> DEFINE q == [p EXCEPT !.pc = "copy", !.alone = TRUE]
  <2>1. p.pc = "open" /\ UNCHANGED scratch
    BY <1>2 DEF ReadOpen
  <2>2. CASE Become(h, q) /\ Content(p.file) # Absent
    <3>1. p.file \in Scratchfiles /\ scratch[p.file] \in Seq(Bytes)
      BY <2>2 DEF Content, WholeTracked, Sound, FileTypes
    <3>2. p.pos = 0
      BY <1>0, <2>1 DEF ProcessSound, ReadSound, Moving
    <3>3. /\ q.from = 0 /\ q.limit = 0 /\ q.pc = "copy" /\ q.file = p.file
          /\ q.pos = 0
      BY <1>0, <3>2 DEF Fields
    <3>4. helper'[h] = q
      BY <1>0, <2>2 DEF Become
    <3>5. 0 <= Len(scratch[p.file])
      BY <3>1
    <3> HIDE DEF q
    <3> QED
      BY <2>1, <3>1, <3>3, <3>4, <3>5 DEF ExportSound
  <2>3. CASE Become(h, Ended(p, "failed"))
    BY <1>1, <2>3
  <2> QED
    BY <1>2, <2>2, <2>3 DEF ReadOpen
<1>3. CASE ReadCopy(h)
  <2>1. PICK upto \in p.pos + 1 .. Len(scratch[p.file]) : Become(h, [p EXCEPT !.pos = upto])
    BY <1>3 DEF ReadCopy, Reach, Size
  <2> DEFINE q == [p EXCEPT !.pos = upto]
  <2>2. p.pc = "copy" /\ UNCHANGED scratch
    BY <1>3 DEF ReadCopy
  <2>3. /\ q.from = 0 /\ q.limit = 0 /\ q.pc = "copy" /\ q.file = p.file
        /\ q.pos = upto
    BY <1>0, <2>2 DEF Fields
  <2>4. helper'[h] = q
    BY <1>0, <2>1 DEF Become
  <2>5. upto <= Len(scratch[p.file])
    BY <2>1
  <2> HIDE DEF q
  <2> QED
    BY <1>0, <2>2, <2>3, <2>4, <2>5 DEF ExportSound
<1>4. CASE ReadEnd(h)
  <2> DEFINE q == [p EXCEPT !.pc = "done"]
             c == scratch[p.file]
  <2>1. /\ p.pc = "copy" /\ p.pos >= Len(c) /\ UNCHANGED <<scratch, stdout>>
        /\ helper'[h] = q
    BY <1>0, <1>4 DEF ReadEnd, Reach, Size, Become, Ended
  <2>2. q.from = 0 /\ q.limit = 0 /\ q.pc = "done" /\ q.file = p.file
    BY <1>0 DEF Fields
  <2>3. q.alone <=> p.alone
    BY <1>0 DEF Fields
  <2>4. p.file \in Scratchfiles /\ c \in Seq(Bytes) /\ p.pos \in Nat
    BY <1>0, <2>1 DEF ProcessSound, CopySound, ReadSound, Moving
  <2>5. p.alone => stdout.kept = c
    <3>1. SUFFICES ASSUME p.alone PROVE stdout.kept = c
      OBVIOUS
    <3>2. Holds(stdout, 0, SubSeq(c, 1, p.pos))
      BY <1>0, <2>1, <3>1 DEF ProcessSound, ReadSound, Moving
    <3>3. p.pos = Len(c)
      BY <1>0, <2>1, <2>4, <3>1
    <3>4. SubSeq(c, 1, Len(c)) = c
      BY <2>4
    <3> QED
      BY <3>2, <3>3, <3>4 DEF Holds
  <2> HIDE DEF q
  <2> QED
    BY <2>1, <2>2, <2>3, <2>4, <2>5 DEF ExportSound
<1>5. CASE Fails(h)
  BY <1>1, <1>5 DEF Fails
<1> QED
  BY <1>2, <1>3, <1>4, <1>5 DEF HelperStep, WriteOpen, WriteCopy, WriteEnd, Stat,
     LoadCookies, Exchange, SaveCookies, RenameCookies

\* Whatever a helper does, an export that is attached stays sound.
LEMMA HelperActsExport ==
  ASSUME WholeTracked, Sound', NEW h \in Helpers, HelperActs(h)
  PROVE  WholeTracked'
<1>0. HelperStep(h) /\ UNCHANGED <<req, exports>>
  BY DEF HelperActs, controller
<1>1. ExportSound(helper'[h], scratch', stdout')
  <2>1. CASE helper[h].op = "export" /\ helper[h].attached
    BY <1>0, <2>1, ExporterActs
  <2>2. CASE ~ (helper[h].op = "export" /\ helper[h].attached)
    <3>1. Kin(helper[h], helper'[h])
      BY <1>0, HelperStepKin DEF WholeTracked, Sound, Tracked
    <3> QED
      BY <2>2, <3>1 DEF Kin, ExportSound
  <2> QED
    BY <2>1, <2>2
<1>2. Exporting'
  <2> SUFFICES ASSUME NEW g \in Helpers
               PROVE  ExportSound(helper'[g], scratch', stdout')
    BY DEF Exporting, ExportSound
  <2>1. CASE g = h
    BY <1>1, <2>1
  <2>2. CASE g # h
    BY <1>0, <2>2, OthersExport
  <2> QED
    BY <2>1, <2>2
<1>3. req.pc = "publish" => stdout' = stdout
  <2>1. CASE ReadCopy(h)
    BY <2>1 DEF ReadCopy, WholeTracked, Sound, Tracked, ReadersAttached, ReaderAttached,
       OneAttached
  <2>2. CASE ~ ReadCopy(h)
    BY <1>0, <2>2 DEF HelperStep, WriteOpen, WriteCopy, WriteEnd, Stat, ReadOpen, ReadEnd,
       LoadCookies, Exchange, SaveCookies, RenameCookies, Replace, Fails
  <2> QED
    BY <2>1, <2>2
<1> QED
  BY <1>0, <1>2, <1>3 DEF WholeTracked, ExportsAreWhole

\* Where no request waits, no export is under way.
LEMMA NoneExporting ==
  ASSUME Tracked', req'.pc # "wait"
  PROVE  Exporting'
BY DEF Tracked, OneAttached, Exporting, ExportSound

\* A helper that starts exports from the beginning, if it does.
LEMMA LaunchExport ==
  ASSUME WholeTracked, Sound', NEW h \in Helpers, NEW p, DOMAIN p = Fields, Launch(h, p),
         p.op = "export" => p.pc = "open" /\ p.from = 0 /\ p.limit = 0,
         req'.h = h, req'.pc = "wait", UNCHANGED exports
  PROVE  WholeTracked'
<1> DEFINE q == [p EXCEPT !.attached = TRUE]
<1>1. q.op = p.op /\ q.pc = p.pc /\ q.from = p.from /\ q.limit = p.limit
  BY DEF Fields
<1>2. helper'[h] = q
  BY DEF Launch, WholeTracked, Sound, Tracked, HelperShape
<1> HIDE DEF q
<1>3. ExportSound(helper'[h], scratch', stdout')
  BY <1>1, <1>2 DEF ExportSound
<1>4. \A g \in Helpers : g # h => ~ helper'[g].attached
  BY DEF Sound, Tracked, OneAttached
<1> QED
  BY <1>3, <1>4 DEF WholeTracked, ExportsAreWhole, Exporting, ExportSound

\* No action publishes a part of a file.
LEMMA WholeStays ==
  ASSUME WholeTracked, [Next]_vars
  PROVE  WholeTracked'
<1>0. Sound /\ Sound' /\ Tracked /\ Tracked'
  BY SoundStays DEF WholeTracked, Sound
<1>a. ASSUME req'.pc \notin {"wait", "publish"}, UNCHANGED exports
      PROVE  WholeTracked'
  BY <1>0, <1>a, NoneExporting DEF WholeTracked, ExportsAreWhole
<1>b. ASSUME UNCHANGED <<scratch, helper, stdout, req, exports>>
      PROVE  WholeTracked'
  BY <1>0, <1>b DEF WholeTracked, ExportsAreWhole, Exporting, ExportSound
<1>1. ASSUME NEW f \in Scratchfiles, NEW p \in Payloads, NEW overwrite,
             WriteFile(f, p, overwrite)
      PROVE  WholeTracked'
  <2> DEFINE x == Exec("write", "open", f)
             q == [x EXCEPT !.data = p, !.exclusive = ~ overwrite]
  <2>1. DOMAIN x = Fields /\ x.op = "write"
    BY ExecParts
  <2>2. DOMAIN q = Fields /\ q.op = "write"
    BY <2>1 DEF Fields
  <2>3. /\ Launch(Place, q) /\ Vacant # {} /\ UNCHANGED exports
        /\ req'.h = Place /\ req'.pc = "wait"
    BY <1>1 DEF WriteFile, Accepts, outside, Unoccupied
  <2> HIDE DEF q
  <2> QED
    BY <1>0, <2>2, <2>3, PlaceIsVacant, LaunchExport
<1>2. ASSUME NEW p, NEW n \in 0 .. 1, NEW encoding, ReadFile(p, n, encoding)
      PROVE  WholeTracked'
  <2>1. PICK f : Launch(Place, Exec("stat", "open", f))
    BY <1>2 DEF ReadFile
  <2>2. /\ Vacant # {} /\ UNCHANGED exports
        /\ req'.h = Place /\ req'.pc = "wait"
    BY <1>2 DEF ReadFile, Accepts, Unoccupied
  <2> QED
    BY <1>0, <2>1, <2>2, ExecParts, PlaceIsVacant, LaunchExport
<1>3. ASSUME NEW load, NEW save, HTTPRequest(load, save)
      PROVE  WholeTracked'
  <2> DEFINE x == Exec("http", "load", save)
             q == [x EXCEPT !.load = load]
  <2>1. DOMAIN x = Fields /\ x.op = "http"
    BY ExecParts
  <2>2. DOMAIN q = Fields /\ q.op = "http"
    BY <2>1 DEF Fields
  <2>3. /\ Launch(Place, q) /\ Vacant # {} /\ UNCHANGED exports
        /\ req'.h = Place /\ req'.pc = "wait"
    BY <1>3 DEF HTTPRequest, Accepts, Unoccupied
  <2> HIDE DEF q
  <2> QED
    BY <1>0, <2>2, <2>3, PlaceIsVacant, LaunchExport
<1>4. ASSUME ResetSession \/ StopSession
      PROVE  WholeTracked'
  <2>1. req.pc # "wait" /\ UNCHANGED <<stdout, req, exports>>
    BY <1>4 DEF ResetSession, StopSession, Idle
  <2> QED
    BY <1>0, <2>1, NoneExporting DEF WholeTracked, ExportsAreWhole
<1>5. ASSUME WriteReturns \/ ReadReturns \/ HTTPReturns \/ Refuse \/ Restart
      PROVE  WholeTracked'
  <2>1. req' = Unoccupied /\ UNCHANGED exports
    BY <1>5 DEF WriteReturns, ReadReturns, HTTPReturns, Refuse, Restart, outside
  <2> QED
    BY <1>a, <2>1 DEF Unoccupied
<1>6. ASSUME StatReturns
      PROVE  WholeTracked'
  <2>0. UNCHANGED exports /\ req.pc = "wait" /\ req.h \in Helpers
    BY <1>0, <1>6 DEF StatReturns, outside, Tracked, Executes, Waiting
  <2>1. CASE req' = Unoccupied
    BY <1>a, <2>0, <2>1 DEF Unoccupied
  <2>2. CASE /\ req' = [req EXCEPT !.op = "read", !.bytes = SizeIn(helper[req.h])]
             /\ Launch(req.h, [Exec("read", "open", helper[req.h].file) EXCEPT
                    !.pos = Len(pager.got),
                    !.from = Len(pager.got),
                    !.upto = Len(pager.got) + ReadSize(config, req.bytes),
                    !.limit = ExecOutputLimit(config.outputBytes)])
    <3> DEFINE x == Exec("read", "open", helper[req.h].file)
               q == [x EXCEPT
                      !.pos = Len(pager.got),
                      !.from = Len(pager.got),
                      !.upto = Len(pager.got) + ReadSize(config, req.bytes),
                      !.limit = ExecOutputLimit(config.outputBytes)]
    <3>1. DOMAIN x = Fields /\ x.op = "read"
      BY ExecParts
    <3>2. DOMAIN q = Fields /\ q.op = "read"
      BY <3>1 DEF Fields
    <3>3. Launch(req.h, q)
      BY <2>2
    <3> HIDE DEF q
    <3>4. req'.h = req.h /\ req'.pc = "wait"
      BY <1>0, <2>0, <2>2 DEF Tracked, RequestShape, RequestFields
    <3> QED
      BY <1>0, <2>0, <3>2, <3>3, <3>4, LaunchExport
  <2> QED
    BY <1>6, <2>1, <2>2 DEF StatReturns
<1>7. ASSUME NEW d \in Dests, ExportFile(d)
      PROVE  WholeTracked'
  BY <1>a, <1>7 DEF ExportFile, outside, Unoccupied
<1>8. ASSUME NEW f \in Scratchfiles, ExportLease(f)
      PROVE  WholeTracked'
  <2>0. UNCHANGED exports
    BY <1>8 DEF ExportLease, outside
  <2>1. CASE /\ Launch(Place, Exec("export", "open", f)) /\ Vacant # {}
             /\ req' = [req EXCEPT !.pc = "wait", !.h = Place]
    <3>1. req'.pc = "wait" /\ req'.h = Place
      BY <1>0, <2>1 DEF Tracked, RequestShape, RequestFields
    <3> QED
      BY <1>0, <2>0, <2>1, <3>1, ExecParts, ExecZero, PlaceIsVacant, LaunchExport
  <2>2. CASE req' = Unoccupied
    BY <1>a, <2>0, <2>2 DEF Unoccupied
  <2> QED
    BY <1>8, <2>1, <2>2 DEF ExportLease
<1>9. ASSUME ExportStreamed
      PROVE  WholeTracked'
  <2> DEFINE p == helper[req.h]
  <2>0. /\ UNCHANGED <<scratch, exports>> /\ req.op = "export" /\ req.pc = "wait"
        /\ req.h \in Helpers /\ p.op = "export"
    BY <1>0, <1>9 DEF ExportStreamed, outside, Tracked, Waiting
  <2>1. CASE req' = Unoccupied
    BY <1>a, <2>0, <2>1 DEF Unoccupied
  <2>2. CASE /\ Exits(req.h, "done") /\ UNCHANGED stdout
             /\ req' = [req EXCEPT !.pc = "publish", !.h = Absent,
                                   !.original = IF p.alone THEN scratch[p.file] ELSE Absent]
    <3>1. p.attached /\ p.pc = "done"
      BY <1>0, <2>0, <2>2 DEF Tracked, OneAttached, Exits
    <3>2. p.alone => scratch[p.file] = stdout.kept
      BY <2>0, <3>1 DEF WholeTracked, Exporting, ExportSound
    <3>3. /\ req'.pc = "publish"
          /\ req'.original = IF p.alone THEN scratch[p.file] ELSE Absent
      BY <1>0, <2>2 DEF Tracked, RequestShape, RequestFields
    <3>4. Exporting'
      BY <1>0, <3>3, NoneExporting
    <3> QED
      BY <1>0, <2>0, <2>2, <3>2, <3>3, <3>4 DEF WholeTracked, ExportsAreWhole
  <2> QED
    BY <1>9, <2>1, <2>2 DEF ExportStreamed
<1>10. ASSUME Publish
      PROVE  WholeTracked'
  <2>1. req' = Unoccupied /\ req.pc = "publish"
    BY <1>10 DEF Publish
  <2>2. Compared(stdout.kept, req.original) # "partial"
    BY <2>1 DEF Compared, WholeTracked
  <2>3. DOMAIN exports' = Dests /\ ExportsAreWhole'
    BY <1>10, <2>2 DEF Publish, WholeTracked, ExportsAreWhole
  <2>4. Exporting'
    BY <1>0, <2>1, NoneExporting DEF Unoccupied
  <2> QED
    BY <1>0, <2>1, <2>3, <2>4 DEF WholeTracked, Unoccupied
<1>11. ASSUME NEW h \in Helpers, HelperActs(h)
      PROVE  WholeTracked'
  BY <1>0, <1>11, HelperActsExport
<1>12. ASSUME NEW f \in Scratchfiles, NEW p \in Payloads, AgentWrites(f, p)
      PROVE  WholeTracked'
  <2>1. /\ helper' = Disturbed(f) /\ scratch' = [scratch EXCEPT ![f] = p]
        /\ UNCHANGED <<stdout, req, exports>>
    BY <1>12 DEF AgentWrites, controller
  <2>2. \A e \in Scratchfiles : e # f => scratch'[e] = scratch[e]
    BY <1>0, <2>1 DEF Sound, FileTypes
  <2>3. ASSUME NEW g \in Helpers
        PROVE  ExportSound(helper'[g], scratch', stdout')
    BY <2>1, <2>2, DisturbedExports
  <2> QED
    BY <1>0, <2>1, <2>3 DEF WholeTracked, ExportsAreWhole, Exporting, ExportSound
<1>13. ASSUME Crash
      PROVE  WholeTracked'
  BY <1>a, <1>13 DEF Crash, outside, Unoccupied
<1>14. ASSUME NEW p, ReadRefused(p)
      PROVE  WholeTracked'
  BY <1>a, <1>14 DEF ReadRefused, outside, Unoccupied
<1>15. ASSUME NEW o, NEW g, StartSession(o, g)
      PROVE  WholeTracked'
  BY <1>b, <1>15 DEF StartSession, inside
<1>16. ASSUME NEW f \in CookieFiles, NEW cookies, AgentBakes(f, cookies)
      PROVE  WholeTracked'
  BY <1>b, <1>16 DEF AgentBakes, controller
<1>17. CASE UNCHANGED vars
  BY <1>b, <1>17 DEF vars, inside, controller, outside
<1> QED
  BY <1>1, <1>2, <1>3, <1>4, <1>5, <1>6, <1>7, <1>8, <1>9, <1>10, <1>11, <1>12, <1>13,
     <1>14, <1>15, <1>16, <1>17 DEF Next, Request, Sizes, Work

\* A published export is the whole file, if nobody changed it meanwhile and
\* the host could write what it was given, whatever execution or controller
\* was cut off on the way.
THEOREM PublishedWhole == Spec => []ExportsAreWhole
<1>1. Init => WholeTracked
  <2> SUFFICES ASSUME Init PROVE WholeTracked
    OBVIOUS
  <2>1. /\ exports = [d \in Dests |-> Absent] /\ req = Unoccupied
        /\ \A h \in Helpers : helper[h] = None
    BY DEF Init
  <2>2. ExportsAreWhole /\ DOMAIN exports = Dests
    BY <2>1, TransfersAssumption DEF ExportsAreWhole
  <2> QED
    BY <2>1, <2>2, SoundInit, NoneParts DEF WholeTracked, Exporting, ExportSound, Unoccupied
<1>2. WholeTracked /\ [Next]_vars => WholeTracked'
  BY WholeStays
<1>3. WholeTracked => ExportsAreWhole
  BY DEF WholeTracked
<1> QED
  BY <1>1, <1>2, <1>3, PTL DEF Spec

-----------------------------------------------------------------------------
(* Names.                                                                  *)

\* What a sandbox resolves is what its own configuration grants it.
ResolvesGranted ==
  session.up => session.hosts = Grants(session.under, session.outbound, session.gateway).hosts

\* Only the start of a session settles that.
LEMMA GrantedStays ==
  ASSUME ResolvesGranted, [Next]_vars
  PROVE  ResolvesGranted'
<1>1. ASSUME NEW outbound, NEW gateway, session' = Started(outbound, gateway)
      PROVE  ResolvesGranted'
  <2> DEFINE hosts == Grants(config, outbound, gateway).hosts
  <2>1. session'.hosts = hosts
    BY <1>1 DEF Started
  <2>2. session'.under = config
    BY <1>1 DEF Started
  <2>3. session'.outbound = outbound
    BY <1>1 DEF Started
  <2>4. session'.gateway = gateway
    BY <1>1 DEF Started
  <2> QED
    BY <2>1, <2>2, <2>3, <2>4, Zenon DEF ResolvesGranted
<1>2. ASSUME session' = NoSandbox
      PROVE  ResolvesGranted'
  BY <1>2 DEF ResolvesGranted, NoSandbox
<1>3. CASE UNCHANGED session
  BY <1>3 DEF ResolvesGranted
<1>4. ASSUME NEW o, NEW g, StartSession(o, g)
      PROVE  ResolvesGranted'
  BY <1>1, <1>4 DEF StartSession, Start
<1>5. ASSUME ResetSession
      PROVE  ResolvesGranted'
  BY <1>1, <1>2, <1>5 DEF ResetSession, Start
<1>6. ASSUME StopSession
      PROVE  ResolvesGranted'
  BY <1>2, <1>6 DEF StopSession
<1>7. CASE Next /\ ~ (\E o, g \in Asked : StartSession(o, g)) /\ ~ ResetSession
            /\ ~ StopSession
  <2>1. UNCHANGED session
    BY <1>7 DEF Next, Request, Work, WriteFile, ReadFile, ReadRefused, ExportFile,
       HTTPRequest, WriteReturns, StatReturns, ReadReturns, Refuse, ExportLease,
       ExportStreamed, Publish, HTTPReturns, Restart, HelperActs, AgentWrites,
       AgentBakes, Crash, controller, outside
  <2> QED
    BY <1>3, <2>1
<1>8. CASE UNCHANGED vars
  BY <1>3, <1>8 DEF vars, controller
<1> QED
  BY <1>4, <1>5, <1>6, <1>7, <1>8

\* As long as the configuration is the one of its start, a session that may
\* reach the host resolves the name its requests are sent to.
THEOREM GatewayKnown == Spec => []GatewayResolves
<1>1. Init => ResolvesGranted
  BY DEF Init, ResolvesGranted, NoSandbox
<1>2. ResolvesGranted /\ [Next]_vars => ResolvesGranted'
  BY GrantedStays
<1>3. ResolvesGranted => GatewayResolves
  <2> SUFFICES ASSUME ResolvesGranted, session.up, session.gateway, session.under = config
               PROVE  Dialled \in session.hosts
    BY DEF GatewayResolves
  <2>1. session.hosts = Grants(config, session.outbound, session.gateway).hosts
    BY DEF ResolvesGranted
  <2>2. Grants(config, session.outbound, session.gateway).hosts = {Dialled}
    BY DEF Grants, Dialled
  <2> QED
    BY <2>1, <2>2
<1> QED
  BY <1>1, <1>2, <1>3, PTL DEF Spec

-----------------------------------------------------------------------------
(* Pages.                                                                  *)

\* The line of a stat fits the output limit of every configuration.
StatFits ==
  \A c \in Deployable(Deployments) : StatLine <= ExecOutputLimit(c.outputBytes)

\* What the client has is the beginning of the file as it is, as far as its
\* last page could carry it.
PagerHeld(g, files) ==
  /\ ~ g.answered => g.got = << >>
  /\ g.answered =>
       LET content == files[g.file]
           n == Len(g.got) IN
       /\ g.file \in Scratchfiles /\ content \in Seq(Bytes)
       /\ g.start \in 0 .. n /\ n <= Len(content)
       /\ g.got = SubSeq(content, 1, g.start)
                    \o Carried(g.encoding, SubSeq(content, g.start + 1, n))
       /\ g.more <=> n < Len(content)

\* The page that is read for the client, to which nothing was replaced so far:
\* stat has found the size n of the file, and what has come continues what the
\* client has.
PageHeld(p, g, n, files, out) ==
  /\ p.file = g.file /\ Whole(g.got)
  /\ p.op = "stat" /\ p.pc = "done" =>
       /\ p.file \in Scratchfiles /\ files[p.file] \in Seq(Bytes)
       /\ p.pos = Len(files[p.file])
  /\ p.op = "read" /\ p.pc \in {"open", "copy", "done"} =>
       /\ p.from = Len(g.got) /\ p.limit \in Int /\ p.limit > 0
       /\ p.file \in Scratchfiles /\ files[p.file] \in Seq(Bytes)
       /\ n = Len(files[p.file]) /\ p.from <= n
       /\ p.pc # "open" =>
            /\ p.pos \in p.from .. n
            /\ Holds(out, p.limit, SubSeq(files[p.file], p.from + 1, p.pos))

\* As long as the file of the page has not changed: the client starts over
\* when it has.
Paging ==
  req.op \in {"stat", "read"} /\ req.pc = "wait" =>
    \/ pager = NothingRead
    \/ PageHeld(helper[req.h], pager, req.bytes, scratch, stdout)

PagesTracked ==
  /\ Sound
  /\ PagerHeld(pager, scratch)
  /\ Paging

\* Pages in which nothing was replaced are the beginning of the file.
LEMMA WholeIsContent ==
  ASSUME NEW c \in Seq(Bytes), NEW n \in 0 .. Len(c), NEW start \in 0 .. n, NEW encoding,
         Whole(SubSeq(c, 1, start) \o Carried(encoding, SubSeq(c, start + 1, n)))
  PROVE  SubSeq(c, 1, start) \o Carried(encoding, SubSeq(c, start + 1, n)) = SubSeq(c, 1, n)
<1> DEFINE a == SubSeq(c, 1, start)
           s == SubSeq(c, start + 1, n)
           t == Carried(encoding, s)
<1>1. /\ a \in Seq(Bytes) /\ s \in Seq(Bytes)
      /\ Len(a) = start /\ a \o s = SubSeq(c, 1, n)
  OBVIOUS
<1>2. t \in Seq(Bytes \cup {Replacement}) /\ (Whole(t) => t = s)
  BY <1>1, CarriedParts
<1>3. Whole(a \o t)
  OBVIOUS
<1> HIDE DEF a, s, t
<1>4. ASSUME NEW i \in 1 .. Len(t)
      PROVE  t[i] # Replacement
  <2>1. (a \o t)[Len(a) + i] = t[i] /\ Len(a) + i \in 1 .. Len(a \o t)
    BY <1>1, <1>2
  <2> QED
    BY <1>3, <2>1 DEF Whole
<1>5. Whole(t)
  BY <1>4 DEF Whole
<1> QED
  BY <1>1, <1>2, <1>5 DEF a, s, t

\* The step of one helper at most disturbs another one.
LEMMA OthersDisturbed ==
  ASSUME HelperShape, NEW h \in Helpers, HelperStep(h), NEW g \in Helpers, g # h
  PROVE  helper'[g] \in {helper[g], [helper[g] EXCEPT !.alone = FALSE]}
<1>1. ASSUME NEW q, Become(h, q)
      PROVE  helper'[g] = helper[g]
  BY <1>1 DEF Become, HelperShape
<1>2. ASSUME NEW f, NEW content, NEW q, Change(h, f, content, q)
      PROVE  helper'[g] \in {helper[g], [helper[g] EXCEPT !.alone = FALSE]}
  BY <1>2 DEF Change, Disturbed, HelperShape
<1>3. (\E q : Become(h, q)) \/ \E f, content, q : Change(h, f, content, q)
  <2>1. CASE WriteOpen(h) \/ WriteCopy(h) \/ WriteEnd(h)
    BY <2>1 DEF WriteOpen, WriteCopy, WriteEnd
  <2>2. CASE Stat(h) \/ ReadOpen(h) \/ ReadCopy(h) \/ ReadEnd(h)
    BY <2>2 DEF Stat, ReadOpen, ReadCopy, ReadEnd
  <2>3. CASE LoadCookies(h) \/ Exchange(h) \/ SaveCookies(h) \/ RenameCookies(h) \/ Fails(h)
    BY <2>3 DEF LoadCookies, Exchange, SaveCookies, RenameCookies, Replace, Fails
  <2> QED
    BY <2>1, <2>2, <2>3 DEF HelperStep
<1> QED
  BY <1>1, <1>2, <1>3

\* Who has read nothing has nothing that could be wrong.
LEMMA NothingIsHeld ==
  \A files : PagerHeld(NothingRead, files)
BY DEF PagerHeld, NothingRead

\* A step of a helper that is not the one waited for.
LEMMA OtherHelpersPage ==
  ASSUME PagesTracked, NEW h \in Helpers, HelperStep(h), h # req.h,
         req.op \in {"stat", "read"}, req.pc = "wait", UNCHANGED <<req, pager, scratch>>
  PROVE  Paging'
<1> DEFINE p == helper[req.h]
           r == [p EXCEPT !.alone = FALSE]
<1>0. req.h \in Helpers /\ HelperShape /\ DOMAIN p = Fields /\ p.attached
  BY DEF PagesTracked, Sound, Tracked, Waiting, OneAttached, HelperShape
<1>1. helper'[req.h] \in {p, r}
  BY <1>0, OthersDisturbed
<1>2. /\ r.op = p.op /\ r.pc = p.pc /\ r.file = p.file /\ r.from = p.from
      /\ r.pos = p.pos /\ r.limit = p.limit
  BY <1>0 DEF Fields
<1>3. stdout' = stdout
  <2>1. CASE ReadCopy(h)
    BY <1>0, <2>1 DEF ReadCopy, PagesTracked, Sound, Tracked, ReadersAttached,
       ReaderAttached, OneAttached
  <2>2. CASE ~ ReadCopy(h)
    BY <2>2 DEF HelperStep, WriteOpen, WriteCopy, WriteEnd, Stat, ReadOpen, ReadEnd,
       LoadCookies, Exchange, SaveCookies, RenameCookies, Replace, Fails
  <2> QED
    BY <2>1, <2>2
<1>4. CASE pager = NothingRead
  BY <1>4 DEF Paging
<1>5. CASE PageHeld(p, pager, req.bytes, scratch, stdout)
  <2> DEFINE q == helper'[req.h]
  <2>1. /\ q.op = p.op /\ q.pc = p.pc /\ q.file = p.file /\ q.from = p.from
        /\ q.pos = p.pos /\ q.limit = p.limit
    BY <1>1, <1>2
  <2> HIDE DEF p, q
  <2>2. PageHeld(q, pager, req.bytes, scratch, stdout)
    BY <1>5, <2>1 DEF PageHeld
  <2> QED
    BY <1>3, <2>2 DEF Paging, q
<1> QED
  BY <1>4, <1>5 DEF PagesTracked, Paging, p

\* A step of the helper that is waited for.
LEMMA WaitedForPages ==
  ASSUME PagesTracked, NEW h \in Helpers, HelperStep(h), h = req.h,
         req.op \in {"stat", "read"}, req.pc = "wait", UNCHANGED <<req, pager>>
  PROVE  UNCHANGED scratch /\ Paging'
<1> DEFINE p == helper[h]
           n == req.bytes
           c == scratch[p.file]
<1>0. /\ DOMAIN helper = Helpers /\ DOMAIN p = Fields /\ p.attached
      /\ p.op = req.op /\ ProcessSound(p, scratch, stdout)
  BY DEF PagesTracked, Sound, Tracked, Waiting, OneAttached, HelperShape, ProcessesSound
<1>1. ASSUME NEW q, Become(h, q), UNCHANGED scratch,
             PageHeld(p, pager, n, scratch, stdout)
                => PageHeld(q, pager, n, scratch, stdout')
      PROVE  UNCHANGED scratch /\ Paging'
  <2>1. helper'[req.h] = q
    BY <1>0, <1>1 DEF Become
  <2>2. CASE pager = NothingRead
    BY <1>1, <2>2 DEF Paging
  <2>3. CASE PageHeld(p, pager, n, scratch, stdout)
    BY <1>1, <2>1, <2>3 DEF Paging
  <2> QED
    BY <2>2, <2>3 DEF PagesTracked, Paging
<1>2. ASSUME Become(h, Ended(p, "failed")), UNCHANGED scratch
      PROVE  UNCHANGED scratch /\ Paging'
  <2> DEFINE q == [p EXCEPT !.pc = "failed"]
  <2>1. q.file = p.file /\ q.pc = "failed"
    BY <1>0 DEF Fields
  <2>2. Ended(p, "failed") = q
    BY <1>0 DEF Ended
  <2> HIDE DEF q
  <2>3. PageHeld(p, pager, n, scratch, stdout) => PageHeld(q, pager, n, scratch, stdout')
    BY <2>1 DEF PageHeld
  <2> QED
    BY <1>1, <1>2, <2>2, <2>3
<1>3. CASE Stat(h)
  <2> DEFINE r == [p EXCEPT !.pos = Size(p.file)]
             q == [r EXCEPT !.pc = "done"]
  <2>1. UNCHANGED scratch /\ p.op = "stat"
    BY <1>3 DEF Stat
  <2>2. CASE Content(p.file) # Absent /\ Become(h, Ended(r, "done"))
    <3>1. p.file \in Scratchfiles /\ c \in Seq(Bytes)
      BY <2>2 DEF Content, PagesTracked, Sound, FileTypes
    <3>2. DOMAIN r = Fields /\ r.op = "stat" /\ r.file = p.file /\ r.pos = Len(c)
      BY <1>0, <2>1 DEF Fields, Size
    <3>3. r.attached
      BY <1>0 DEF Fields
    <3>4. Ended(r, "done") = q
      BY <3>3 DEF Ended
    <3> HIDE DEF r
    <3>5. q.op = "stat" /\ q.file = p.file /\ q.pos = Len(c)
      BY <3>2 DEF Fields
    <3> HIDE DEF q
    <3>6. PageHeld(p, pager, n, scratch, stdout) => PageHeld(q, pager, n, scratch, stdout')
      BY <3>1, <3>5 DEF PageHeld
    <3> QED
      BY <1>1, <2>1, <2>2, <3>4, <3>6
  <2>3. CASE Become(h, Ended(p, "failed"))
    BY <1>2, <2>1, <2>3
  <2> QED
    BY <1>3, <2>2, <2>3 DEF Stat
<1>4. CASE ReadOpen(h)
  <2> DEFINE q == [p EXCEPT !.pc = "copy", !.alone = TRUE]
  <2>1. UNCHANGED <<scratch, stdout>> /\ p.op = "read" /\ p.pc = "open"
    BY <1>0, <1>4 DEF ReadOpen
  <2>2. CASE Become(h, q)
    <3>1. p.from \in Nat /\ p.pos = p.from /\ p.limit \in Int /\ stdout = EmptyBuffer
      BY <1>0, <2>1 DEF ProcessSound, ReadSound, Moving
    <3>2. Holds(stdout, p.limit, SubSeq(c, p.from + 1, p.from))
      BY <3>1, NothingHeld
    <3>3. /\ q.op = "read" /\ q.file = p.file /\ q.from = p.from /\ q.pos = p.pos
          /\ q.limit = p.limit
      BY <1>0, <2>1 DEF Fields
    <3> HIDE DEF q
    <3>4. ASSUME PageHeld(p, pager, n, scratch, stdout)
          PROVE  PageHeld(q, pager, n, scratch, stdout')
      <4>1. p.pos \in p.from .. n
        BY <2>1, <3>1, <3>4 DEF PageHeld
      <4> QED
        BY <2>1, <3>1, <3>2, <3>3, <3>4, <4>1 DEF PageHeld
    <3> QED
      BY <1>1, <2>1, <2>2, <3>4
  <2>3. CASE Become(h, Ended(p, "failed"))
    BY <1>2, <2>1, <2>3
  <2> QED
    BY <1>4, <2>2, <2>3 DEF ReadOpen
<1>5. CASE ReadCopy(h)
  <2>1. UNCHANGED scratch /\ p.op = "read" /\ p.pc = "copy"
    BY <1>0, <1>5 DEF ReadCopy
  <2>2. p.from \in Nat /\ p.pos \in Nat /\ p.limit \in Int /\ p.upto \in Int
    BY <1>0, <2>1 DEF ProcessSound, ReadSound, Moving
  <2>3. p.file \in Scratchfiles /\ c \in Seq(Bytes) /\ stdout \in Buffers(Bytes)
    BY <1>0, <2>1 DEF ProcessSound, CopySound, Moving, PagesTracked, Sound, FileTypes
  <2>4. PICK upto \in p.pos + 1 .. Reach(p) :
          /\ Become(h, [p EXCEPT !.pos = upto])
          /\ stdout' = BufferWrite(stdout, p.limit, SubSeq(c, p.pos + 1, upto))
    BY <1>5 DEF ReadCopy
  <2>5. upto \in p.pos + 1 .. Len(c)
    <3>1. Reach(p) \in Int /\ Reach(p) <= Len(c)
      BY <2>1, <2>2, <2>3 DEF Reach, Lesser, Size
    <3> QED
      BY <2>2, <2>3, <2>4, <3>1
  <2> DEFINE q == [p EXCEPT !.pos = upto]
             chunk == SubSeq(c, p.pos + 1, upto)
             sent == SubSeq(c, p.from + 1, p.pos)
  <2>6. /\ q.op = "read" /\ q.pc = "copy" /\ q.file = p.file /\ q.from = p.from
        /\ q.pos = upto /\ q.limit = p.limit
    BY <1>0, <2>1 DEF Fields
  <2>7. Become(h, q)
    BY <2>4
  <2> HIDE DEF q
  <2>8. ASSUME PageHeld(p, pager, n, scratch, stdout)
        PROVE  PageHeld(q, pager, n, scratch, stdout')
    <3>1. /\ p.pos \in p.from .. n /\ n = Len(c) /\ Holds(stdout, p.limit, sent)
      BY <2>1, <2>8 DEF PageHeld
    <3>2. /\ p.from \in 0 .. p.pos /\ p.pos \in Nat /\ c \in Seq(Bytes)
          /\ upto \in p.pos + 1 .. Len(c)
      BY <2>2, <2>3, <2>5, <3>1
    <3>3. /\ SubSeq(c, p.from + 1, upto) = sent \o chunk
          /\ sent \in Seq(Bytes) /\ chunk \in Seq(Bytes) /\ chunk # << >>
      <4> DEFINE from == p.from
                 pos == p.pos
      <4>1. /\ from \in 0 .. pos /\ pos \in Nat /\ c \in Seq(Bytes)
            /\ upto \in pos + 1 .. Len(c)
        BY <3>2
      <4> HIDE DEF p, c, from, pos, sent, chunk
      <4>2. /\ SubSeq(c, from + 1, upto)
                 = SubSeq(c, from + 1, pos) \o SubSeq(c, pos + 1, upto)
            /\ SubSeq(c, from + 1, pos) \in Seq(Bytes)
            /\ SubSeq(c, pos + 1, upto) \in Seq(Bytes)
            /\ SubSeq(c, pos + 1, upto) # << >>
        BY <4>1, PiecesFollow
      <4> QED
        BY <4>2 DEF from, pos, sent, chunk
    <3> HIDE DEF sent, chunk
    <3>4. Holds(BufferWrite(stdout, p.limit, chunk), p.limit, sent \o chunk)
      BY <2>2, <2>3, <3>1, <3>3, WriteHolds
    <3>5. Holds(stdout', p.limit, SubSeq(c, p.from + 1, upto))
      BY <2>4, <3>3, <3>4 DEF chunk
    <3>6. upto \in p.from .. n
      BY <2>2, <2>5, <3>1, <3>2
    <3> QED
      BY <2>1, <2>6, <2>8, <3>5, <3>6 DEF PageHeld
  <2> QED
    BY <1>1, <2>1, <2>7, <2>8
<1>6. CASE ReadEnd(h)
  <2> DEFINE q == [p EXCEPT !.pc = "done"]
  <2>1. UNCHANGED <<scratch, stdout>> /\ p.op = "read" /\ p.pc = "copy"
    BY <1>0, <1>6 DEF ReadEnd
  <2>2. Become(h, q)
    BY <1>0, <1>6 DEF ReadEnd, Ended
  <2>3. /\ q.op = "read" /\ q.file = p.file /\ q.from = p.from /\ q.pos = p.pos
        /\ q.limit = p.limit
    BY <1>0, <2>1 DEF Fields
  <2> HIDE DEF q
  <2>4. PageHeld(p, pager, n, scratch, stdout) => PageHeld(q, pager, n, scratch, stdout')
    BY <2>1, <2>3 DEF PageHeld
  <2> QED
    BY <1>1, <2>1, <2>2, <2>4
<1>7. CASE Fails(h)
  BY <1>2, <1>7 DEF Fails
<1> QED
  BY <1>0, <1>3, <1>4, <1>5, <1>6, <1>7 DEF HelperStep, WriteOpen, WriteCopy, WriteEnd,
     LoadCookies, Exchange, SaveCookies, RenameCookies

\* Some file may have changed: the client starts over when it was the one.
LEMMA FileChangesPages ==
  ASSUME PagesTracked, Sound', NEW f,
         \A e \in Scratchfiles : e # f => scratch'[e] = scratch[e],
         pager' = IF pager.file = f THEN NothingRead ELSE pager,
         UNCHANGED req,
         req.op \in {"stat", "read"} /\ req.pc = "wait" =>
           /\ UNCHANGED stdout
           /\ helper'[req.h] \in {helper[req.h], [helper[req.h] EXCEPT !.alone = FALSE]}
  PROVE  PagesTracked'
<1>1. CASE pager.file = f
  <2>1. PagerHeld(pager', scratch') /\ Paging'
    BY <1>1, NothingIsHeld DEF Paging
  <2> QED
    BY <2>1 DEF PagesTracked
<1>2. CASE pager.file # f
  <2>1. PagerHeld(pager', scratch')
    BY <1>2 DEF PagesTracked, PagerHeld
  <2>2. ASSUME req.op \in {"stat", "read"}, req.pc = "wait", pager # NothingRead
        PROVE  PageHeld(helper'[req.h], pager, req.bytes, scratch', stdout)
    <3> DEFINE p == helper[req.h]
               r == [p EXCEPT !.alone = FALSE]
               q == helper'[req.h]
    <3>0. DOMAIN p = Fields
      BY <2>2 DEF PagesTracked, Sound, Tracked, Waiting, HelperShape
    <3>1. /\ r.op = p.op /\ r.pc = p.pc /\ r.file = p.file /\ r.from = p.from
          /\ r.pos = p.pos /\ r.limit = p.limit
      BY <3>0 DEF Fields
    <3>2. q \in {p, r}
      BY <2>2
    <3> HIDE DEF r
    <3>3. /\ q.op = p.op /\ q.pc = p.pc /\ q.file = p.file /\ q.from = p.from
          /\ q.pos = p.pos /\ q.limit = p.limit
      BY <3>1, <3>2
    <3>4. PageHeld(p, pager, req.bytes, scratch, stdout)
      BY <2>2 DEF PagesTracked, Paging
    <3> HIDE DEF p, q
    <3>5. PageHeld(q, pager, req.bytes, scratch', stdout)
      BY <1>2, <3>3, <3>4 DEF PageHeld
    <3> QED
      BY <3>5 DEF q
  <2>3. Paging'
    BY <1>2, <2>2 DEF Paging
  <2> QED
    BY <2>1, <2>3 DEF PagesTracked
<1> QED
  BY <1>1, <1>2

\* Whatever a helper does.
LEMMA HelperActsPages ==
  ASSUME PagesTracked, Sound', NEW h \in Helpers, HelperActs(h)
  PROVE  PagesTracked'
<1> DEFINE p == helper[h]
           waits == req.op \in {"stat", "read"} /\ req.pc = "wait"
<1>0. /\ HelperStep(h) /\ UNCHANGED req /\ HelperShape
      /\ DOMAIN scratch = Scratchfiles
  BY DEF HelperActs, controller, PagesTracked, Sound, Tracked, FileTypes
<1>1. CASE waits /\ h = req.h
  <2>1. p.op \in {"stat", "read"}
    BY <1>1 DEF PagesTracked, Sound, Tracked, Waiting
  <2>2. UNCHANGED scratch
    BY <1>0, <2>1 DEF HelperStep, WriteOpen, WriteCopy, WriteEnd, Stat, ReadOpen, ReadCopy,
       ReadEnd, LoadCookies, Exchange, SaveCookies, RenameCookies, Replace, Fails
  <2>3. UNCHANGED pager
    BY <2>2 DEF HelperActs
  <2>4. Paging'
    BY <1>0, <1>1, <2>3, WaitedForPages
  <2> QED
    BY <2>2, <2>3, <2>4 DEF PagesTracked
<1>2. CASE ~ (waits /\ h = req.h)
  <2>1. ASSUME waits
        PROVE  /\ UNCHANGED stdout
               /\ helper'[req.h] \in {helper[req.h], [helper[req.h] EXCEPT !.alone = FALSE]}
    <3>1. h # req.h /\ req.h \in Helpers /\ ~ p.attached
      BY <1>2, <2>1 DEF PagesTracked, Sound, Tracked, Waiting, OneAttached
    <3>2. ~ ReadCopy(h)
      BY <3>1 DEF ReadCopy, PagesTracked, Sound, Tracked, ReadersAttached, ReaderAttached
    <3>3. UNCHANGED stdout
      BY <1>0, <3>2 DEF HelperStep, WriteOpen, WriteCopy, WriteEnd, Stat, ReadOpen, ReadEnd,
         LoadCookies, Exchange, SaveCookies, RenameCookies, Replace, Fails
    <3> QED
      BY <1>0, <3>1, <3>3, OthersDisturbed
  <2>2. \A e \in Scratchfiles : e # p.file => scratch'[e] = scratch[e]
    <3>1. CASE WriteOpen(h) \/ WriteCopy(h)
      BY <1>0, <3>1 DEF WriteOpen, WriteCopy, Change
    <3>2. CASE ~ (WriteOpen(h) \/ WriteCopy(h))
      BY <1>0, <3>2 DEF HelperStep, WriteEnd, Stat, ReadOpen, ReadCopy, ReadEnd,
         LoadCookies, Exchange, SaveCookies, RenameCookies, Replace, Fails
    <3> QED
      BY <3>1, <3>2
  <2>3. CASE Reread(p.file)
    <3>1. pager' = IF pager.file = p.file THEN NothingRead ELSE pager
      BY <2>3 DEF Reread
    <3> QED
      BY <1>0, <2>1, <2>2, <3>1, FileChangesPages
  <2>4. CASE UNCHANGED pager /\ UNCHANGED scratch
    <3>1. CASE waits
      BY <1>0, <1>2, <2>4, <3>1, OtherHelpersPage DEF PagesTracked
    <3>2. CASE ~ waits
      BY <1>0, <2>4, <3>2 DEF PagesTracked, Paging
    <3> QED
      BY <3>1, <3>2
  <2> QED
    BY <2>3, <2>4 DEF HelperActs
<1> QED
  BY <1>1, <1>2

\* A page that comes continues what the client has.
LEMMA PageComes ==
  ASSUME NEW S, NEW c \in Seq(S), NEW from \in 0 .. Len(c), NEW pos \in from .. Len(c),
         NEW limit \in Int, limit > 0, NEW w, Holds(w, limit, SubSeq(c, from + 1, pos))
  PROVE  /\ w.kept = SubSeq(c, from + 1, from + Len(w.kept))
         /\ from + Len(w.kept) \in from .. Len(c)
<1> DEFINE sent == SubSeq(c, from + 1, pos)
           k == Lesser(pos - from, limit)
<1>1. Len(sent) = pos - from /\ sent \in Seq(S)
  OBVIOUS
<1>2. k \in 0 .. pos - from
  BY DEF Lesser
<1>3. w.kept = SubSeq(sent, 1, k)
  BY <1>1 DEF Holds
<1> HIDE DEF k
<1>4. SubSeq(sent, 1, k) = SubSeq(c, from + 1, from + k)
  BY <1>2
<1>5. Len(w.kept) = k
  BY <1>1, <1>2, <1>3
<1> QED
  BY <1>2, <1>3, <1>4, <1>5

\* The answer to a page is right.
LEMMA PageAnswered ==
  ASSUME PagesTracked, Sound', ReadReturns
  PROVE  PagesTracked'
<1> DEFINE p == helper[req.h]
           c == scratch[p.file]
           kept == stdout.kept
           from == Len(pager.got)
<1>0. /\ req.h \in Helpers /\ req.op = "read" /\ req.pc = "wait" /\ p.op = "read"
      /\ UNCHANGED scratch /\ req' = Unoccupied
      /\ DOMAIN pager = PagerFields
      /\ from \in Nat
  BY DEF ReadReturns, PagesTracked, Sound, Tracked, Waiting, FileTypes, PagerTyped
<1>1. Paging'
  BY <1>0 DEF Paging, Unoccupied
<1>2. PagerHeld(pager', scratch)
  <2>1. CASE UNCHANGED pager
    BY <2>1 DEF PagesTracked
  <2>2. CASE ~ UNCHANGED pager
    <3> DEFINE g == [pager EXCEPT
                 !.got = @ \o Carried(pager.encoding, kept),
                 !.start = Len(pager.got),
                 !.more = Truncated(p.from, kept, req.bytes),
                 !.answered = TRUE]
               n == from + Len(kept)
    <3>1. Exits(req.h, "done") /\ pager # NothingRead /\ pager' = g
      BY <2>2 DEF ReadReturns
    <3>2. p.pc = "done"
      BY <3>1 DEF Exits
    <3>3. PageHeld(p, pager, req.bytes, scratch, stdout)
      BY <1>0, <3>1 DEF PagesTracked, Paging
    <3>4. /\ p.from = from /\ p.limit \in Int /\ p.limit > 0 /\ p.file = pager.file
          /\ p.file \in Scratchfiles /\ c \in Seq(Bytes)
          /\ req.bytes = Len(c) /\ from \in 0 .. Len(c) /\ p.pos \in from .. Len(c)
          /\ Holds(stdout, p.limit, SubSeq(c, from + 1, p.pos)) /\ Whole(pager.got)
      BY <1>0, <3>2, <3>3 DEF PageHeld
    <3>5. pager.got = SubSeq(c, 1, from)
      <4>1. CASE pager.answered
        <5>1. /\ pager.start \in 0 .. from
              /\ pager.got = SubSeq(c, 1, pager.start)
                              \o Carried(pager.encoding, SubSeq(c, pager.start + 1, from))
          BY <3>4, <4>1 DEF PagesTracked, PagerHeld
        <5> DEFINE start == pager.start
                   encoding == pager.encoding
        <5>2. /\ start \in 0 .. from /\ c \in Seq(Bytes) /\ from \in 0 .. Len(c)
              /\ Whole(SubSeq(c, 1, start) \o Carried(encoding, SubSeq(c, start + 1, from)))
          BY <3>4, <5>1
        <5> HIDE DEF c, from, start, encoding
        <5>3. SubSeq(c, 1, start) \o Carried(encoding, SubSeq(c, start + 1, from))
                = SubSeq(c, 1, from)
          BY <5>2, WholeIsContent
        <5> QED
          BY <5>1, <5>3 DEF start, encoding
      <4>2. CASE ~ pager.answered
        <5>1. pager.got = << >>
          BY <4>2 DEF PagesTracked, PagerHeld
        <5>2. from = 0 /\ SubSeq(c, 1, 0) = << >>
          BY <5>1
        <5> HIDE DEF from
        <5> QED
          BY <5>1, <5>2
      <4> QED
        BY <4>1, <4>2
    <3>6. kept = SubSeq(c, from + 1, n) /\ n \in from .. Len(c)
      <4>1. /\ c \in Seq(Bytes) /\ p.limit \in Int /\ p.limit > 0
            /\ from \in 0 .. Len(c) /\ p.pos \in from .. Len(c)
            /\ Holds(stdout, p.limit, SubSeq(c, from + 1, p.pos))
        BY <3>4
      <4> HIDE DEF p, c, from, g
      <4> QED
        BY <4>1, PageComes
    <3>7. kept \in Seq(Bytes) /\ Len(kept) \in Nat
      BY DEF PagesTracked, Sound, FileTypes, Buffers
    <3>8. /\ g.file = pager.file /\ g.encoding = pager.encoding
          /\ g.got = pager.got \o Carried(pager.encoding, kept)
          /\ g.start = from
      BY <1>0 DEF PagerFields
    <3>9. g.more <=> Truncated(p.from, kept, req.bytes)
      BY <1>0 DEF PagerFields
    <3>10. g.answered
      BY <1>0 DEF PagerFields
    <3>11. /\ pager.got \in Seq(Bytes \cup {Replacement})
           /\ Carried(pager.encoding, kept) \in Seq(Bytes \cup {Replacement})
           /\ Len(Carried(pager.encoding, kept)) = Len(kept)
      BY <3>7, CarriedParts DEF PagesTracked, Sound, FileTypes, PagerTyped
    <3> HIDE DEF g
    <3>12. Len(g.got) = n
      <4> DEFINE a == pager.got
                 b == Carried(pager.encoding, kept)
      <4>1. /\ a \in Seq(Bytes \cup {Replacement}) /\ b \in Seq(Bytes \cup {Replacement})
            /\ Len(b) = Len(kept) /\ g.got = a \o b /\ from = Len(a)
        BY <3>8, <3>11
      <4> HIDE DEF a, b, kept, from
      <4>2. Len(a \o b) = Len(a) + Len(b)
        <5>1. a \in Seq(Bytes \cup {Replacement}) /\ b \in Seq(Bytes \cup {Replacement})
          BY <4>1
        <5> QED
          BY <5>1
      <4> QED
        BY <4>1, <4>2
    <3>13. Truncated(p.from, kept, req.bytes) <=> n < Len(c)
      BY <3>4 DEF Truncated
    <3>14. g.got = SubSeq(c, 1, from) \o Carried(pager.encoding, SubSeq(c, from + 1, n))
      <4>1. pager.got \o Carried(pager.encoding, kept)
              = SubSeq(c, 1, from) \o Carried(pager.encoding, SubSeq(c, from + 1, n))
        BY <3>5, <3>6, Zenon
      <4> QED
        BY <3>8, <4>1, Zenon
    <3>15. from \in 0 .. n /\ n <= Len(c)
      <4> HIDE DEF c, from, n, kept
      <4>1. Len(c) \in Nat
        BY <3>4
      <4> QED
        BY <1>0, <3>6, <4>1
    <3> HIDE DEF from, n, kept
    <3>16. PagerHeld(g, scratch)
      BY <3>4, <3>8, <3>9, <3>10, <3>12, <3>13, <3>14, <3>15 DEF PagerHeld
    <3> QED
      BY <3>1, <3>16
  <2> QED
    BY <2>1, <2>2
<1> QED
  BY <1>0, <1>1, <1>2 DEF PagesTracked

\* The second execution of a page starts where the client's pages end.
LEMMA PageStarts ==
  ASSUME StatFits, PagesTracked, Sound', StatReturns
  PROVE  PagesTracked'
<1> DEFINE p == helper[req.h]
           from == Len(pager.got)
<1>0. /\ req.h \in Helpers /\ req.op = "stat" /\ req.pc = "wait" /\ p.op = "stat"
      /\ UNCHANGED <<scratch, pager>> /\ DOMAIN req = RequestFields
      /\ DOMAIN helper = Helpers
  BY DEF StatReturns, outside, PagesTracked, Sound, Tracked, Executes, Waiting, RequestShape,
     HelperShape
<1>1. CASE req' = Unoccupied
  <2>1. Paging'
    BY <1>1 DEF Paging, Unoccupied
  <2> QED
    BY <1>0, <2>1 DEF PagesTracked
<1>2. CASE /\ p.pc = "done"
           /\ Launch(req.h, [Exec("read", "open", p.file) EXCEPT
                            !.pos = from,
                            !.from = from,
                            !.upto = from + ReadSize(config, req.bytes),
                            !.limit = ExecOutputLimit(config.outputBytes)])
           /\ req' = [req EXCEPT !.op = "read", !.bytes = SizeIn(p)]
  <2> DEFINE x == Exec("read", "open", p.file)
             y == [x EXCEPT
                    !.pos = from,
                    !.from = from,
                    !.upto = from + ReadSize(config, req.bytes),
                    !.limit = ExecOutputLimit(config.outputBytes)]
             q == [y EXCEPT !.attached = TRUE]
  <2>1. DOMAIN x = Fields /\ x.op = "read" /\ x.pc = "open" /\ x.file = p.file
    BY ExecParts
  <2>2. /\ DOMAIN y = Fields /\ y.op = "read" /\ y.pc = "open" /\ y.file = p.file
        /\ y.from = from /\ y.limit = ExecOutputLimit(config.outputBytes)
    BY <2>1 DEF Fields
  <2>3. Launch(req.h, y)
    BY <1>2
  <2> HIDE DEF y
  <2>4. /\ q.op = "read" /\ q.pc = "open" /\ q.file = p.file
        /\ q.from = from /\ q.limit = ExecOutputLimit(config.outputBytes)
    BY <2>2 DEF Fields
  <2>5. helper'[req.h] = q
    BY <1>0, <2>3 DEF Launch
  <2> HIDE DEF q
  <2>6. /\ req'.op = "read" /\ req'.pc = "wait" /\ req'.h = req.h
        /\ req'.bytes = SizeIn(p)
    BY <1>0, <1>2 DEF RequestFields
  <2>7. /\ ExecOutputLimit(config.outputBytes) \in Int
        /\ ExecOutputLimit(config.outputBytes) > 0
        /\ SizeIn(p) = p.pos
    BY TransfersAssumption DEF StatFits, SizeIn, PagesTracked, Sound, ConfigOK,
       ExecOutputLimit, DefaultExecOutputLimit
  <2>8. CASE pager = NothingRead
    BY <1>0, <2>8 DEF PagesTracked, Paging
  <2>9. CASE pager # NothingRead
    <3>1. PageHeld(p, pager, req.bytes, scratch, stdout)
      BY <1>0, <2>9 DEF PagesTracked, Paging
    <3>2. /\ p.file = pager.file /\ p.file \in Scratchfiles
          /\ scratch[p.file] \in Seq(Bytes) /\ p.pos = Len(scratch[p.file])
      BY <1>0, <1>2, <3>1 DEF PageHeld
    <3>3. from <= Len(scratch[p.file]) /\ Whole(pager.got)
      <4>1. CASE pager.answered
        BY <3>1, <3>2, <4>1 DEF PagesTracked, PagerHeld, PageHeld
      <4>2. CASE ~ pager.answered
        BY <3>1, <3>2, <4>2 DEF PagesTracked, PagerHeld, PageHeld
      <4> QED
        BY <4>1, <4>2
    <3> HIDE DEF p, from
    <3>4. PageHeld(q, pager, req'.bytes, scratch, stdout')
      BY <2>4, <2>6, <2>7, <3>2, <3>3 DEF PageHeld, from
    <3> QED
      BY <1>0, <2>5, <2>6, <3>4 DEF PagesTracked, Paging
  <2> QED
    BY <2>8, <2>9
<1> QED
  BY <1>1, <1>2 DEF StatReturns

\* No action gives the client of a page something else.
LEMMA PagesStay ==
  ASSUME StatFits, PagesTracked, [Next]_vars
  PROVE  PagesTracked'
<1>0. Sound'
  BY SoundStays DEF PagesTracked
<1>a. ASSUME req'.pc # "wait" \/ req'.op \notin {"stat", "read"},
             UNCHANGED <<scratch, pager>>
      PROVE  PagesTracked'
  BY <1>0, <1>a DEF PagesTracked, Paging
<1>1. ASSUME NEW f, NEW p, NEW overwrite, WriteFile(f, p, overwrite)
      PROVE  PagesTracked'
  BY <1>a, <1>1 DEF WriteFile, Unoccupied
<1>2. ASSUME NEW path, NEW n, NEW encoding, ReadFile(path, n, encoding)
      PROVE  PagesTracked'
  <2> DEFINE fresh(f) == [NothingRead EXCEPT !.file = f, !.encoding = encoding,
                                             !.more = TRUE]
             x(f) == Exec("stat", "open", f)
             q(f) == [x(f) EXCEPT !.attached = TRUE]
  <2>1. PICK f : /\ Launch(Place, x(f)) /\ UNCHANGED scratch
                 /\ \/ pager' = pager /\ pager.file = f /\ Whole(pager.got)
                    \/ pager' = fresh(f)
    BY <1>2 DEF ReadFile
  <2>2. /\ fresh(f).file = f /\ fresh(f).got = << >>
    BY DEF NothingRead
  <2>3. ~ fresh(f).answered
    BY DEF NothingRead
  <2>4. PagerHeld(fresh(f), scratch) /\ Whole(fresh(f).got)
    BY <2>2, <2>3 DEF PagerHeld, Whole
  <2>5. DOMAIN x(f) = Fields /\ x(f).op = "stat" /\ x(f).pc = "open" /\ x(f).file = f
    BY ExecParts
  <2> HIDE DEF x, fresh
  <2>6. q(f).op = "stat" /\ q(f).pc = "open" /\ q(f).file = f
    BY <2>5 DEF Fields
  <2>7. helper'[Place] = q(f)
    BY <1>2, <2>1, PlaceIsVacant DEF Launch, PagesTracked, Sound, Tracked, HelperShape,
       ReadFile, Accepts
  <2>8. req'.h = Place
    BY <1>2 DEF ReadFile, Unoccupied
  <2>9. pager'.file = f /\ PagerHeld(pager', scratch') /\ Whole(pager'.got)
    BY <2>1, <2>2, <2>4 DEF PagesTracked
  <2> HIDE DEF q
  <2>10. PageHeld(q(f), pager', req'.bytes, scratch', stdout')
    BY <2>6, <2>9 DEF PageHeld
  <2> QED
    BY <1>0, <2>7, <2>8, <2>9, <2>10 DEF PagesTracked, Paging
<1>3. ASSUME NEW load, NEW save, HTTPRequest(load, save)
      PROVE  PagesTracked'
  BY <1>a, <1>3 DEF HTTPRequest, Unoccupied
<1>4. ASSUME ResetSession \/ StopSession
      PROVE  PagesTracked'
  <2>1. pager' = NothingRead
    BY <1>4 DEF ResetSession, StopSession, Empty
  <2> QED
    BY <1>0, <2>1, NothingIsHeld DEF PagesTracked, Paging
<1>5. ASSUME WriteReturns \/ HTTPReturns \/ Refuse \/ Restart \/ Publish
      PROVE  PagesTracked'
  <2>1. req' = Unoccupied /\ UNCHANGED <<scratch, pager>>
    BY <1>5 DEF WriteReturns, HTTPReturns, Refuse, Restart, Publish, inside, outside
  <2> QED
    BY <1>a, <2>1 DEF Unoccupied
<1>6. ASSUME ExportStreamed
      PROVE  PagesTracked'
  <2>0. DOMAIN req = RequestFields
    BY DEF PagesTracked, Sound, Tracked, RequestShape
  <2>1. req'.pc # "wait"
    <3>1. CASE req' = Unoccupied
      BY <3>1 DEF Unoccupied
    <3>2. CASE \E x : req' = [req EXCEPT !.pc = "publish", !.h = Absent, !.original = x]
      BY <2>0, <3>2 DEF RequestFields
    <3> QED
      BY <1>6, <3>1, <3>2 DEF ExportStreamed
  <2> QED
    BY <1>a, <1>6, <2>1 DEF ExportStreamed, outside
<1>7. ASSUME NEW d, ExportFile(d)
      PROVE  PagesTracked'
  BY <1>a, <1>7 DEF ExportFile, inside, outside, Unoccupied
<1>8. ASSUME NEW f, ExportLease(f)
      PROVE  PagesTracked'
  <2>0. DOMAIN req = RequestFields
    BY DEF PagesTracked, Sound, Tracked, RequestShape
  <2>1. req'.op \notin {"stat", "read"}
    <3>1. CASE req' = Unoccupied
      BY <3>1 DEF Unoccupied
    <3>2. CASE req' = [req EXCEPT !.pc = "wait", !.h = Place]
      BY <1>8, <2>0, <3>2 DEF ExportLease, RequestFields
    <3> QED
      BY <1>8, <3>1, <3>2 DEF ExportLease
  <2>2. UNCHANGED <<scratch, pager>>
    BY <1>8 DEF ExportLease, Launch, inside, outside
  <2> QED
    BY <1>a, <2>1, <2>2
<1>9. ASSUME NEW f \in Scratchfiles, NEW p, AgentWrites(f, p)
      PROVE  PagesTracked'
  <2>1. /\ \A e \in Scratchfiles : e # f => scratch'[e] = scratch[e]
        /\ pager' = IF pager.file = f THEN NothingRead ELSE pager
        /\ UNCHANGED <<req, stdout>> /\ helper' = Disturbed(f)
    BY <1>9 DEF AgentWrites, Reread, controller, PagesTracked, Sound, FileTypes
  <2>2. ASSUME req.pc = "wait"
        PROVE  helper'[req.h] \in {helper[req.h], [helper[req.h] EXCEPT !.alone = FALSE]}
    BY <2>1, <2>2 DEF Disturbed, PagesTracked, Sound, Tracked, Waiting
  <2> QED
    BY <1>0, <2>1, <2>2, FileChangesPages
<1>10. ASSUME Crash
      PROVE  PagesTracked'
  BY <1>a, <1>10 DEF Crash, outside, Unoccupied
<1>11. ASSUME NEW p, ReadRefused(p)
      PROVE  PagesTracked'
  BY <1>a, <1>11 DEF ReadRefused, inside, outside, Unoccupied
<1>12. ASSUME NEW o, NEW g, StartSession(o, g)
      PROVE  PagesTracked'
  BY <1>0, <1>12 DEF StartSession, inside, PagesTracked, Paging
<1>13. ASSUME NEW f, NEW cookies, AgentBakes(f, cookies)
      PROVE  PagesTracked'
  BY <1>0, <1>13 DEF AgentBakes, controller, PagesTracked, Paging
<1>14. CASE UNCHANGED vars
  BY <1>0, <1>14 DEF vars, inside, controller, outside, PagesTracked, Paging
<1> QED
  BY <1>0, <1>1, <1>2, <1>3, <1>4, <1>5, <1>6, <1>7, <1>8, <1>9, <1>10, <1>11, <1>12, <1>13,
     <1>14, HelperActsPages, PageAnswered, PageStarts DEF Next, Request, Work

\* Whoever follows a file page by page while nobody changes it gets its
\* beginning, as far as the encoding carries it, and is told that more follows
\* exactly when it does.
THEOREM PagesFollow == Spec => []PagesAreWhole
<1>1. CASE StatFits
  <2>1. Init => PagesTracked
    BY SoundInit, NothingIsHeld DEF Init, PagesTracked, Paging, Unoccupied
  <2>2. PagesTracked /\ [Next]_vars => PagesTracked'
    BY <1>1, PagesStay
  <2>3. PagesTracked => PagesAreWhole
    BY DEF PagesTracked, PagerHeld, PagesAreWhole
  <2> QED
    BY <2>1, <2>2, <2>3, PTL DEF Spec
<1>2. CASE ~ StatFits
  <2>1. PagesAreWhole
    BY <1>2 DEF StatFits, PagesAreWhole
  <2> QED
    BY <2>1, PTL
<1> QED
  BY <1>1, <1>2

-----------------------------------------------------------------------------
(* Types, and what a path that was accepted leads to.                      *)

TypedHelper(p) ==
  /\ p.op \in HelperOps /\ p.pc \in HelperSteps
  /\ p.load \in CookieFiles \cup {Absent}
  /\ p.cookies \subseteq Cookies /\ p.fresh \subseteq Cookies
  /\ p.op = "write" => p.data \in Seq(Bytes)

JarTyped == jar \in [CookieFiles -> SUBSET Cookies]

HistoriesTyped ==
  /\ stored \in [Scratchfiles -> Seq(Bytes) \cup {Absent}]
  /\ acked \in [CookieFiles -> SUBSET Cookies]
  /\ contested \subseteq Scratchfiles \cup CookieFiles

HelpersTyped == \A h \in Helpers : TypedHelper(helper[h])

\* A process stays one, and at its file.
Good(p, q) == TypedHelper(q) /\ (p.attached /\ q.attached => q.file = p.file)

AllGood == \A g \in Helpers : Good(helper[g], helper'[g])

\* The helper that a request with a path waits for works on the file the path
\* stands for, and such a request waits from its start to its end.
PathHeld ==
  req.path # Absent =>
    /\ req.path \in PathsOver(PathNames)
    /\ req.op \in {"stat", "read"}
    /\ IF req.pc = "refused" THEN ~ Accepted(req.path)
       ELSE /\ req.pc = "wait" /\ Accepted(req.path)
            /\ helper[req.h].file = RelativeParts(CleanContainerPath(req.path))

Settled ==
  /\ Tracked /\ HelpersTyped /\ PathHeld
  /\ JarTyped /\ HistoriesTyped
  /\ work \in Workloads
  /\ crashes \in 0 .. MaxCrashes

\* One that is gone.
LEMMA NoneTyped == TypedHelper(None)
<1>1. /\ None.op = "none" /\ None.pc = "gone" /\ None.load = Absent
      /\ None.cookies = {} /\ None.fresh = {}
  BY DEF None
<1> QED
  BY <1>1 DEF TypedHelper, HelperOps, HelperSteps

\* One that is started.
LEMMA ExecTyped ==
  ASSUME NEW op \in HelperOps, NEW pc \in HelperSteps, NEW f
  PROVE  TypedHelper(Exec(op, pc, f)) /\ Exec(op, pc, f).file = f
<1>1. /\ Exec(op, pc, f).load = Absent /\ Exec(op, pc, f).data = << >>
      /\ Exec(op, pc, f).cookies = {} /\ Exec(op, pc, f).fresh = {}
  BY DEF Exec, None
<1> QED
  BY <1>1, ExecParts DEF TypedHelper

\* What a process has from its start to its end.
Kept(p, q) == q.op = p.op /\ q.file = p.file /\ q.load = p.load /\ q.data = p.data

\* One that goes on.
LEMMA GoesOn ==
  ASSUME NEW p, TypedHelper(p), NEW q, Kept(p, q),
         q.pc = p.pc \/ q.pc \in HelperSteps,
         q.cookies = p.cookies \/ q.cookies \subseteq Cookies,
         q.fresh = p.fresh \/ q.fresh \subseteq Cookies
  PROVE  Good(p, q)
BY DEF Good, TypedHelper, Kept

\* One that ends.
LEMMA EndedGood ==
  ASSUME NEW p, DOMAIN p = Fields, TypedHelper(p), NEW how \in {"done", "failed"}
  PROVE  Good(p, Ended(p, how))
<1>1. CASE p.attached
  <2> DEFINE q == [p EXCEPT !.pc = how]
  <2>1. Kept(p, q) /\ q.cookies = p.cookies /\ q.fresh = p.fresh /\ q.pc = how
    BY DEF Fields, Kept
  <2>2. Ended(p, how) = q
    BY <1>1 DEF Ended
  <2> HIDE DEF q
  <2>3. how \in HelperSteps
    BY DEF HelperSteps
  <2> QED
    BY <2>1, <2>2, <2>3, GoesOn
<1>2. CASE ~ p.attached
  BY <1>2, NoneTyped DEF Ended, Good
<1> QED
  BY <1>1, <1>2

\* One that ends with this.
LEMMA EndsGood ==
  ASSUME NEW p, TypedHelper(p), NEW q, DOMAIN q = Fields, Kept(p, q),
         q.attached <=> p.attached,
         q.pc = p.pc \/ q.pc \in HelperSteps,
         q.cookies = p.cookies \/ q.cookies \subseteq Cookies,
         q.fresh = p.fresh \/ q.fresh \subseteq Cookies
  PROVE  Good(p, Ended(q, "done"))
<1>1. TypedHelper(q) /\ q.file = p.file
  BY DEF TypedHelper, Kept
<1>2. Good(q, Ended(q, "done"))
  BY <1>1, EndedGood
<1> QED
  BY <1>1, <1>2 DEF Good

\* One that was disturbed.
LEMMA DisturbedGood ==
  ASSUME NEW p, DOMAIN p = Fields, TypedHelper(p),
         NEW q \in {p, [p EXCEPT !.alone = FALSE]}
  PROVE  Good(p, q)
<1> DEFINE r == [p EXCEPT !.alone = FALSE]
<1>1. Kept(p, r) /\ r.pc = p.pc /\ r.cookies = p.cookies /\ r.fresh = p.fresh
  BY DEF Fields, Kept
<1> HIDE DEF r
<1>2. Good(p, r) /\ Good(p, p)
  BY <1>1, GoesOn DEF Good
<1> QED
  BY <1>2 DEF r

\* One that was cut off.
LEMMA CutOffGood ==
  ASSUME NEW p, DOMAIN p = Fields, TypedHelper(p)
  PROVE  Good(p, CutOff(p))
<1> DEFINE q == [p EXCEPT !.attached = FALSE, !.alone = TRUE]
<1>1. Kept(p, q) /\ q.pc = p.pc /\ q.cookies = p.cookies /\ q.fresh = p.fresh
  BY DEF Fields, Kept
<1>2. CutOff(p) \in {q, None}
  BY DEF CutOff
<1> HIDE DEF q
<1>3. Good(p, q)
  BY <1>1, GoesOn
<1>4. Good(p, None)
  BY NoneTyped, NoneParts DEF Good
<1> QED
  BY <1>2, <1>3, <1>4

\* What a step of a helper makes of it; the cookie file holds cookies.
LEMMA ActorGood ==
  ASSUME HelperShape, HelpersTyped, JarTyped, NEW h \in Helpers, HelperStep(h)
  PROVE  Good(helper[h], helper'[h]) /\ JarTyped'
<1> DEFINE p == helper[h]
<1>0. /\ DOMAIN p = Fields /\ TypedHelper(p) /\ DOMAIN helper = Helpers
      /\ JarTyped /\ (jar' = jar => JarTyped')
  BY DEF HelperShape, HelpersTyped, JarTyped
<1>1. ASSUME NEW q, Become(h, q)
      PROVE  helper'[h] = q
  BY <1>0, <1>1 DEF Become
<1>2. ASSUME NEW f, NEW content, NEW q, Change(h, f, content, q)
      PROVE  helper'[h] = q
  BY <1>2 DEF Change, Disturbed
<1>e. ASSUME NEW how \in {"done", "failed"}, Become(h, Ended(p, how))
      PROVE  Good(p, helper'[h])
  BY <1>0, <1>1, <1>e, EndedGood
<1>s. {"copy", "request", "save", "rename"} \subseteq HelperSteps
  BY DEF HelperSteps
<1>3. CASE WriteOpen(h)
  <2> DEFINE q == [p EXCEPT !.pc = "copy"]
  <2>1. Kept(p, q) /\ q.pc = "copy" /\ q.cookies = p.cookies /\ q.fresh = p.fresh
    BY <1>0 DEF Fields, Kept
  <2>2. Become(h, Ended(p, "failed")) \/ Change(h, p.file, << >>, q)
    BY <1>3 DEF WriteOpen
  <2>3. jar' = jar
    BY <1>3 DEF WriteOpen
  <2> HIDE DEF q
  <2>4. Good(p, q)
    BY <1>0, <1>s, <2>1, GoesOn
  <2> QED
    BY <1>0, <1>2, <1>e, <2>2, <2>3, <2>4
<1>4. CASE WriteCopy(h)
  <2> DEFINE q(upto) == [p EXCEPT !.pos = upto]
  <2>1. PICK upto, content : Change(h, p.file, content, q(upto))
    BY <1>4 DEF WriteCopy
  <2>2. jar' = jar
    BY <1>4 DEF WriteCopy
  <2>3. /\ Kept(p, q(upto)) /\ q(upto).pc = p.pc
        /\ q(upto).cookies = p.cookies /\ q(upto).fresh = p.fresh
    BY <1>0 DEF Fields, Kept
  <2> HIDE DEF q
  <2>4. Good(p, q(upto))
    BY <1>0, <2>3, GoesOn
  <2> QED
    BY <1>0, <1>2, <2>1, <2>2, <2>4
<1>5. CASE WriteEnd(h)
  BY <1>0, <1>e, <1>5 DEF WriteEnd
<1>6. CASE Stat(h)
  <2> DEFINE q == [p EXCEPT !.pos = Size(p.file)]
  <2>1. Become(h, Ended(p, "failed")) \/ Become(h, Ended(q, "done"))
    BY <1>6 DEF Stat
  <2>2. jar' = jar
    BY <1>6 DEF Stat
  <2>3. DOMAIN q = Fields
    BY <1>0
  <2>4. Kept(p, q) /\ q.pc = p.pc /\ q.cookies = p.cookies /\ q.fresh = p.fresh
    BY <1>0 DEF Fields, Kept
  <2>5. q.attached <=> p.attached
    BY <1>0 DEF Fields
  <2> HIDE DEF q
  <2>6. Good(p, Ended(q, "done"))
    BY <1>0, <2>3, <2>4, <2>5, EndsGood
  <2> QED
    BY <1>0, <1>1, <1>e, <2>1, <2>2, <2>6
<1>7. CASE ReadOpen(h)
  <2> DEFINE q == [p EXCEPT !.pc = "copy", !.alone = TRUE]
  <2>1. Kept(p, q) /\ q.pc = "copy" /\ q.cookies = p.cookies /\ q.fresh = p.fresh
    BY <1>0 DEF Fields, Kept
  <2>2. Become(h, Ended(p, "failed")) \/ Become(h, q)
    BY <1>7 DEF ReadOpen
  <2>3. jar' = jar
    BY <1>7 DEF ReadOpen
  <2> HIDE DEF q
  <2>4. Good(p, q)
    BY <1>0, <1>s, <2>1, GoesOn
  <2> QED
    BY <1>0, <1>1, <1>e, <2>2, <2>3, <2>4
<1>8. CASE ReadCopy(h)
  <2> DEFINE q(upto) == [p EXCEPT !.pos = upto]
  <2>1. PICK upto : Become(h, q(upto))
    BY <1>8 DEF ReadCopy
  <2>2. jar' = jar
    BY <1>8 DEF ReadCopy
  <2>3. /\ Kept(p, q(upto)) /\ q(upto).pc = p.pc
        /\ q(upto).cookies = p.cookies /\ q(upto).fresh = p.fresh
    BY <1>0 DEF Fields, Kept
  <2> HIDE DEF q
  <2>4. Good(p, q(upto))
    BY <1>0, <2>3, GoesOn
  <2> QED
    BY <1>0, <1>1, <2>1, <2>2, <2>4
<1>9. CASE ReadEnd(h)
  BY <1>0, <1>e, <1>9 DEF ReadEnd
<1>10. CASE LoadCookies(h)
  <2> DEFINE loaded == IF p.load = Absent THEN {} ELSE jar[p.load]
             q == [p EXCEPT !.pc = "request", !.cookies = loaded]
  <2>1. Kept(p, q) /\ q.pc = "request" /\ q.cookies = loaded /\ q.fresh = p.fresh
    BY <1>0 DEF Fields, Kept
  <2>2. Become(h, q) /\ jar' = jar
    BY <1>10 DEF LoadCookies
  <2>3. loaded \subseteq Cookies
    BY <1>0 DEF TypedHelper, JarTyped
  <2> HIDE DEF q, loaded
  <2>4. Good(p, q)
    BY <1>0, <1>s, <2>1, <2>3, GoesOn
  <2> QED
    BY <1>0, <1>1, <2>2, <2>4
<1>11. CASE Exchange(h)
  <2> DEFINE q(fresh, expired) == [p EXCEPT !.cookies = (@ \ expired) \cup fresh,
                                            !.fresh = fresh, !.expired = expired]
             r(fresh, expired) == [q(fresh, expired) EXCEPT !.pc = "save"]
  <2>1. PICK fresh \in SUBSET Cookies : \E expired :
          \/ Become(h, Ended(q(fresh, expired), "done"))
          \/ Become(h, r(fresh, expired))
    BY <1>11 DEF Exchange
  <2>2. jar' = jar
    BY <1>11 DEF Exchange
  <2>11. PICK expired : \/ Become(h, Ended(q(fresh, expired), "done"))
                       \/ Become(h, r(fresh, expired))
    BY <2>1
  <2> DEFINE a == q(fresh, expired)
             b == r(fresh, expired)
  <2>3. /\ DOMAIN a = Fields /\ Kept(p, a) /\ a.pc = p.pc
        /\ a.cookies = (p.cookies \ expired) \cup fresh /\ a.fresh = fresh
    BY <1>0 DEF Fields, Kept
  <2>4. a.attached <=> p.attached
    BY <1>0 DEF Fields
  <2>5. b = [a EXCEPT !.pc = "save"]
    OBVIOUS
  <2> HIDE DEF a
  <2>6. /\ Kept(p, b) /\ b.pc = "save" /\ b.cookies = a.cookies /\ b.fresh = a.fresh
    BY <2>3, <2>5 DEF Fields, Kept
  <2> HIDE DEF b, q, r
  <2>7. a.cookies \subseteq Cookies /\ a.fresh \subseteq Cookies
    BY <1>0, <2>1, <2>3 DEF TypedHelper
  <2>8. Good(p, Ended(a, "done"))
    BY <1>0, <2>3, <2>4, <2>7, EndsGood
  <2>9. Good(p, b)
    BY <1>0, <1>s, <2>6, <2>7, GoesOn
  <2>10. helper'[h] = Ended(a, "done") \/ helper'[h] = b
    BY <1>1, <2>11 DEF a, b
  <2> QED
    BY <1>0, <2>2, <2>8, <2>9, <2>10
<1>12. CASE SaveCookies(h)
  <2> DEFINE q == [p EXCEPT !.pc = "rename"]
  <2>1. Kept(p, q) /\ q.pc = "rename" /\ q.cookies = p.cookies /\ q.fresh = p.fresh
    BY <1>0 DEF Fields, Kept
  <2>2. Become(h, q) /\ jar' = jar
    BY <1>12 DEF SaveCookies
  <2> HIDE DEF q
  <2>3. Good(p, q)
    BY <1>0, <1>s, <2>1, GoesOn
  <2> QED
    BY <1>0, <1>1, <2>2, <2>3
<1>13. CASE RenameCookies(h)
  <2>1. Become(h, Ended(p, "done")) /\ jar' = [jar EXCEPT ![p.file] = p.cookies]
    BY <1>13 DEF RenameCookies, Replace
  <2>2. JarTyped'
    BY <1>0, <2>1 DEF JarTyped, TypedHelper
  <2> QED
    BY <1>e, <2>1, <2>2
<1>14. CASE Fails(h)
  BY <1>0, <1>e, <1>14 DEF Fails
<1> QED
  BY <1>3, <1>4, <1>5, <1>6, <1>7, <1>8, <1>9, <1>10, <1>11, <1>12, <1>13, <1>14
     DEF HelperStep

\* Helpers stay what they are, whichever of them takes a step.
LEMMA HelperStepGood ==
  ASSUME HelperShape, HelpersTyped, JarTyped, NEW h \in Helpers, HelperStep(h)
  PROVE  AllGood /\ JarTyped'
<1>1. Good(helper[h], helper'[h]) /\ JarTyped'
  BY ActorGood
<1>2. ASSUME NEW g \in Helpers, g # h
      PROVE  Good(helper[g], helper'[g])
  <2>1. helper'[g] \in {helper[g], [helper[g] EXCEPT !.alone = FALSE]}
    BY <1>2, OthersDisturbed
  <2>2. DOMAIN helper[g] = Fields /\ TypedHelper(helper[g])
    BY DEF HelperShape, HelpersTyped
  <2> QED
    BY <2>1, <2>2, DisturbedGood
<1> QED
  BY <1>1, <1>2 DEF AllGood

\* A helper is started where none is attached, or goes on with the same file.
LEMMA LaunchGood ==
  ASSUME HelperShape, HelpersTyped, NEW h \in Helpers,
         NEW p, DOMAIN p = Fields, TypedHelper(p), Launch(h, p),
         helper[h].attached => p.file = helper[h].file
  PROVE  AllGood /\ helper'[h].file = p.file
<1> DEFINE q == [p EXCEPT !.attached = TRUE]
<1>1. Kept(p, q) /\ q.pc = p.pc /\ q.cookies = p.cookies /\ q.fresh = p.fresh
  BY DEF Fields, Kept
<1>2. helper' = [helper EXCEPT ![h] = q] /\ DOMAIN helper = Helpers
  BY DEF Launch, HelperShape
<1> HIDE DEF q
<1>3. Good(helper[h], q) /\ q.file = p.file
  BY <1>1 DEF Good, TypedHelper, Kept
<1>4. ASSUME NEW g \in Helpers, g # h
      PROVE  Good(helper[g], helper'[g])
  <2>1. helper'[g] = helper[g]
    BY <1>2, <1>4
  <2> QED
    BY <2>1 DEF Good, HelpersTyped
<1> QED
  BY <1>1, <1>2, <1>3, <1>4 DEF AllGood

\* A helper that exits or is cut off leaves the others alone.
LEMMA ReturnGood ==
  ASSUME HelperShape, HelpersTyped, NEW h \in Helpers,
         (\E how : Exits(h, how)) \/ ExecFails(h)
  PROVE  AllGood
<1>0. DOMAIN helper = Helpers /\ DOMAIN helper[h] = Fields /\ TypedHelper(helper[h])
  BY DEF HelperShape, HelpersTyped
<1>1. Good(helper[h], None) /\ Good(helper[h], CutOff(helper[h]))
  BY <1>0, CutOffGood, NoneTyped, NoneParts DEF Good
<1>2. PICK q : Become(h, q) /\ Good(helper[h], q)
  BY <1>1 DEF Exits, ExecFails
<1>3. ASSUME NEW g \in Helpers
      PROVE  Good(helper[g], helper'[g])
  BY <1>0, <1>2 DEF Become, Good, HelpersTyped
<1> QED
  BY <1>3 DEF AllGood

\* Helpers that are left alone stay what they are.
LEMMA SameGood ==
  ASSUME HelpersTyped, UNCHANGED helper
  PROVE  AllGood
BY DEF HelpersTyped, AllGood, Good

\* While its request is the same, the helper it waits for has the same file.
LEMMA PathStays ==
  ASSUME Tracked, PathHeld, Tracked', AllGood, req' = req
  PROVE  PathHeld'
<1>1. CASE req.path # Absent /\ req.pc = "wait"
  <2>1. req.h \in Helpers /\ helper[req.h].attached /\ helper'[req.h].attached
    BY <1>1 DEF Tracked, Waiting, OneAttached
  <2>2. helper'[req.h].file = helper[req.h].file
    BY <2>1 DEF AllGood, Good
  <2> QED
    BY <1>1, <2>2 DEF PathHeld
<1>2. CASE ~ (req.path # Absent /\ req.pc = "wait")
  BY <1>2 DEF PathHeld
<1> QED
  BY <1>1, <1>2

\* The bounds of a behaviour are kept.
LEMMA BoundsStay ==
  ASSUME work \in Workloads, crashes \in 0 .. MaxCrashes, [Next]_vars
  PROVE  work' \in Workloads /\ crashes' \in 0 .. MaxCrashes
<1>1. CASE Crash
  BY <1>1, TransfersAssumption DEF Crash
<1>2. CASE ~ Crash
  BY <1>2 DEF Next, vars, controller, outside, Request, WriteFile, ReadFile, ReadRefused,
     ExportFile, HTTPRequest, StartSession, ResetSession, Work, WriteReturns,
     StatReturns, ReadReturns, Refuse, ExportLease, ExportStreamed, Publish,
     HTTPReturns, Restart, HelperActs, AgentWrites, AgentBakes, StopSession
<1> QED
  BY <1>1, <1>2

\* The paths that clients spell are sequences of names.
LEMMA SpelledOver ==
  ASSUME NEW p \in Spelled
  PROVE  p \in PathsOver(PathNames)
<1>1. CASE p \in Spellings
  BY <1>1, PathsAssumption DEF PathsOver
<1>2. ASSUME NEW f \in Scratchfiles, p = Plain(f)
      PROVE  p \in PathsOver(PathNames)
  <2>1. f \in Seq(PathNames) /\ ScratchRoot \in PathNames
    BY PathsAssumption DEF PathNames
  <2>2. <<ScratchRoot>> \o f \in Seq(PathNames)
    BY <2>1
  <2> QED
    BY <1>2, <2>2 DEF Plain, PathsOver
<1> QED
  BY <1>1, <1>2 DEF Spelled

\* The invariant that is left, but for the histories and the bounds.
Lasting ==
  HelpersTyped /\ PathHeld /\ JarTyped

\* A request starts that has no path, goes on or ends.
LEMMA LastsOn ==
  ASSUME Settled, Tracked', AllGood, JarTyped',
         req' = req \/ req'.path = Absent
  PROVE  Lasting'
<1>1. HelpersTyped'
  BY DEF HelpersTyped, AllGood, Good, TypedHelper
<1>2. PathHeld'
  <2>1. CASE req' = req
    BY <2>1, PathStays DEF Settled
  <2>2. CASE req'.path = Absent
    BY <2>2 DEF PathHeld
  <2> QED
    BY <2>1, <2>2
<1> QED
  BY <1>1, <1>2 DEF Lasting

\* No action leads a request to another file.
LEMMA LastingStays ==
  ASSUME Settled, [Next]_vars
  PROVE  Lasting'
<1>0. /\ Tracked /\ Tracked' /\ HelperShape /\ HelpersTyped /\ JarTyped
      /\ (jar' = jar => JarTyped')
      /\ Idle => \A g \in Helpers : ~ helper[g].attached
      /\ req.pc = "lease" => \A g \in Helpers : ~ helper[g].attached
  BY TrackedStays DEF Idle, Settled, Tracked, OneAttached, JarTyped
<1>p. /\ Unoccupied.path = Absent
      /\ {"write", "stat", "read", "export", "http"} \subseteq HelperOps
      /\ {"open", "load"} \subseteq HelperSteps
  BY DEF Unoccupied, HelperOps, HelperSteps
<1>1. ASSUME NEW f \in Scratchfiles, NEW p \in Payloads, NEW overwrite,
             WriteFile(f, p, overwrite)
      PROVE  Lasting'
  <2> DEFINE x == Exec("write", "open", f)
             q == [x EXCEPT !.data = p, !.exclusive = ~ overwrite]
  <2>1. DOMAIN x = Fields /\ TypedHelper(x)
    BY <1>p, ExecParts, ExecTyped
  <2>2. DOMAIN q = Fields
    BY <2>1
  <2>3. /\ q.op = x.op /\ q.pc = x.pc /\ q.cookies = x.cookies /\ q.data = p
        /\ q.fresh = x.fresh /\ q.load = x.load
    BY <2>1 DEF Fields
  <2>4. Launch(Place, q) /\ Idle /\ Vacant # {} /\ jar' = jar
    BY <1>1 DEF WriteFile, Accepts
  <2>5. req'.path = Absent
    BY <1>1 DEF WriteFile, Unoccupied
  <2> HIDE DEF q, x
  <2>6. TypedHelper(q)
    BY <2>1, <2>3, PayloadsAssumption DEF TypedHelper
  <2>7. AllGood
    BY <1>0, <2>2, <2>4, <2>6, PlaceIsVacant, LaunchGood
  <2> QED
    BY <1>0, <2>4, <2>5, <2>7, LastsOn
<1>2. ASSUME NEW p \in PathsOver(PathNames), NEW n \in 0 .. 1, NEW encoding,
             ReadFile(p, n, encoding)
      PROVE  Lasting'
  <2> DEFINE f == RelativeParts(CleanContainerPath(p))
  <2>1. Accepted(p) /\ Strict(CleanContainerPath(p))
    BY <1>2, ChecksAgree DEF ReadFile
  <2>2. Launch(Place, Exec("stat", "open", f)) /\ Idle /\ Vacant # {} /\ jar' = jar
    BY <1>2, <2>1 DEF ReadFile, Accepts
  <2>3. /\ req'.op = "stat" /\ req'.pc = "wait" /\ req'.h = Place /\ req'.path = p
    BY <1>2 DEF ReadFile, Unoccupied
  <2> HIDE DEF f
  <2>4. /\ DOMAIN Exec("stat", "open", f) = Fields /\ TypedHelper(Exec("stat", "open", f))
        /\ Exec("stat", "open", f).file = f
    BY <1>p, ExecParts, ExecTyped
  <2>5. AllGood /\ helper'[Place].file = f
    BY <1>0, <2>2, <2>4, PlaceIsVacant, LaunchGood
  <2>6. PathHeld'
    BY <2>1, <2>3, <2>5 DEF PathHeld, f
  <2>7. HelpersTyped'
    BY <2>5 DEF HelpersTyped, AllGood, Good, TypedHelper
  <2> QED
    BY <1>0, <2>2, <2>6, <2>7 DEF Lasting
<1>3. ASSUME NEW p \in PathsOver(PathNames), ReadRefused(p)
      PROVE  Lasting'
  <2>1. /\ req'.op = "read" /\ req'.pc = "refused" /\ req'.path = p /\ ~ Accepted(p)
        /\ helper' = helper /\ jar' = jar
    BY <1>3 DEF ReadRefused, Unoccupied, inside
  <2> QED
    BY <1>0, <2>1 DEF Lasting, PathHeld, HelpersTyped, TypedHelper
<1>4. ASSUME UNCHANGED <<helper, jar>>, req' = req \/ req'.path = Absent
      PROVE  Lasting'
  BY <1>0, <1>4, SameGood, LastsOn
<1>5. ASSUME NEW load \in CookieFiles \cup {Absent}, NEW save, HTTPRequest(load, save)
      PROVE  Lasting'
  <2> DEFINE x == Exec("http", "load", save)
             q == [x EXCEPT !.load = load]
  <2>1. DOMAIN x = Fields /\ TypedHelper(x)
    BY <1>p, ExecParts, ExecTyped
  <2>2. DOMAIN q = Fields
    BY <2>1
  <2>3. /\ q.op = x.op /\ q.pc = x.pc /\ q.cookies = x.cookies /\ q.fresh = x.fresh
        /\ q.data = x.data /\ q.load = load
    BY <2>1 DEF Fields
  <2>4. /\ Launch(Place, q) /\ Idle /\ Vacant # {} /\ jar' = jar
        /\ req'.path = Absent
    BY <1>5 DEF HTTPRequest, Accepts, Unoccupied
  <2> HIDE DEF q, x
  <2>5. TypedHelper(q)
    BY <2>1, <2>3 DEF TypedHelper
  <2>6. AllGood
    BY <1>0, <2>2, <2>4, <2>5, PlaceIsVacant, LaunchGood
  <2> QED
    BY <1>0, <2>4, <2>6, LastsOn
<1>6. ASSUME ResetSession \/ StopSession
      PROVE  Lasting'
  <2>1. /\ helper' = [h \in Helpers |-> None] /\ req' = req
        /\ jar' = [f \in CookieFiles |-> {}]
    BY <1>6 DEF ResetSession, StopSession, Empty
  <2>2. AllGood
    BY <2>1, NoneTyped, NoneParts DEF AllGood, Good
  <2>3. JarTyped'
    BY <2>1 DEF JarTyped
  <2> QED
    BY <1>0, <2>1, <2>2, <2>3, LastsOn
<1>7. ASSUME WriteReturns \/ ReadReturns \/ HTTPReturns
      PROVE  Lasting'
  <2>1. /\ req' = Unoccupied /\ req.pc = "wait" /\ req.h \in Helpers /\ jar' = jar
    BY <1>0, <1>7 DEF WriteReturns, ReadReturns, HTTPReturns, Tracked, Executes, Waiting
  <2>2. (\E how : Exits(req.h, how)) \/ ExecFails(req.h)
    BY <1>7 DEF WriteReturns, ReadReturns, HTTPReturns
  <2>3. AllGood
    BY <1>0, <2>1, <2>2, ReturnGood
  <2> QED
    BY <1>0, <1>p, <2>1, <2>3, LastsOn
<1>8. ASSUME StatReturns
      PROVE  Lasting'
  <2>0. req.op = "stat" /\ req.pc = "wait" /\ req.h \in Helpers /\ jar' = jar
    BY <1>0, <1>8 DEF StatReturns, Tracked, Executes, Waiting
  <2>1. CASE ExecFails(req.h) /\ req' = Unoccupied
    BY <1>0, <1>p, <2>0, <2>1, ReturnGood, LastsOn
  <2>2. CASE /\ req' = [req EXCEPT !.op = "read", !.bytes = SizeIn(helper[req.h])]
             /\ Launch(req.h, [Exec("read", "open", helper[req.h].file) EXCEPT
                    !.pos = Len(pager.got),
                    !.from = Len(pager.got),
                    !.upto = Len(pager.got) + ReadSize(config, req.bytes),
                    !.limit = ExecOutputLimit(config.outputBytes)])
    <3> DEFINE x == Exec("read", "open", helper[req.h].file)
               q == [x EXCEPT
                      !.pos = Len(pager.got),
                      !.from = Len(pager.got),
                      !.upto = Len(pager.got) + ReadSize(config, req.bytes),
                      !.limit = ExecOutputLimit(config.outputBytes)]
    <3>1. DOMAIN x = Fields /\ TypedHelper(x) /\ x.file = helper[req.h].file
      BY <1>p, ExecParts, ExecTyped
    <3>2. DOMAIN q = Fields
      BY <3>1
    <3>3. /\ q.op = x.op /\ q.pc = x.pc /\ q.cookies = x.cookies /\ q.file = x.file
          /\ q.data = x.data /\ q.fresh = x.fresh /\ q.load = x.load
      BY <3>1 DEF Fields
    <3>4. Launch(req.h, q)
      BY <2>2
    <3>5. /\ req'.op = "read" /\ req'.pc = req.pc /\ req'.h = req.h /\ req'.path = req.path
      BY <1>0, <2>2 DEF Tracked, RequestShape, RequestFields
    <3> HIDE DEF q, x
    <3>6. TypedHelper(q)
      BY <3>1, <3>3 DEF TypedHelper
    <3>7. AllGood /\ helper'[req.h].file = helper[req.h].file
      BY <1>0, <2>0, <3>1, <3>2, <3>3, <3>4, <3>6, LaunchGood
    <3>8. PathHeld'
      BY <2>0, <3>5, <3>7 DEF PathHeld, Settled
    <3>9. HelpersTyped'
      BY <3>7 DEF HelpersTyped, AllGood, Good, TypedHelper
    <3> QED
      BY <1>0, <2>0, <3>8, <3>9 DEF Lasting
  <2> QED
    BY <1>8, <2>1, <2>2 DEF StatReturns
<1>9. ASSUME NEW f \in Scratchfiles, ExportLease(f)
      PROVE  Lasting'
  <2>0. req.op = "export" /\ req.pc = "lease" /\ req.path = Absent
    BY <1>9 DEF ExportLease, Settled, PathHeld
  <2>1. CASE /\ Launch(Place, Exec("export", "open", f)) /\ Vacant # {} /\ jar' = jar
             /\ req' = [req EXCEPT !.pc = "wait", !.h = Place]
    <3>1. req'.path = Absent
      BY <1>0, <2>0, <2>1 DEF Tracked, RequestShape, RequestFields
    <3>2. /\ DOMAIN Exec("export", "open", f) = Fields
          /\ TypedHelper(Exec("export", "open", f))
      BY <1>p, ExecParts, ExecTyped
    <3>3. AllGood
      BY <1>0, <2>0, <2>1, <3>2, PlaceIsVacant, LaunchGood
    <3> QED
      BY <1>0, <2>1, <3>1, <3>3, LastsOn
  <2>2. CASE req' = Unoccupied /\ UNCHANGED inside
    BY <1>4, <1>p, <2>2 DEF inside
  <2> QED
    BY <1>9, <2>1, <2>2 DEF ExportLease
<1>10. ASSUME ExportStreamed
      PROVE  Lasting'
  <2>0. /\ req.op = "export" /\ req.pc = "wait" /\ req.path = Absent /\ req.h \in Helpers
        /\ jar' = jar
    BY <1>0, <1>10 DEF ExportStreamed, Settled, PathHeld, Tracked, Waiting
  <2>1. (\E how : Exits(req.h, how)) \/ ExecFails(req.h)
    BY <1>10 DEF ExportStreamed
  <2>2. req'.path = Absent
    <3>1. ASSUME NEW original,
                 req' = [req EXCEPT !.pc = "publish", !.h = Absent, !.original = original]
          PROVE  req'.path = Absent
      BY <1>0, <2>0, <3>1 DEF Tracked, RequestShape, RequestFields
    <3> QED
      BY <1>10, <1>p, <3>1 DEF ExportStreamed
  <2>3. AllGood
    BY <1>0, <2>0, <2>1, ReturnGood
  <2> QED
    BY <1>0, <2>0, <2>2, <2>3, LastsOn
<1>11. ASSUME NEW h \in Helpers, HelperActs(h)
      PROVE  Lasting'
  <2>1. HelperStep(h) /\ req' = req
    BY <1>11 DEF HelperActs, controller
  <2> QED
    BY <1>0, <2>1, HelperStepGood, LastsOn
<1>12. ASSUME NEW f \in Scratchfiles, NEW p \in Payloads, AgentWrites(f, p)
      PROVE  Lasting'
  <2>1. helper' = Disturbed(f) /\ req' = req /\ jar' = jar
    BY <1>12 DEF AgentWrites, controller
  <2>2. ASSUME NEW g \in Helpers
        PROVE  Good(helper[g], helper'[g])
    <3>1. helper'[g] \in {helper[g], [helper[g] EXCEPT !.alone = FALSE]}
      BY <2>1 DEF Disturbed
    <3>2. DOMAIN helper[g] = Fields /\ TypedHelper(helper[g])
      BY <1>0 DEF HelperShape, HelpersTyped
    <3> QED
      BY <3>1, <3>2, DisturbedGood
  <2>3. AllGood
    BY <2>2 DEF AllGood
  <2> QED
    BY <1>0, <2>1, <2>3, LastsOn
<1>13. ASSUME Crash
      PROVE  Lasting'
  <2>1. req'.path = Absent /\ jar' = jar
    BY <1>13 DEF Crash, Unoccupied
  <2>2. ASSUME NEW g \in Helpers
        PROVE  Good(helper[g], helper'[g])
    <3>1. DOMAIN helper[g] = Fields /\ TypedHelper(helper[g])
      BY <1>0 DEF HelperShape, HelpersTyped
    <3>2. helper'[g] = IF helper[g].attached THEN CutOff(helper[g]) ELSE helper[g]
      BY <1>13 DEF Crash
    <3>3. Good(helper[g], CutOff(helper[g])) /\ Good(helper[g], helper[g])
      BY <3>1, CutOffGood DEF Good
    <3> QED
      BY <3>2, <3>3
  <2>3. AllGood
    BY <2>2 DEF AllGood
  <2> QED
    BY <1>0, <2>1, <2>3, LastsOn
<1>14. ASSUME NEW d \in Dests, ExportFile(d)
      PROVE  Lasting'
  <2>1. req'.path = Absent /\ UNCHANGED <<helper, jar>>
    BY <1>14 DEF ExportFile, inside, Unoccupied
  <2> QED
    BY <1>4, <2>1
<1>15. ASSUME NEW o, NEW g, StartSession(o, g)
      PROVE  Lasting'
  BY <1>4, <1>15 DEF StartSession, inside
<1>16. ASSUME Refuse \/ Restart \/ Publish
      PROVE  Lasting'
  BY <1>4, <1>16, <1>p DEF Refuse, Restart, Publish, inside
<1>17. CASE UNCHANGED vars
  BY <1>4, <1>17 DEF vars, inside, controller
<1>20. ASSUME NEW f \in CookieFiles, NEW cookies \in SUBSET Cookies, AgentBakes(f, cookies)
      PROVE  Lasting'
  <2>1. /\ helper' = helper /\ req' = req /\ jar' = [jar EXCEPT ![f] = cookies]
    BY <1>20 DEF AgentBakes, controller
  <2>2. JarTyped'
    BY <1>0, <2>1 DEF JarTyped
  <2> QED
    BY <1>0, <2>1, <2>2, SameGood, LastsOn
<1>18. CASE Request
  BY <1>1, <1>2, <1>3, <1>5, <1>6, <1>14, <1>15, <1>18, SpelledOver DEF Request, Sizes
<1>19. CASE Work
  BY <1>7, <1>8, <1>9, <1>10, <1>16, <1>19 DEF Work
<1> QED
  BY <1>6, <1>11, <1>12, <1>13, <1>17, <1>18, <1>19, <1>20 DEF Next

\* What the client was told is made of bytes and cookies.
LEMMA HistoriesStay ==
  ASSUME Settled, [Next]_vars
  PROVE  HistoriesTyped'
<1>0. /\ stored \in [Scratchfiles -> Seq(Bytes) \cup {Absent}]
      /\ acked \in [CookieFiles -> SUBSET Cookies]
      /\ contested \subseteq Scratchfiles \cup CookieFiles
  BY DEF Settled, HistoriesTyped
<1>1. ASSUME NEW f \in Scratchfiles, NEW p, NEW overwrite, WriteFile(f, p, overwrite)
      PROVE  HistoriesTyped'
  BY <1>0, <1>1 DEF WriteFile, Contend, HistoriesTyped
<1>2. CASE WriteReturns
  <2>1. /\ stored' = stored \/ stored' = [stored EXCEPT ![helper[req.h].file] = helper[req.h].data]
        /\ acked' = acked /\ contested' = contested
    BY <1>2 DEF WriteReturns
  <2>2. helper[req.h].data \in Seq(Bytes)
    BY <1>2 DEF WriteReturns, Settled, Tracked, Executes, Waiting, HelpersTyped, TypedHelper
  <2> QED
    BY <1>0, <2>1, <2>2 DEF HistoriesTyped
<1>3. ASSUME NEW load, NEW save \in CookieFiles \cup {Absent}, HTTPRequest(load, save)
      PROVE  HistoriesTyped'
  <2>1. stored' = stored
    BY <1>3 DEF HTTPRequest
  <2>2. /\ acked' \in {acked, [acked EXCEPT ![save] = {}]}
        /\ contested' \subseteq contested \cup ({save} \cap CookieFiles)
    BY <1>3 DEF HTTPRequest, Contend
  <2> QED
    BY <1>0, <2>1, <2>2 DEF HistoriesTyped
<1>4. CASE HTTPReturns
  <2> DEFINE p == helper[req.h]
  <2>1. /\ acked' = acked \/ acked' = [acked EXCEPT ![p.file] = @ \cup p.fresh]
        /\ stored' = stored /\ contested' = contested
    BY <1>4 DEF HTTPReturns
  <2>2. p.fresh \subseteq Cookies
    BY <1>4 DEF HTTPReturns, Settled, Tracked, Executes, Waiting, HelpersTyped, TypedHelper
  <2> HIDE DEF p
  <2> QED
    BY <1>0, <2>1, <2>2 DEF HistoriesTyped
<1>5. CASE ResetSession \/ StopSession
  BY <1>5 DEF ResetSession, StopSession, Empty, HistoriesTyped
<1>6. ASSUME NEW h \in Helpers, HelperActs(h)
      PROVE  HistoriesTyped'
  <2> DEFINE p == helper[h]
  <2>1. /\ acked' = acked \/ acked' = [acked EXCEPT ![p.file] = @ \ p.expired]
        /\ stored' = stored /\ contested' = contested
    BY <1>6 DEF HelperActs
  <2> HIDE DEF p
  <2> QED
    BY <1>0, <2>1 DEF HistoriesTyped
<1>7. ASSUME NEW f \in Scratchfiles, NEW content, AgentWrites(f, content)
      PROVE  HistoriesTyped'
  BY <1>0, <1>7 DEF AgentWrites, Meddle, HistoriesTyped
<1>8. ASSUME NEW f \in CookieFiles, NEW cookies, AgentBakes(f, cookies)
      PROVE  HistoriesTyped'
  BY <1>0, <1>8 DEF AgentBakes, Meddle, HistoriesTyped
<1>9. ASSUME UNCHANGED <<stored, acked, contested>>
      PROVE  HistoriesTyped'
  BY <1>0, <1>9 DEF HistoriesTyped
<1>10. ASSUME NEW p, NEW n, NEW encoding, ReadFile(p, n, encoding)
       PROVE  HistoriesTyped'
  BY <1>9, <1>10 DEF ReadFile
<1>11. ASSUME NEW p, ReadRefused(p)
       PROVE  HistoriesTyped'
  BY <1>9, <1>11 DEF ReadRefused, outside
<1>12. ASSUME NEW d, ExportFile(d)
       PROVE  HistoriesTyped'
  BY <1>9, <1>12 DEF ExportFile, outside
<1>13. ASSUME NEW o, NEW g, StartSession(o, g)
       PROVE  HistoriesTyped'
  BY <1>9, <1>13 DEF StartSession
<1>14. ASSUME NEW f, ExportLease(f)
       PROVE  HistoriesTyped'
  BY <1>9, <1>14 DEF ExportLease, outside
<1>15. CASE \/ StatReturns \/ ReadReturns \/ Refuse \/ ExportStreamed \/ Publish \/ Restart
            \/ Crash \/ UNCHANGED vars
  BY <1>9, <1>15 DEF StatReturns, ReadReturns, Refuse, ExportStreamed, Publish, Restart,
     Crash, vars, outside
<1> QED
  BY <1>1, <1>2, <1>3, <1>4, <1>5, <1>6, <1>7, <1>8, <1>10, <1>11, <1>12, <1>13, <1>14,
     <1>15 DEF Next, Request, Work

\* The invariant is one.
LEMMA SettledStays == Settled /\ [Next]_vars => Settled'
<1> SUFFICES ASSUME Settled, [Next]_vars PROVE Settled'
  OBVIOUS
<1>1. Tracked'
  BY TrackedStays DEF Settled
<1>2. Lasting'
  BY LastingStays
<1>3. work' \in Workloads /\ crashes' \in 0 .. MaxCrashes
  BY BoundsStay DEF Settled
<1>4. HistoriesTyped'
  BY HistoriesStay
<1> QED
  BY <1>1, <1>2, <1>3, <1>4 DEF Settled, Lasting

LEMMA SettledInit == Init => Settled
<1> SUFFICES ASSUME Init PROVE Settled
  OBVIOUS
<1>1. /\ \A h \in Helpers : helper[h] = None
      /\ req.path = Absent /\ work \in Workloads /\ crashes = 0
  BY DEF Init, Unoccupied
<1>2. HelpersTyped /\ PathHeld
  BY <1>1, NoneTyped DEF HelpersTyped, PathHeld
<1>3. JarTyped /\ HistoriesTyped
  BY DEF Init, JarTyped, HistoriesTyped
<1> QED
  BY <1>1, <1>2, <1>3, TrackedInit, TransfersAssumption DEF Settled

\* However a path is spelled, the controller lets it pass if and only if it
\* denotes /scratch or something below it, and the helper, which checks the
\* cleaned path once more by other rules, then works on exactly that.
THEOREM ReadsAreConfined == Spec => []PathsConfined
<1>1. Settled => PathsConfined
  <2> SUFFICES ASSUME Settled, req.path # Absent
               PROVE  IF req.pc = "refused"
                        THEN \/ Malformed(req.path)
                             \/ ~ StartsWith(Denotes(req.path), <<ScratchRoot>>)
                        ELSE /\ helper[req.h].file # Absent
                             /\ <<ScratchRoot>> \o helper[req.h].file = Denotes(req.path)
    BY DEF PathsConfined
  <2>1. req.path \in PathsOver(PathNames)
    BY DEF Settled, PathHeld
  <2>2. CASE req.pc = "refused"
    BY <2>1, <2>2, ChecksAgree DEF Settled, PathHeld
  <2>3. CASE req.pc # "refused"
    <3> DEFINE f == RelativeParts(CleanContainerPath(req.path))
    <3>1. Accepted(req.path) /\ helper[req.h].file = f
      BY <2>3 DEF Settled, PathHeld
    <3>2. f \in Seq(PathNames) /\ <<ScratchRoot>> \o f = Denotes(req.path)
      BY <2>1, <3>1, ChecksAgree
    <3> HIDE DEF f
    <3>3. f # Absent
      BY <3>2, PathsAssumption
    <3> QED
      BY <2>3, <3>1, <3>2, <3>3
  <2> QED
    BY <2>2, <2>3
<1> QED
  BY <1>1, SettledInit, SettledStays, PTL DEF Spec

\* Every variable has its type; the helper a request waits for is attached, and
\* no other is.
THEOREM TransfersTypeCorrect == Spec => []TransfersTypeOK
<1>1. Sound /\ [Next]_vars => Sound'
  BY SoundStays
<1>2. Sound /\ Settled => TransfersTypeOK
  <2> SUFFICES ASSUME Sound, Settled PROVE TransfersTypeOK
    OBVIOUS
  <2>1. \A f \in Scratchfiles : {scratch[f], stored[f]} \subseteq Seq(Bytes) \cup {Absent}
    BY DEF Sound, FileTypes, Settled, HistoriesTyped
  <2>2. /\ jar \in [CookieFiles -> SUBSET Cookies] /\ acked \in [CookieFiles -> SUBSET Cookies]
        /\ contested \subseteq Scratchfiles \cup CookieFiles
    BY DEF Settled, JarTyped, HistoriesTyped
  <2>3. \A h \in Helpers :
          /\ helper[h].op \in HelperOps /\ helper[h].pc \in HelperSteps
          /\ helper[h].attached <=> (req.pc = "wait" /\ req.h = h)
    BY DEF Settled, HelpersTyped, TypedHelper, Tracked, OneAttached
  <2>4. stdout.kept \in Seq(Bytes) /\ stdout.truncated \in BOOLEAN
    BY DEF Sound, FileTypes, Buffers
  <2>5. Valid(config)
    BY DEF Sound, ConfigOK, Deployable
  <2>6. work \in Workloads /\ crashes \in 0 .. MaxCrashes
    BY DEF Settled
  <2> QED
    BY <2>1, <2>2, <2>3, <2>4, <2>5, <2>6 DEF TransfersTypeOK
<1> QED
  BY <1>1, <1>2, SoundInit, SettledInit, SettledStays, PTL DEF Spec
=============================================================================
