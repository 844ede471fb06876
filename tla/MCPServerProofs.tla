--------------------------- MODULE MCPServerProofs ---------------------------
(***************************************************************************)
(* What holds of the two files of internal/mcp/server.go and of the client *)
(* that follows one of them, for any set of calls, any page size and any   *)
(* number of faulty writes and deaths of the server.                       *)
(***************************************************************************)
EXTENDS MCPServer, Induction, SequenceTheorems

USE OperationsAssumption, BoundsAssumption

-----------------------------------------------------------------------------
(* The pieces of a file.                                                   *)

Phases == {"started", "completed", "failed", "audited"}
Events == [op : Operations, phase : Phases]
Pieces == Events \cup {Newline, Garbled}

\* Bytes that are no event are none, whatever the names of the calls.
LEMMA EventsOnly ==
  \A p \in Pieces : IsEvent(p) <=> p \in Events
BY DEF Pieces, Events, IsEvent, Newline, Garbled, Event

LEMMA EventIn ==
  ASSUME NEW o \in Operations, NEW phase \in Phases
  PROVE  Event(o, phase) \in Events /\ Event(o, phase) \in Pieces
BY DEF Pieces, Events, Event

-----------------------------------------------------------------------------
(* Decoding.                                                               *)

\* The function by which Decoded is defined exists, and its values are
\* sequences of events.
LEMMA KeepTyped ==
  ASSUME NEW log \in Seq(Events), NEW p \in Pieces
  PROVE  Keep(log, p) \in Seq(Events)
BY EventsOnly DEF Keep

LEMMA DecodedUpTo ==
  ASSUME NEW f \in Seq(Pieces)
  PROVE  \E g \in [0 .. Len(f) -> Seq(Events)] :
           /\ g[0] = <<>>
           /\ \A i \in 1 .. Len(f) : g[i] = Keep(g[i - 1], f[i])
           /\ Decoded(f) = g[Len(f)]
<1> DEFINE n == Len(f)
           def(g) == [i \in 0 .. n |-> IF i = 0 THEN <<>> ELSE Keep(g[i - 1], f[i])]
           step == [p \in (1 .. n) \X Seq(Events) |-> Keep(p[2], f[p[1]])]
           G == CHOOSE g : g = def(g)
<1>1. n \in Nat
  OBVIOUS
<1>2. \A i \in 1 .. n : f[i] \in Pieces
  OBVIOUS
<1>3. <<>> \in Seq(Events)
  OBVIOUS
<1>4. step \in [(1 .. n) \X Seq(Events) -> Seq(Events)]
  BY <1>2, KeepTyped
<1>5. Decoded(f) = G[n]
  BY DEF Decoded
<1> HIDE DEF n
<1>6. PICK g : Continues(g, n, Seq(Events), <<>>, step)
  <2>1. step \in Continuations(n, Seq(Events))
    BY <1>4 DEF Continuations
  <2> HIDE DEF step
  <2>2. QED
    BY <1>1, <1>3, <2>1, RecursionDefines, Zenon
<1>7. g = def(g)
  <2>1. ASSUME NEW i \in 1 .. n
        PROVE  g[i] = Keep(g[i - 1], f[i])
    <3>1. i - 1 \in 0 .. n
      BY <1>1
    <3>2. g[i - 1] \in Seq(Events)
      BY <1>6, <3>1 DEF Continues
    <3>3. QED
      BY <1>6, <3>2 DEF Continues
  <2>2. ASSUME NEW i \in 0 .. n
        PROVE  g[i] = IF i = 0 THEN <<>> ELSE Keep(g[i - 1], f[i])
    <3>1. CASE i = 0
      BY <1>6, <3>1 DEF Continues
    <3>2. CASE i \in 1 .. n
      BY <2>1, <3>2
    <3>3. QED
      BY <1>1, <3>1, <3>2
  <2>3. QED
    BY <1>6, <2>2 DEF Continues
<1>8. G = def(G)
  <2> HIDE DEF def
  <2>1. QED
    BY <1>7
<1> HIDE DEF G
<1>9. /\ DOMAIN G = 0 .. n
      /\ G[0] = <<>>
      /\ \A i \in 1 .. n : G[i] = Keep(G[i - 1], f[i])
  <2>1. \A i \in 0 .. n : G[i] = IF i = 0 THEN <<>> ELSE Keep(G[i - 1], f[i])
    BY <1>8
  <2>2. DOMAIN G = 0 .. n
    BY <1>8
  <2>3. 0 \in 0 .. n /\ \A i \in 1 .. n : i \in 0 .. n /\ i # 0
    BY <1>1
  <2>4. QED
    BY <2>1, <2>2, <2>3, Zenon
<1>10. \A i \in 0 .. n : G[i] \in Seq(Events)
  <2> DEFINE T == {i \in 0 .. n : G[i] \in Seq(Events)}
  <2>1. 0 \in T
    <3>1. 0 \in 0 .. n
      BY <1>1
    <3>2. G[0] \in Seq(Events)
      BY <1>3, <1>9, Zenon
    <3>3. QED
      BY <3>1, <3>2
  <2>2. ASSUME NEW i \in 0 .. n - 1, i \in T PROVE i + 1 \in T
    <3>1. i + 1 \in 1 .. n /\ (i + 1) - 1 = i /\ i + 1 \in 0 .. n
      BY <1>1
    <3>2. G[i + 1] = Keep(G[i], f[i + 1])
      BY <1>9, <3>1
    <3>3. G[i] \in Seq(Events)
      BY <2>2
    <3>4. G[i + 1] \in Seq(Events)
      BY <1>2, <3>1, <3>2, <3>3, KeepTyped
    <3>5. QED
      BY <3>1, <3>4
  <2>3. \A i \in 0 .. n - 1 : i \in T => i + 1 \in T
    BY <2>2
  <2>4. 0 .. n \subseteq T
    <3> HIDE DEF T
    <3>1. QED
      BY <1>1, <2>1, <2>3, UpTo
  <2>5. QED
    BY <2>4
<1>11. G \in [0 .. n -> Seq(Events)]
  <2>1. G = [i \in 0 .. n |-> G[i]]
    BY <1>8
  <2>2. QED
    BY <2>1, <1>10
<1>12. QED
  BY <1>5, <1>9, <1>11 DEF n

LEMMA DecodedTyped ==
  ASSUME NEW f \in Seq(Pieces)
  PROVE  Decoded(f) \in Seq(Events)
<1>1. PICK g \in [0 .. Len(f) -> Seq(Events)] : Decoded(f) = g[Len(f)]
  BY DecodedUpTo
<1>2. Len(f) \in 0 .. Len(f)
  OBVIOUS
<1>3. QED
  BY <1>1, <1>2

LEMMA DecodedEmpty == Decoded(<<>>) = <<>>
<1>1. <<>> \in Seq(Pieces) /\ Len(<<>>) = 0
  OBVIOUS
<1>2. PICK g \in [0 .. Len(<<>>) -> Seq(Events)] :
        g[0] = <<>> /\ Decoded(<<>>) = g[Len(<<>>)]
  BY <1>1, DecodedUpTo, Zenon
<1>3. QED
  BY <1>1, <1>2, Zenon

\* Decoding a piece more: a file is decoded from its beginning.
LEMMA DecodedAppend ==
  ASSUME NEW f \in Seq(Pieces), NEW p \in Pieces
  PROVE  Decoded(Append(f, p)) = Keep(Decoded(f), p)
<1> DEFINE n == Len(f)
           longer == Append(f, p)
<1>1. /\ longer \in Seq(Pieces) /\ Len(longer) = n + 1 /\ n \in Nat
      /\ longer[n + 1] = p
      /\ \A i \in 1 .. n : longer[i] = f[i]
  OBVIOUS
<1>2. PICK h \in [0 .. n -> Seq(Events)] :
        /\ h[0] = <<>>
        /\ \A i \in 1 .. n : h[i] = Keep(h[i - 1], f[i])
        /\ Decoded(f) = h[n]
  BY DecodedUpTo
<1> HIDE DEF longer
<1>3. PICK g \in [0 .. Len(longer) -> Seq(Events)] :
        /\ g[0] = <<>>
        /\ \A i \in 1 .. Len(longer) : g[i] = Keep(g[i - 1], longer[i])
        /\ Decoded(longer) = g[Len(longer)]
  BY <1>1, DecodedUpTo
<1>0. n \in Nat
  OBVIOUS
<1> HIDE DEF n
<1>4. \A i \in 1 .. n + 1 : g[i] = Keep(g[i - 1], longer[i])
  BY <1>1, <1>3, Zenon
<1>5. 0 .. n \subseteq {i \in 0 .. n : g[i] = h[i]}
  <2> DEFINE T == {i \in 0 .. n : g[i] = h[i]}
  <2>1. 0 \in T
    <3>1. 0 \in 0 .. n
      BY <1>1
    <3>2. QED
      BY <1>2, <1>3, <3>1, Zenon
  <2>2. ASSUME NEW i \in 0 .. n - 1, i \in T PROVE i + 1 \in T
    <3>1. /\ i + 1 \in 1 .. n /\ i + 1 \in 1 .. n + 1 /\ (i + 1) - 1 = i
          /\ i + 1 \in 0 .. n
      BY <1>0
    <3>2. longer[i + 1] = f[i + 1]
      BY <1>1, <3>1
    <3>3. g[i + 1] = Keep(g[i], f[i + 1])
      BY <1>4, <3>1, <3>2
    <3>4. h[i + 1] = Keep(h[i], f[i + 1])
      BY <1>2, <3>1
    <3>5. g[i] = h[i]
      BY <2>2
    <3>6. QED
      BY <3>1, <3>3, <3>4, <3>5
  <2>3. \A i \in 0 .. n - 1 : i \in T => i + 1 \in T
    BY <2>2
  <2> HIDE DEF T
  <2>4. 0 .. n \subseteq T
    BY <1>1, <2>1, <2>3, UpTo
  <2>5. QED
    BY <2>4 DEF T
<1>6. g[n] = h[n]
  <2>1. n \in 0 .. n
    BY <1>1
  <2>2. QED
    BY <1>5, <2>1
<1>7. g[n + 1] = Keep(g[n], p)
  <2>1. n + 1 \in 1 .. n + 1 /\ (n + 1) - 1 = n
    BY <1>1
  <2>2. QED
    BY <1>1, <1>4, <2>1
<1>8. QED
  BY <1>1, <1>2, <1>3, <1>6, <1>7, Zenon DEF longer

LEMMA DecodedEvent ==
  ASSUME NEW f \in Seq(Pieces), NEW e \in Events
  PROVE  Decoded(Append(f, e)) = Append(Decoded(f), e)
<1>1. e \in Pieces /\ IsEvent(e)
  BY EventsOnly DEF Pieces
<1>2. QED
  BY <1>1, DecodedAppend DEF Keep

LEMMA DecodedOther ==
  ASSUME NEW f \in Seq(Pieces), NEW p \in {Newline, Garbled}
  PROVE  Decoded(Append(f, p)) = Decoded(f)
<1>1. p \in Pieces
  BY DEF Pieces
<1>2. ~ IsEvent(p)
  BY DEF IsEvent, Newline, Garbled, Event
<1>3. QED
  BY <1>1, <1>2, DecodedAppend DEF Keep

-----------------------------------------------------------------------------
(* Writing.                                                                *)

LEMMA InAppend ==
  ASSUME NEW f \in Seq(Pieces), NEW p \in Pieces
  PROVE  /\ Append(f, p) \in Seq(Pieces)
         /\ In(Append(f, p)) = In(f) \cup {p}
<1>1. \A i \in DOMAIN f : i \in DOMAIN Append(f, p) /\ Append(f, p)[i] = f[i]
  OBVIOUS
<1>2. Len(f) + 1 \in DOMAIN Append(f, p) /\ Append(f, p)[Len(f) + 1] = p
  OBVIOUS
<1>3. \A i \in DOMAIN Append(f, p) : i \in DOMAIN f \/ i = Len(f) + 1
  OBVIOUS
<1>4. QED
  BY <1>1, <1>2, <1>3 DEF In

LEMMA InTyped ==
  ASSUME NEW S, NEW f \in Seq(S)
  PROVE  In(f) \subseteq S
BY DEF In

\* What becomes of a file by one write, whether it goes well or not.
LEMMA WriteEffect ==
  ASSUME NEW f \in Seq(Pieces), NEW e \in Events, NEW g,
         g \in CutShort(f, e) \cup {f \o <<e, Newline>>, f \o <<Garbled, Newline>>}
  PROVE  /\ g \in Seq(Pieces)
         /\ In(f) \subseteq In(g)
         /\ Decoded(g) \in {Decoded(f), Append(Decoded(f), e)}
<1>1. {e, Garbled, Newline} \subseteq Pieces
  BY DEF Pieces
<1>2. ASSUME NEW p \in {e, Garbled}
      PROVE  /\ Append(f, p) \in Seq(Pieces)
             /\ In(f) \subseteq In(Append(f, p))
             /\ Decoded(Append(f, p)) \in {Decoded(f), Append(Decoded(f), e)}
  <2>1. p \in Pieces
    BY <1>1
  <2>2. Append(f, p) \in Seq(Pieces)
    BY <2>1
  <2>3. In(f) \subseteq In(Append(f, p))
    BY <2>1, InAppend
  <2>4. Decoded(Append(f, p)) \in {Decoded(f), Append(Decoded(f), e)}
    BY DecodedEvent, DecodedOther
  <2>5. QED
    BY <2>2, <2>3, <2>4
<1>3. ASSUME NEW p \in {e, Garbled}
      PROVE  /\ f \o <<p, Newline>> \in Seq(Pieces)
             /\ In(f) \subseteq In(f \o <<p, Newline>>)
             /\ Decoded(f \o <<p, Newline>>) = Decoded(Append(f, p))
  <2>1. p \in Pieces /\ Newline \in Pieces
    BY <1>1
  <2>2. f \o <<p, Newline>> = Append(Append(f, p), Newline)
    BY <2>1
  <2>3. Append(f, p) \in Seq(Pieces) /\ In(f) \subseteq In(Append(f, p))
    BY <1>2
  <2>4. /\ Append(Append(f, p), Newline) \in Seq(Pieces)
        /\ In(Append(f, p)) \subseteq In(Append(Append(f, p), Newline))
    BY <2>1, <2>3, InAppend, Zenon
  <2>5. Decoded(Append(Append(f, p), Newline)) = Decoded(Append(f, p))
    BY <2>3, DecodedOther
  <2>6. QED
    BY <2>2, <2>3, <2>4, <2>5
<1>4. CASE g = f
  BY <1>4
<1>5. CASE g \in {Append(f, e), Append(f, Garbled)}
  BY <1>2, <1>5
<1>6. CASE g \in {f \o <<e, Newline>>, f \o <<Garbled, Newline>>}
  BY <1>2, <1>3, <1>6
<1>7. QED
  BY <1>4, <1>5, <1>6 DEF CutShort

LEMMA WriteWell ==
  ASSUME NEW f \in Seq(Pieces), NEW e \in Events
  PROVE  /\ Decoded(f \o <<e, Newline>>) = Append(Decoded(f), e)
         /\ e \in In(f \o <<e, Newline>>)
<1>1. e \in Pieces /\ Newline \in Pieces
  BY DEF Pieces
<1>2. f \o <<e, Newline>> = Append(Append(f, e), Newline)
  BY <1>1
<1>3. Append(f, e) \in Seq(Pieces)
  BY <1>1
<1>4. Decoded(Append(Append(f, e), Newline)) = Append(Decoded(f), e)
  BY <1>3, DecodedOther, DecodedEvent
<1>5. e \in In(Append(Append(f, e), Newline))
  <2>1. /\ In(Append(f, e)) = In(f) \cup {e}
        /\ In(Append(Append(f, e), Newline)) = In(Append(f, e)) \cup {Newline}
    BY <1>1, <1>3, InAppend, Zenon
  <2>2. QED
    BY <2>1
<1>6. QED
  BY <1>2, <1>4, <1>5

\* An event is recorded, or the call is known to have had a faulty write.
LEMMA RecordEffect ==
  ASSUME transcript \in Seq(Pieces), NEW o \in Operations,
         NEW phase \in {"started", "completed", "failed"}, Record(o, phase)
  PROVE  /\ transcript' \in Seq(Pieces)
         /\ In(transcript) \subseteq In(transcript')
         /\ Logged' \in {Logged, Append(Logged, Event(o, phase))}
         /\ \/ /\ Logged' = Append(Logged, Event(o, phase))
               /\ Event(o, phase) \in In(transcript')
               /\ broken' = broken
            \/ broken' = broken \cup {o}
<1> DEFINE e == Event(o, phase)
<1>1. e \in Events
  BY EventIn DEF Phases
<1>2. transcript' \in CutShort(transcript, e)
        \cup {transcript \o <<e, Newline>>, transcript \o <<Garbled, Newline>>}
  BY DEF Record
<1>3. /\ transcript' \in Seq(Pieces)
      /\ In(transcript) \subseteq In(transcript')
      /\ Decoded(transcript') \in {Decoded(transcript), Append(Decoded(transcript), e)}
  BY <1>1, <1>2, WriteEffect
<1>4. \/ transcript' = transcript \o <<e, Newline>> /\ GoesWell
      \/ GoesWrong(o)
  BY DEF Record
<1>5. QED
  BY <1>1, <1>3, <1>4, WriteWell DEF Logged, GoesWell, GoesWrong

LEMMA AuditEffect ==
  ASSUME audit \in Seq(Pieces), NEW o \in Operations, Audit(o)
  PROVE  /\ audit' \in Seq(Pieces)
         /\ In(audit) \subseteq In(audit')
         /\ \/ Event(o, "audited") \in In(audit') /\ broken' = broken
            \/ broken' = broken \cup {o}
<1> DEFINE e == Event(o, "audited")
<1>1. e \in Events
  BY EventIn DEF Phases
<1>2. audit' \in CutShort(audit, e)
        \cup {audit \o <<e, Newline>>, audit \o <<Garbled, Newline>>}
  BY DEF Audit
<1>3. audit' \in Seq(Pieces) /\ In(audit) \subseteq In(audit')
  BY <1>1, <1>2, WriteEffect
<1>4. \/ audit' = audit \o <<e, Newline>> /\ GoesWell
      \/ GoesWrong(o)
  BY DEF Audit
<1>5. QED
  BY <1>1, <1>3, <1>4, WriteWell DEF GoesWell, GoesWrong

-----------------------------------------------------------------------------
(* Reading.                                                                *)

LEMMA LeastIn ==
  ASSUME NEW S, S \subseteq Nat, S # {}
  PROVE  Least(S) \in S
BY LeastNumber DEF Least

\* A sequence from one position to another.
LEMMA Section ==
  ASSUME NEW S, NEW s \in Seq(S), NEW a \in 1 .. Len(s) + 1, NEW b \in 0 .. Len(s)
  PROVE  /\ SubSeq(s, a, b) \in Seq(S)
         /\ Len(SubSeq(s, a, b)) = IF a <= b THEN b - a + 1 ELSE 0
         /\ \A i \in 1 .. b - a + 1 : SubSeq(s, a, b)[i] = s[a + i - 1]
<1>1. \A i \in a .. b : s[i] \in S
  OBVIOUS
<1>2. a \in Int /\ b \in Int
  OBVIOUS
<1>3. QED
  BY <1>1, <1>2, SubSeqProperties

\* A page is made of events, whatever the cursor.
LEMMA PageTyped ==
  ASSUME NEW log \in Seq(Events), NEW e, NEW n \in Nat \ {0}
  PROVE  Page(log, e, n) \in Seq(Events)
<1>1. CASE e = NoCursor
  <2>1. Len(log) \in 0 .. Len(log)
    OBVIOUS
  <2> DEFINE a == IF Len(log) > n THEN Len(log) - n + 1 ELSE 1
  <2>2. a \in 1 .. Len(log) + 1
    OBVIOUS
  <2>3. Page(log, e, n) = SubSeq(log, a, Len(log))
    BY <1>1 DEF Page
  <2> HIDE DEF a
  <2>4. SubSeq(log, a, Len(log)) \in Seq(Events)
    BY <2>1, <2>2, Section, Zenon
  <2>5. QED
    BY <2>3, <2>4
<1>2. CASE e # NoCursor /\ e \in In(log)
  <2> DEFINE at == {i \in DOMAIN log : log[i] = e}
             unread == After(log, e)
  <2>1. at \subseteq Nat /\ at # {}
    BY <1>2 DEF In
  <2>2. Least(at) \in 1 .. Len(log)
    <3>1. at \subseteq 1 .. Len(log)
      OBVIOUS
    <3> HIDE DEF at
    <3>2. Least(at) \in at
      BY <2>1, LeastIn
    <3>3. QED
      BY <3>1, <3>2
  <2>3. unread = SubSeq(log, Least(at) + 1, Len(log))
    BY DEF After
  <2>4. unread \in Seq(Events)
    <3> HIDE DEF at
    <3>1. Least(at) + 1 \in 1 .. Len(log) + 1 /\ Len(log) \in 0 .. Len(log)
      BY <2>2
    <3>2. QED
      BY <2>3, <3>1, Section
  <2> HIDE DEF unread
  <2>5. SubSeq(unread, 1, IF Len(unread) > n THEN n ELSE Len(unread)) \in Seq(Events)
    <3>1. (IF Len(unread) > n THEN n ELSE Len(unread)) \in 0 .. Len(unread)
      BY <2>4
    <3>2. 1 \in 1 .. Len(unread) + 1
      BY <2>4
    <3>3. QED
      BY <2>4, <3>1, <3>2, Section
  <2>6. QED
    BY <1>2, <2>5 DEF Page, unread
<1>3. CASE e # NoCursor /\ e \notin In(log)
  BY <1>3 DEF Page
<1>4. QED
  BY <1>1, <1>2, <1>3

-----------------------------------------------------------------------------
(* Types.                                                                  *)

Typed ==
  /\ MCPTypeOK
  /\ transcript \in Seq(Pieces)
  /\ audit \in Seq(Pieces)
  /\ page \in Seq(Events)
  /\ received \in Seq(Events)

LEMMA LoggedTyped == ASSUME Typed PROVE Logged \in Seq(Events)
BY DecodedTyped DEF Typed, Logged

LEMMA ConcatTyped ==
  ASSUME NEW s \in Seq(Events), NEW t \in Seq(Events)
  PROVE  s \o t \in Seq(Events)
OBVIOUS

Calls == [pc : {"run", "record", "reply"}, op : Operations]
         \cup [pc : {"idle", "page", "summary"}, op : {None}]

\* What is to be shown of a step: the sequences make up the rest.
LEMMA TypedNext ==
  ASSUME transcript' \in Seq(Pieces), audit' \in Seq(Pieces),
         page' \in Seq(Events), received' \in Seq(Events),
         fate' \in [Operations -> Fates], call' \in Calls,
         page' # <<>> => call'.pc = "page",
         cursor' \in Events \cup {NoCursor},
         broken' \subseteq Operations,
         faults' \in 0 .. MaxFaults, crashes' \in 0 .. MaxCrashes
  PROVE  Typed'
<1>1. In(transcript') \subseteq Pieces /\ In(audit') \subseteq Pieces
  BY InTyped
<1>2. In(page') \subseteq Events /\ In(received') \subseteq Events
  BY InTyped
<1>3. QED
  BY <1>1, <1>2 DEF Typed, MCPTypeOK, Pieces, Events, Phases, Calls

LEMMA InitTyped == Init => Typed
<1> SUFFICES ASSUME Init PROVE Typed
  OBVIOUS
<1>1. In(<<>>) = {}
  BY DEF In
<1>2. <<>> \in Seq(Pieces) /\ <<>> \in Seq(Events)
  OBVIOUS
<1>3. fate \in [Operations -> Fates] /\ call \in [pc : {"idle"}, op : {None}]
  BY DEF Init, Fates, Idle
<1>4. QED
  BY <1>1, <1>2, <1>3 DEF Init, Typed, MCPTypeOK

LEMMA TypedFacts ==
  ASSUME Typed
  PROVE  /\ fate \in [Operations -> Fates]
         /\ call \in Calls
         /\ page # <<>> => call.pc = "page"
         /\ cursor \in Events \cup {NoCursor}
         /\ broken \subseteq Operations
         /\ faults \in 0 .. MaxFaults
         /\ crashes \in 0 .. MaxCrashes
BY DEF Typed, MCPTypeOK, Calls, Events, Phases

LEMMA NextTyped ==
  ASSUME Typed, [Next]_vars
  PROVE  Typed'
<1> USE TypedFacts
<1>1. ASSUME NEW o \in Operations, BeginCall(o) PROVE Typed'
  <2>1. transcript' \in Seq(Pieces) /\ broken' \subseteq Operations
        /\ faults' \in 0 .. MaxFaults
    <3>1. CASE o = Start
      BY <1>1, <3>1 DEF BeginCall, Typed
    <3>2. CASE o # Start
      <4>1. Record(o, "started")
        BY <1>1, <3>2 DEF BeginCall
      <4>2. transcript' \in Seq(Pieces) /\ broken' \subseteq Operations
        BY <4>1, RecordEffect DEF Typed
      <4>3. faults' \in 0 .. MaxFaults
        BY <4>1 DEF Record, GoesWell, GoesWrong
      <4>4. QED
        BY <4>2, <4>3
    <3>3. QED
      BY <3>1, <3>2
  <2>2. fate' \in [Operations -> Fates] /\ call' \in Calls
    BY <1>1 DEF BeginCall, At, Calls, Fates
  <2>3. page' = <<>>
    BY <1>1 DEF BeginCall, Idle
  <2>4. QED
    BY <1>1, <2>1, <2>2, <2>3, TypedNext DEF BeginCall, client, Typed
<1>2. ASSUME NEW o \in Operations, Run(o) PROVE Typed'
  <2>1. audit' \in Seq(Pieces) /\ broken' \subseteq Operations
        /\ faults' \in 0 .. MaxFaults
    <3>1. CASE Audit(o)
      <4>1. audit' \in Seq(Pieces) /\ broken' \subseteq Operations
        BY <3>1, AuditEffect DEF Typed
      <4>2. faults' \in 0 .. MaxFaults
        BY <3>1 DEF Audit, GoesWell, GoesWrong
      <4>3. QED
        BY <4>1, <4>2
    <3>2. CASE UNCHANGED <<audit, faults, broken>>
      BY <3>2 DEF Typed
    <3>3. QED
      BY <1>2, <3>1, <3>2 DEF Run, Unlogged
  <2>2. fate' \in [Operations -> Fates] /\ call' \in Calls
    BY <1>2 DEF Run, At, Calls, Fates
  <2>3. page' = <<>>
    BY <1>2 DEF Run, At
  <2>4. QED
    BY <1>2, <2>1, <2>2, <2>3, TypedNext DEF Run, client, Typed
<1>3. ASSUME NEW o \in Operations, RecordEnd(o) PROVE Typed'
  <2>1. transcript' \in Seq(Pieces) /\ broken' \subseteq Operations
        /\ faults' \in 0 .. MaxFaults
    <3>1. CASE UNCHANGED <<transcript, faults, broken>>
      BY <3>1 DEF Typed
    <3>2. CASE Record(o, Answer(o))
      <4>1. Answer(o) \in {"started", "completed", "failed"}
        BY DEF Answer
      <4>2. transcript' \in Seq(Pieces) /\ broken' \subseteq Operations
        BY <3>2, <4>1, RecordEffect DEF Typed
      <4>3. faults' \in 0 .. MaxFaults
        BY <3>2 DEF Record, GoesWell, GoesWrong
      <4>4. QED
        BY <4>2, <4>3
    <3>3. QED
      BY <1>3, <3>1, <3>2 DEF RecordEnd
  <2>2. call' \in Calls
    BY <1>3 DEF RecordEnd, At, Calls
  <2>3. page' = <<>>
    BY <1>3 DEF RecordEnd, At
  <2>4. QED
    BY <1>3, <2>1, <2>2, <2>3, TypedNext DEF RecordEnd, client, Typed
<1>4. ASSUME NEW o \in Operations, Reply(o) PROVE Typed'
  <2>1. fate' \in [Operations -> Fates]
    BY <1>4 DEF Reply, Answer, Fates
  <2>2. page' = <<>> /\ call' \in Calls
    BY <1>4 DEF Reply, At, Idle, Calls
  <2>3. QED
    BY <1>4, <2>1, <2>2, TypedNext DEF Reply, files, client, bounds, Typed
<1>5. ASSUME NEW n \in 1 .. MaxPage, GetLogs(n) PROVE Typed'
  <2>1. page' \in Seq(Events)
    BY <1>5, LoggedTyped, PageTyped DEF GetLogs
  <2>2. call' \in Calls /\ call'.pc = "page"
    BY <1>5 DEF GetLogs, At, Calls
  <2>3. QED
    BY <1>5, <2>1, <2>2, TypedNext DEF GetLogs, files, client, bounds, Typed
<1>6. ASSUME SendPage PROVE Typed'
  <2>1. received' \in Seq(Events)
    BY <1>6, ConcatTyped DEF SendPage, Typed
  <2>2. cursor' \in Events \cup {NoCursor}
    BY <1>6 DEF SendPage, Typed
  <2>3. call' \in Calls /\ page' = <<>>
    BY <1>6 DEF SendPage, Idle, Calls
  <2>4. QED
    BY <1>6, <2>1, <2>2, <2>3, TypedNext DEF SendPage, files, bounds, Typed
<1>7. ASSUME GetAuditSummary PROVE Typed'
  <2>1. call' \in Calls /\ page' = <<>>
    BY <1>7 DEF GetAuditSummary, At, Idle, Calls
  <2>2. QED
    BY <1>7, <2>1, TypedNext DEF GetAuditSummary, files, client, bounds, Typed
<1>8. ASSUME SendSummary PROVE Typed'
  <2>1. call' \in Calls /\ page' = <<>>
    BY <1>8 DEF SendSummary, At, Idle, Calls
  <2>2. QED
    BY <1>8, <2>1, TypedNext DEF SendSummary, files, client, bounds, Typed
<1>9. ASSUME NEW o \in Operations, ReaperLogs(o) PROVE Typed'
  <2>1. audit' \in Seq(Pieces) /\ broken' \subseteq Operations
    BY <1>9, AuditEffect DEF ReaperLogs, Typed
  <2>2. faults' \in 0 .. MaxFaults
    BY <1>9 DEF ReaperLogs, Audit, GoesWell, GoesWrong
  <2>3. fate' \in [Operations -> Fates]
    BY <1>9 DEF ReaperLogs, Fates
  <2>4. QED
    BY <1>9, <2>1, <2>2, <2>3, TypedNext DEF ReaperLogs, client, Typed
<1>10. ASSUME Crash PROVE Typed'
  <2>1. broken' \subseteq Operations
    BY <1>10 DEF Crash, Calls
  <2>2. call' \in Calls /\ page' = <<>>
    BY <1>10 DEF Crash, Idle, Calls
  <2>3. crashes' \in 0 .. MaxCrashes
    BY <1>10 DEF Crash
  <2>4. QED
    BY <1>10, <2>1, <2>2, <2>3, TypedNext DEF Crash, files, client, Typed
<1>11. ASSUME UNCHANGED vars PROVE Typed'
  BY <1>11, TypedNext DEF vars, Typed
<1>12. QED
  BY <1>1, <1>2, <1>3, <1>4, <1>5, <1>6, <1>7, <1>8, <1>9, <1>10, <1>11
  DEF Next, Progress, Poll

LEMMA AlwaysTyped == Spec => []Typed
<1>1. QED
  BY InitTyped, NextTyped, PTL DEF Spec

\* Every variable has its type: files are sequences of whole events and of
\* what faulty writes leave, a page belongs to the request being answered.
THEOREM MCPTypeCorrect == Spec => []MCPTypeOK
<1>1. Typed => MCPTypeOK
  BY DEF Typed
<1>2. QED
  BY <1>1, AlwaysTyped, PTL

-----------------------------------------------------------------------------
(* What is on record.                                                      *)

\* Nothing is ever taken out of a file, and a call with a faulty write keeps
\* that blemish.
LEMMA FilesGrow ==
  ASSUME Typed, [Next]_vars
  PROVE  /\ In(transcript) \subseteq In(transcript')
         /\ In(audit) \subseteq In(audit')
         /\ broken \subseteq broken'
<1> DEFINE Grow == /\ In(transcript) \subseteq In(transcript')
                   /\ In(audit) \subseteq In(audit')
                   /\ broken \subseteq broken'
<1> USE DEF Typed
<1>1. ASSUME NEW o \in Operations, BeginCall(o) PROVE Grow
  <2>1. CASE Record(o, "started")
    BY <1>1, <2>1, RecordEffect DEF BeginCall
  <2>2. QED
    BY <1>1, <2>1 DEF BeginCall
<1>2. ASSUME NEW o \in Operations, Run(o) PROVE Grow
  <2>1. CASE Audit(o)
    BY <1>2, <2>1, AuditEffect DEF Run
  <2>2. QED
    BY <1>2, <2>1 DEF Run, Unlogged
<1>3. ASSUME NEW o \in Operations, RecordEnd(o) PROVE Grow
  <2>1. CASE Record(o, Answer(o))
    <3>1. Answer(o) \in {"started", "completed", "failed"}
      BY DEF Answer
    <3>2. QED
      BY <1>3, <2>1, <3>1, RecordEffect DEF RecordEnd
  <2>2. QED
    BY <1>3, <2>1 DEF RecordEnd
<1>4. ASSUME NEW o \in Operations, ReaperLogs(o) PROVE Grow
  BY <1>4, AuditEffect DEF ReaperLogs
<1>5. ASSUME Crash PROVE Grow
  BY <1>5 DEF Crash, files
<1>6. ASSUME UNCHANGED <<files, broken>> PROVE Grow
  BY <1>6 DEF files
<1>7. QED
  BY <1>1, <1>2, <1>3, <1>4, <1>5, <1>6
  DEF Next, Progress, Poll, Reply, GetLogs, SendPage, GetAuditSummary, SendSummary,
      vars, files

\* The call under way is where its fate says; any other call that did not
\* come to its end was cut off.
Tracked ==
  /\ call.pc = "run" => fate[call.op] = "asked"
  /\ call.pc \in {"record", "reply"} => fate[call.op] \in {"done", "denied"}
  /\ \A o \in Operations :
       fate[o] \in {"asked", "done", "denied"} => o = call.op \/ o \in broken

LEMMA NextTracked ==
  ASSUME Typed, Tracked, [Next]_vars
  PROVE  Tracked'
<1> USE TypedFacts, FilesGrow DEF Tracked
<1>0. None \notin Operations
  OBVIOUS
<1>1. ASSUME NEW o \in Operations, BeginCall(o) PROVE Tracked'
  BY <1>1 DEF BeginCall, At, Idle
<1>2. ASSUME NEW o \in Operations, Run(o) PROVE Tracked'
  BY <1>2 DEF Run, At
<1>3. ASSUME NEW o \in Operations, RecordEnd(o) PROVE Tracked'
  BY <1>3 DEF RecordEnd, At
<1>4. ASSUME NEW o \in Operations, Reply(o) PROVE Tracked'
  BY <1>4 DEF Reply, At, Idle, Answer
<1>5. ASSUME NEW o \in Operations, ReaperLogs(o) PROVE Tracked'
  BY <1>5 DEF ReaperLogs, Calls
<1>6. ASSUME Crash PROVE Tracked'
  BY <1>6 DEF Crash, Idle, Calls
<1>7. ASSUME UNCHANGED fate, call.op = None, call'.op = None,
             call'.pc \in {"idle", "page", "summary"}
      PROVE  Tracked'
  BY <1>7
<1>8. ASSUME UNCHANGED vars PROVE Tracked'
  BY <1>8 DEF vars
<1>9. QED
  BY <1>1, <1>2, <1>3, <1>4, <1>5, <1>6, <1>7, <1>8
  DEF Next, Progress, Poll, GetLogs, SendPage, GetAuditSummary, SendSummary, At, Idle

\* What the files say of a call that has got so far.
Recorded ==
  \A o \in Operations \ broken :
    /\ fate[o] \in {"done", "completed"} =>
         o \in Exports \/ Event(o, "audited") \in In(audit)
    /\ \/ fate[o] = "completed"
       \/ fate[o] = "done" /\ call = At("reply", o)
       => Event(o, "completed") \in In(transcript)
    /\ \/ fate[o] = "failed"
       \/ fate[o] = "denied" /\ call = At("reply", o)
       => o = Start \/ Event(o, "failed") \in In(transcript)

LEMMA NextRecorded ==
  ASSUME Typed, Tracked, Recorded, [Next]_vars
  PROVE  Recorded'
<1> DEFINE Holds(o) ==
      /\ fate[o] \in {"done", "completed"} =>
           o \in Exports \/ Event(o, "audited") \in In(audit)
      /\ \/ fate[o] = "completed"
         \/ fate[o] = "done" /\ call = At("reply", o)
         => Event(o, "completed") \in In(transcript)
      /\ \/ fate[o] = "failed"
         \/ fate[o] = "denied" /\ call = At("reply", o)
         => o = Start \/ Event(o, "failed") \in In(transcript)
<1>1. SUFFICES ASSUME NEW p \in Operations, p \notin broken' PROVE Holds(p)'
  BY DEF Recorded
<1>2. /\ In(transcript) \subseteq In(transcript')
      /\ In(audit) \subseteq In(audit')
      /\ p \notin broken
  BY <1>1, FilesGrow
<1>3. Holds(p)
  BY <1>2 DEF Recorded
<1>4. ASSUME fate'[p] = fate[p], call' = At("reply", p) => call = At("reply", p)
      PROVE  Holds(p)'
  BY <1>2, <1>3, <1>4 DEF At
<1>5. ASSUME fate'[p] \in {"new", "asked", "reaped"}
      PROVE  Holds(p)'
  BY <1>5
<1> USE TypedFacts
<1>6. ASSUME NEW o \in Operations, BeginCall(o) PROVE Holds(p)'
  BY <1>4, <1>5, <1>6 DEF BeginCall, At
<1>7. ASSUME NEW o \in Operations, Run(o) PROVE Holds(p)'
  <2>1. CASE p # o
    BY <1>4, <1>7, <2>1 DEF Run, At
  <2>2. CASE p = o
    <3>1. fate'[p] \in {"done", "denied"} /\ call' # At("reply", p)
      BY <1>7, <2>2 DEF Run, At
    <3>2. fate'[p] = "done" => p \in Exports \/ Audit(p)
      BY <1>7, <2>2 DEF Run
    <3>3. fate'[p] = "done" => p \in Exports \/ Event(p, "audited") \in In(audit')
      BY <1>1, <3>2, AuditEffect DEF Typed
    <3>4. QED
      BY <3>1, <3>3 DEF At
  <2>3. QED
    BY <2>1, <2>2
<1>8. ASSUME NEW o \in Operations, RecordEnd(o) PROVE Holds(p)'
  <2>1. fate' = fate /\ call = At("record", o) /\ call' = At("reply", o)
    BY <1>8 DEF RecordEnd
  <2>2. CASE p # o
    BY <1>4, <2>1, <2>2 DEF At
  <2>3. CASE p = o
    <3>1. fate[p] \in {"done", "denied"}
      BY <2>1, <2>3 DEF Tracked, At
    <3>2. CASE p = Start /\ fate[p] = "denied"
      BY <2>1, <3>2
    <3>3. CASE ~ (p = Start /\ fate[p] = "denied")
      <4>1. Record(p, Answer(p))
        BY <1>8, <2>3, <3>3 DEF RecordEnd
      <4>2. Answer(p) \in {"started", "completed", "failed"}
        BY DEF Answer
      <4>3. Event(p, Answer(p)) \in In(transcript')
        BY <1>1, <4>1, <4>2, RecordEffect DEF Typed
      <4>4. fate[p] = "done" => Event(p, "completed") \in In(transcript')
        BY <4>3 DEF Answer
      <4>5. fate[p] = "denied" => Event(p, "failed") \in In(transcript')
        BY <4>3 DEF Answer
      <4>6. QED
        BY <1>2, <1>3, <2>1, <3>1, <4>4, <4>5
    <3>4. QED
      BY <3>2, <3>3
  <2>4. QED
    BY <2>2, <2>3
<1>9. ASSUME NEW o \in Operations, Reply(o) PROVE Holds(p)'
  <2>1. CASE p # o
    BY <1>4, <1>9, <2>1 DEF Reply, At, Idle
  <2>2. CASE p = o
    <3>1. /\ call = At("reply", p) /\ fate[p] \in {"done", "denied"}
          /\ fate'[p] = Answer(p) /\ UNCHANGED files
      BY <1>9, <2>2 DEF Reply, Tracked, At
    <3>2. CASE fate[p] = "done"
      BY <1>3, <3>1, <3>2 DEF Answer, files
    <3>3. CASE fate[p] = "denied"
      BY <1>3, <3>1, <3>3 DEF Answer, files
    <3>4. QED
      BY <3>1, <3>2, <3>3
  <2>3. QED
    BY <2>1, <2>2
<1>10. ASSUME NEW o \in Operations, ReaperLogs(o) PROVE Holds(p)'
  BY <1>4, <1>5, <1>10 DEF ReaperLogs
<1>11. ASSUME UNCHANGED fate, call'.pc # "reply" PROVE Holds(p)'
  BY <1>4, <1>11 DEF At
<1>12. ASSUME UNCHANGED vars PROVE Holds(p)'
  BY <1>4, <1>12 DEF vars
<1>13. QED
  BY <1>6, <1>7, <1>8, <1>9, <1>10, <1>11, <1>12
  DEF Next, Progress, Poll, GetLogs, SendPage, GetAuditSummary, SendSummary, Crash,
      At, Idle

LEMMA InitRecorded == Init => Tracked /\ Recorded
BY DEF Init, Tracked, Recorded, Idle, At

\* A call is answered only once the transcript says how it ended and, if it
\* succeeded and was no export, the audit log says that it happened; only a
\* faulty write or the death of the server makes an exception.
THEOREM AnswersRecorded == Spec => []AnsweredOnRecord
<1>1. Init => Typed /\ Tracked /\ Recorded
  BY InitTyped, InitRecorded
<1>2. Typed /\ Tracked /\ Recorded /\ [Next]_vars => (Typed /\ Tracked /\ Recorded)'
  BY NextTyped, NextTracked, NextRecorded
<1>3. Recorded => AnsweredOnRecord
  BY DEF Recorded, AnsweredOnRecord
<1>4. QED
  BY <1>1, <1>2, <1>3, PTL DEF Spec

-----------------------------------------------------------------------------
(* The log, event by event.                                                *)

LEMMA LogAppended ==
  ASSUME NEW log \in Seq(Events), NEW e \in Events
  PROVE  /\ Append(log, e) \in Seq(Events)
         /\ Len(log) \in Nat
         /\ DOMAIN log = 1 .. Len(log)
         /\ Len(Append(log, e)) = Len(log) + 1
         /\ DOMAIN Append(log, e) = 1 .. Len(log) + 1
         /\ \A i \in DOMAIN log : Append(log, e)[i] = log[i] /\ log[i] \in Events
         /\ Append(log, e)[Len(log) + 1] = e
OBVIOUS

\* What a step does to the log.
LEMMA LoggedNext ==
  ASSUME Typed, [Next]_vars
  PROVE  \/ Logged' = Logged
         \/ \E o \in Operations \ {Start} :
              /\ BeginCall(o)
              /\ Logged' = Append(Logged, Event(o, "started"))
         \/ \E o \in Operations :
              /\ RecordEnd(o)
              /\ Logged' = Append(Logged, Event(o, Answer(o)))
<1> USE DEF Typed
<1>1. ASSUME NEW o \in Operations, BeginCall(o), Logged' # Logged
      PROVE  o # Start /\ Logged' = Append(Logged, Event(o, "started"))
  <2>1. o # Start
    BY <1>1 DEF BeginCall, Logged
  <2>2. Record(o, "started")
    BY <1>1, <2>1 DEF BeginCall
  <2>3. QED
    BY <1>1, <2>1, <2>2, RecordEffect
<1>2. ASSUME NEW o \in Operations, RecordEnd(o), Logged' # Logged
      PROVE  Logged' = Append(Logged, Event(o, Answer(o)))
  <2>1. Record(o, Answer(o))
    BY <1>2 DEF RecordEnd, Logged
  <2>2. Answer(o) \in {"started", "completed", "failed"}
    BY DEF Answer
  <2>3. QED
    BY <1>2, <2>1, <2>2, RecordEffect
<1>3. ASSUME UNCHANGED transcript PROVE Logged' = Logged
  BY <1>3 DEF Logged
<1>4. QED
  BY <1>1, <1>2, <1>3
  DEF Next, Progress, Poll, Run, Reply, GetLogs, SendPage, GetAuditSummary,
      SendSummary, ReaperLogs, Crash, files, vars

\* Each event is recorded at most once: a call begins once and ends once.
Once ==
  /\ \A i \in DOMAIN Logged :
       LET e == Logged[i] IN
       /\ e.phase \in {"started", "completed", "failed"}
       /\ fate[e.op] \notin {"new", "reaped"}
       /\ e.phase = "started" => e.op # Start
       /\ e.phase # "started" => /\ fate[e.op] # "asked"
                                /\ call # At("record", e.op)
  /\ \A i, j \in DOMAIN Logged : Logged[i] = Logged[j] => i = j

\* A fate is never taken back.
LEMMA FateNext ==
  ASSUME Typed, Tracked, [Next]_vars, NEW o \in Operations
  PROVE  /\ fate[o] \notin {"new", "reaped"} => fate'[o] \notin {"new", "reaped"}
         /\ fate[o] \notin {"new", "reaped", "asked"}
              => fate'[o] \notin {"new", "reaped", "asked"}
         /\ call' = At("record", o) => call = At("record", o) \/ fate[o] = "asked"
<1> USE TypedFacts DEF Tracked
<1>1. ASSUME NEW p \in Operations, BeginCall(p) PROVE
        fate' = [fate EXCEPT ![p] = "asked"] /\ fate[p] = "new" /\ call'.pc = "run"
  BY <1>1 DEF BeginCall, At
<1>2. ASSUME NEW p \in Operations, Run(p) PROVE
        /\ \E f \in {"done", "denied"} : fate' = [fate EXCEPT ![p] = f]
        /\ fate[p] = "asked" /\ call' = At("record", p)
  BY <1>2 DEF Run, At
<1>3. ASSUME NEW p \in Operations, RecordEnd(p) PROVE fate' = fate /\ call'.pc = "reply"
  BY <1>3 DEF RecordEnd, At
<1>4. ASSUME NEW p \in Operations, Reply(p) PROVE
        /\ \E f \in {"completed", "failed"} : fate' = [fate EXCEPT ![p] = f]
        /\ call'.pc = "idle"
  BY <1>4 DEF Reply, Answer, Idle
<1>5. ASSUME NEW p \in Operations, ReaperLogs(p) PROVE
        fate' = [fate EXCEPT ![p] = "reaped"] /\ fate[p] = "new" /\ call' = call
  BY <1>5 DEF ReaperLogs
<1>6. ASSUME UNCHANGED <<fate>>, call' = call \/ call'.pc # "record"
      PROVE  fate' = fate /\ (call' = call \/ call'.pc # "record")
  BY <1>6
<1>7. QED
  <2>1. CASE \E p \in Operations : BeginCall(p)
    BY <1>1, <2>1 DEF At
  <2>2. CASE \E p \in Operations : Run(p)
    BY <1>2, <2>2 DEF At
  <2>3. CASE \E p \in Operations : RecordEnd(p)
    BY <1>3, <2>3 DEF At
  <2>4. CASE \E p \in Operations : Reply(p)
    BY <1>4, <2>4 DEF At
  <2>5. CASE \E p \in Operations : ReaperLogs(p)
    BY <1>5, <2>5 DEF At
  <2>6. CASE UNCHANGED fate /\ (call' = call \/ call'.pc # "record")
    BY <2>6 DEF At
  <2>7. QED
    BY <2>1, <2>2, <2>3, <2>4, <2>5, <2>6
    DEF Next, Progress, Poll, GetLogs, SendPage, GetAuditSummary, SendSummary, Crash,
        At, Idle, vars

LEMMA NextOnce ==
  ASSUME Typed, Tracked, Once, [Next]_vars
  PROVE  Once'
<1> DEFINE Good(log, i) ==
             LET e == log[i] IN
             /\ e.phase \in {"started", "completed", "failed"}
             /\ fate[e.op] \notin {"new", "reaped"}
             /\ e.phase = "started" => e.op # Start
             /\ e.phase # "started" => /\ fate[e.op] # "asked"
                                      /\ call # At("record", e.op)
           Good2(log, i) ==
             LET e == log[i] IN
             /\ e.phase \in {"started", "completed", "failed"}
             /\ fate'[e.op] \notin {"new", "reaped"}
             /\ e.phase = "started" => e.op # Start
             /\ e.phase # "started" => /\ fate'[e.op] # "asked"
                                      /\ call' # At("record", e.op)
<1>1. Logged \in Seq(Events) /\ \A i \in DOMAIN Logged : Logged[i] \in Events
  BY LoggedTyped
<1>2. ASSUME NEW i \in DOMAIN Logged PROVE Good2(Logged, i)
  <2>1. Good(Logged, i)
    BY DEF Once
  <2>2. Logged[i].op \in Operations
    BY <1>1 DEF Events
  <2>3. QED
    BY <2>1, <2>2, FateNext
<1>3. CASE Logged' = Logged
  BY <1>2, <1>3 DEF Once
<1>4. ASSUME NEW e \in Events, Logged' = Append(Logged, e),
             \A i \in DOMAIN Logged : Logged[i] # e,
             /\ e.phase \in {"started", "completed", "failed"}
             /\ fate'[e.op] \notin {"new", "reaped"}
             /\ e.phase = "started" => e.op # Start
             /\ e.phase # "started" => /\ fate'[e.op] # "asked"
                                      /\ call' # At("record", e.op)
      PROVE  Once'
  <2>1. ASSUME NEW i \in DOMAIN Append(Logged, e) PROVE Good2(Append(Logged, e), i)
    <3>1. CASE i \in DOMAIN Logged
      <4>1. Append(Logged, e)[i] = Logged[i]
        BY <1>1, <3>1, LogAppended
      <4>2. QED
        BY <1>2, <3>1, <4>1
    <3>2. CASE i = Len(Logged) + 1
      <4>1. Append(Logged, e)[i] = e
        BY <1>1, <3>2, LogAppended
      <4>2. QED
        BY <1>4, <4>1
    <3>3. QED
      BY <1>1, <3>1, <3>2, LogAppended
  <2>2. ASSUME NEW i \in DOMAIN Append(Logged, e), NEW j \in DOMAIN Append(Logged, e),
               Append(Logged, e)[i] = Append(Logged, e)[j]
        PROVE  i = j
    BY <1>1, <1>4, <2>2, LogAppended DEF Once
  <2>3. QED
    BY <1>4, <2>1, <2>2 DEF Once
<1>5. ASSUME NEW o \in Operations \ {Start}, BeginCall(o),
             Logged' = Append(Logged, Event(o, "started"))
      PROVE  Once'
  <2>1. fate[o] = "new" /\ fate'[o] = "asked"
    BY <1>5, TypedFacts DEF BeginCall
  <2>2. \A i \in DOMAIN Logged : Logged[i].op # o
    BY <2>1 DEF Once
  <2>3. Event(o, "started") \in Events
    BY EventIn DEF Phases
  <2> DEFINE e == Event(o, "started")
  <2>4. e.op = o /\ e.phase = "started"
    BY DEF Event
  <2> HIDE DEF e
  <2>5. QED
    BY <1>4, <1>5, <2>1, <2>2, <2>3, <2>4 DEF e
<1>6. ASSUME NEW o \in Operations, RecordEnd(o),
             Logged' = Append(Logged, Event(o, Answer(o)))
      PROVE  Once'
  <2>1. /\ call = At("record", o) /\ call' = At("reply", o) /\ fate' = fate
        /\ fate[o] \in {"done", "denied"}
    BY <1>6 DEF RecordEnd, Tracked, At
  <2>2. Answer(o) \in {"completed", "failed"}
    BY DEF Answer
  <2> DEFINE e == Event(o, Answer(o))
  <2>3. e \in Events
    BY <2>2, EventIn DEF Phases
  <2>4. e.op = o /\ e.phase \in {"completed", "failed"}
    BY <2>2 DEF Event
  <2>5. \A i \in DOMAIN Logged : Logged[i].op = o => Logged[i].phase = "started"
    BY <2>1 DEF Once
  <2>6. call' # At("record", o)
    BY <2>1 DEF At
  <2>7. Logged' = Append(Logged, e)
    BY <1>6
  <2> HIDE DEF e
  <2>8. \A i \in DOMAIN Logged : Logged[i] # e
    BY <2>4, <2>5
  <2>9. QED
    BY <1>4, <2>1, <2>3, <2>4, <2>6, <2>7, <2>8
<1>7. QED
  BY <1>3, <1>5, <1>6, LoggedNext

LEMMA InitLogged == Init => Logged = <<>>
BY DecodedEmpty DEF Init, Logged

LEMMA InitOnce == Init => Once
<1>1. DOMAIN <<>> = {}
  OBVIOUS
<1>2. QED
  BY <1>1, InitLogged DEF Once

\* The start of a call is the last event of the log until its end is recorded
\* right after it, or something has gone wrong with the call.
Bracketed ==
  \A i \in DOMAIN Logged :
    LET o == Logged[i].op IN
    Logged[i].phase = "started" =>
      \/ o \in broken
      \/ i = Len(Logged) /\ call.op = o /\ call.pc \in {"run", "record"}
      \/ i < Len(Logged) /\ Logged[i + 1] \in {Event(o, "completed"), Event(o, "failed")}

\* A call under way goes on, unless its end is recorded or something goes wrong.
LEMMA CallGoesOn ==
  ASSUME Typed, [Next]_vars, Logged' = Logged,
         call.pc \in {"run", "record"}, call.op # Start
  PROVE  \/ call'.op = call.op /\ call'.pc \in {"run", "record"}
         \/ call.op \in broken'
<1> USE TypedFacts
<1>1. call.op \in Operations /\ call.op # None
  BY DEF Calls
<1>2. ASSUME NEW o \in Operations, Run(o) PROVE call'.op = call.op /\ call'.pc = "record"
  BY <1>2 DEF Run, At
<1>3. ASSUME NEW o \in Operations, RecordEnd(o) PROVE call.op \in broken'
  <2>1. call.op = o /\ Record(o, Answer(o))
    BY <1>3 DEF RecordEnd, At
  <2>2. Answer(o) \in {"completed", "failed"}
    BY DEF Answer
  <2>3. Logged' # Append(Logged, Event(o, Answer(o)))
    <3>1. Event(o, Answer(o)) \in Events
      BY <2>2, EventIn DEF Phases
    <3>2. Len(Append(Logged, Event(o, Answer(o)))) # Len(Logged)
      BY <3>1, LoggedTyped, LogAppended
    <3>3. QED
      BY <3>2
  <2>4. broken' = broken \cup {o}
    BY <2>1, <2>2, <2>3, RecordEffect DEF Typed
  <2>5. QED
    BY <2>1, <2>4
<1>4. ASSUME Crash PROVE call.op \in broken'
  BY <1>1, <1>4 DEF Crash
<1>5. QED
  BY <1>2, <1>3, <1>4
  DEF Next, Progress, Poll, BeginCall, Reply, GetLogs, SendPage, GetAuditSummary,
      SendSummary, ReaperLogs, At, Idle, vars

LEMMA NextBracketed ==
  ASSUME Typed, Tracked, Once, Bracketed, [Next]_vars
  PROVE  Bracketed'
<1> DEFINE Ends(o) == {Event(o, "completed"), Event(o, "failed")}
<1>1. Logged \in Seq(Events) /\ broken \subseteq broken'
  BY LoggedTyped, FilesGrow
<1>2. CASE Logged' = Logged
  <2>1. SUFFICES ASSUME NEW i \in DOMAIN Logged, Logged[i].phase = "started"
                 PROVE  \/ Logged[i].op \in broken'
                        \/ /\ i = Len(Logged)
                           /\ call'.op = Logged[i].op
                           /\ call'.pc \in {"run", "record"}
                        \/ i < Len(Logged) /\ Logged[i + 1] \in Ends(Logged[i].op)
    BY <1>2 DEF Bracketed
  <2>2. Logged[i].op # Start
    BY <2>1 DEF Once
  <2>3. \/ Logged[i].op \in broken
        \/ i = Len(Logged) /\ call.op = Logged[i].op /\ call.pc \in {"run", "record"}
        \/ i < Len(Logged) /\ Logged[i + 1] \in Ends(Logged[i].op)
    BY <2>1 DEF Bracketed
  <2>4. QED
    BY <1>1, <1>2, <2>2, <2>3, CallGoesOn
<1>3. ASSUME NEW e \in Events, Logged' = Append(Logged, e),
             \A i \in DOMAIN Logged : Logged[i].phase = "started" =>
               \/ Logged[i].op \in broken
               \/ i = Len(Logged) /\ e \in Ends(Logged[i].op)
               \/ i < Len(Logged) /\ Logged[i + 1] \in Ends(Logged[i].op),
             e.phase = "started" => call' = At("run", e.op)
      PROVE  Bracketed'
  <2> DEFINE log == Append(Logged, e)
  <2>1. /\ DOMAIN Logged = 1 .. Len(Logged) /\ Len(Logged) \in Nat
        /\ DOMAIN log = 1 .. Len(Logged) + 1 /\ Len(log) = Len(Logged) + 1
        /\ \A i \in DOMAIN Logged : log[i] = Logged[i]
        /\ log[Len(Logged) + 1] = e
    BY <1>1, LogAppended
  <2> HIDE DEF log
  <2>2. ASSUME NEW i \in DOMAIN log, log[i].phase = "started"
        PROVE  \/ log[i].op \in broken'
               \/ /\ i = Len(log)
                  /\ call'.op = log[i].op
                  /\ call'.pc \in {"run", "record"}
               \/ i < Len(log) /\ log[i + 1] \in Ends(log[i].op)
    <3>1. CASE i = Len(Logged) + 1
      BY <1>3, <2>1, <2>2, <3>1 DEF At
    <3>2. CASE i = Len(Logged) /\ i \in DOMAIN Logged
      <4>1. log[i] = Logged[i] /\ log[i + 1] = e /\ i < Len(log) /\ ~ (i < Len(Logged))
        BY <2>1, <3>2
      <4>2. QED
        BY <1>1, <1>3, <2>2, <3>2, <4>1
    <3>3. CASE i < Len(Logged) /\ i \in DOMAIN Logged
      <4>1. /\ log[i] = Logged[i] /\ i < Len(log) /\ i # Len(Logged)
            /\ i + 1 \in DOMAIN Logged
        BY <2>1, <3>3
      <4>2. log[i + 1] = Logged[i + 1]
        BY <2>1, <4>1
      <4>3. QED
        BY <1>1, <1>3, <2>2, <3>3, <4>1, <4>2
    <3>4. QED
      BY <2>1, <3>1, <3>2, <3>3
  <2>3. Logged' = log
    BY <1>3 DEF log
  <2>4. QED
    BY <2>2, <2>3 DEF Bracketed
<1>4. ASSUME NEW o \in Operations \ {Start}, BeginCall(o),
             Logged' = Append(Logged, Event(o, "started"))
      PROVE  Bracketed'
  <2> DEFINE e == Event(o, "started")
  <2>1. e \in Events /\ e.op = o /\ e.phase = "started"
    BY EventIn DEF Event, Phases
  <2>2. call.pc = "idle" /\ call' = At("run", o)
    BY <1>4 DEF BeginCall, Idle
  <2>3. Logged' = Append(Logged, e)
    BY <1>4
  <2>4. \A i \in DOMAIN Logged : Logged[i].phase = "started" =>
               \/ Logged[i].op \in broken
               \/ i < Len(Logged) /\ Logged[i + 1] \in Ends(Logged[i].op)
    BY <2>2 DEF Bracketed
  <2> HIDE DEF e
  <2>5. QED
    BY <1>3, <2>1, <2>2, <2>3, <2>4
<1>5. ASSUME NEW o \in Operations, RecordEnd(o),
             Logged' = Append(Logged, Event(o, Answer(o)))
      PROVE  Bracketed'
  <2> DEFINE e == Event(o, Answer(o))
  <2>1. Answer(o) \in {"completed", "failed"}
    BY DEF Answer
  <2>2. e \in Events /\ e.phase # "started" /\ e \in Ends(o)
    BY <2>1, EventIn DEF Event, Phases
  <2>3. call.op = o
    BY <1>5 DEF RecordEnd, At
  <2>4. Logged' = Append(Logged, e)
    BY <1>5
  <2>5. \A i \in DOMAIN Logged : Logged[i].phase = "started" =>
               \/ Logged[i].op \in broken
               \/ i = Len(Logged) /\ Logged[i].op = o
               \/ i < Len(Logged) /\ Logged[i + 1] \in Ends(Logged[i].op)
    BY <2>3 DEF Bracketed
  <2> HIDE DEF e
  <2>6. QED
    BY <1>3, <2>2, <2>4, <2>5
<1>6. QED
  BY <1>2, <1>4, <1>5, LoggedNext

LEMMA InitBracketed == Init => Bracketed
<1>1. DOMAIN <<>> = {}
  OBVIOUS
<1>2. QED
  BY <1>1, InitLogged DEF Bracketed

LEMMA AlwaysOnce == Spec => [](Typed /\ Tracked /\ Once)
<1>1. Init => Typed /\ Tracked /\ Once
  BY InitTyped, InitRecorded, InitOnce
<1>2. Typed /\ Tracked /\ Once /\ [Next]_vars => (Typed /\ Tracked /\ Once)'
  BY NextTyped, NextTracked, NextOnce
<1>3. QED
  BY <1>1, <1>2, PTL DEF Spec

\* Calls do not overlap in the transcript: a start is followed by the end of
\* the same call, unless the call is under way or something went wrong with it.
THEOREM CallsDoNotOverlap == Spec => []CallsBracketed
<1>1. Init => Bracketed
  BY InitBracketed
<1>2. Typed /\ Tracked /\ Once /\ Bracketed /\ [Next]_vars => Bracketed'
  BY NextBracketed
<1>3. Bracketed => CallsBracketed
  BY DEF Bracketed, CallsBracketed
<1>4. QED
  BY <1>1, <1>2, <1>3, AlwaysOnce, PTL DEF Spec

-----------------------------------------------------------------------------
(* The client that follows the log.                                        *)

\* s stands in the log, after its first k events.
StandsAt(s, log, k) ==
  /\ k \in 0 .. Len(log) - Len(s)
  /\ \A i \in 1 .. Len(s) : s[i] = log[k + i]

Part(s, log) == \E k \in Nat : StandsAt(s, log, k)

LEMMA PartOfLonger ==
  ASSUME NEW log \in Seq(Events), NEW e \in Events, NEW s \in Seq(Events), Part(s, log)
  PROVE  Part(s, Append(log, e))
<1>1. PICK k \in Nat : StandsAt(s, log, k)
  BY DEF Part
<1>2. /\ Len(s) \in Nat /\ Len(log) \in Nat /\ DOMAIN log = 1 .. Len(log)
      /\ k + Len(s) <= Len(log)
  BY <1>1 DEF StandsAt
<1>3. \A i \in 1 .. Len(s) : k + i \in DOMAIN log
  BY <1>2
<1>4. Len(Append(log, e)) = Len(log) + 1
      /\ \A i \in DOMAIN log : Append(log, e)[i] = log[i]
  BY LogAppended
<1>5. k \in 0 .. Len(Append(log, e)) - Len(s)
  BY <1>2, <1>4
<1>6. \A i \in 1 .. Len(s) : s[i] = Append(log, e)[k + i]
  BY <1>1, <1>3, <1>4 DEF StandsAt
<1>7. StandsAt(s, Append(log, e), k)
  BY <1>5, <1>6 DEF StandsAt
<1>8. QED
  BY <1>7 DEF Part

LEMMA PartOfConcat ==
  ASSUME NEW log \in Seq(Events), NEW s \in Seq(Events), NEW t \in Seq(Events),
         Part(s \o t, log)
  PROVE  Part(s, log)
<1>1. PICK k \in Nat : StandsAt(s \o t, log, k)
  BY DEF Part
<1>2. /\ Len(s \o t) = Len(s) + Len(t) /\ Len(s) \in Nat /\ Len(t) \in Nat
      /\ Len(log) \in Nat /\ \A i \in 1 .. Len(s) : (s \o t)[i] = s[i]
  OBVIOUS
<1>3. \A i \in 1 .. Len(s) : i \in 1 .. Len(s \o t)
  BY <1>2
<1>4. k \in 0 .. Len(log) - Len(s)
  BY <1>1, <1>2 DEF StandsAt
<1>5. \A i \in 1 .. Len(s) : s[i] = log[k + i]
  BY <1>1, <1>2, <1>3 DEF StandsAt
<1>6. StandsAt(s, log, k)
  BY <1>4, <1>5 DEF StandsAt
<1>7. QED
  BY <1>6 DEF Part

\* The cursor of a client is the last event it received.
CursorOf(s) == IF s = <<>> THEN NoCursor ELSE s[Len(s)]

LEMMA SectionOf ==
  ASSUME NEW log \in Seq(Events), NEW a \in 1 .. Len(log) + 1, NEW b \in 0 .. Len(log),
         NEW r, r = SubSeq(log, a, b)
  PROVE  /\ r \in Seq(Events)
         /\ Len(r) = IF a <= b THEN b - a + 1 ELSE 0
         /\ \A i \in 1 .. b - a + 1 : r[i] = log[a + i - 1]
<1>1. /\ SubSeq(log, a, b) \in Seq(Events)
      /\ Len(SubSeq(log, a, b)) = IF a <= b THEN b - a + 1 ELSE 0
      /\ \A i \in 1 .. b - a + 1 : SubSeq(log, a, b)[i] = log[a + i - 1]
  BY Section
<1>2. QED
  BY <1>1

\* The page for a cursor goes on where the client is: the events of the log
\* differ, so that its cursor stands in one place only.
LEMMA PageGoesOn ==
  ASSUME NEW log \in Seq(Events), NEW s \in Seq(Events), NEW n \in Nat \ {0},
         \A i, j \in DOMAIN log : log[i] = log[j] => i = j,
         Part(s, log)
  PROVE  Part(s \o Page(log, CursorOf(s), n), log)
<1> DEFINE e == CursorOf(s)
           page_ == Page(log, e, n)
<1>0. Len(log) \in Nat /\ Len(s) \in Nat /\ DOMAIN log = 1 .. Len(log)
  OBVIOUS
<1>1. CASE s = <<>>
  <2> DEFINE a == IF Len(log) > n THEN Len(log) - n + 1 ELSE 1
             r == SubSeq(log, a, Len(log))
  <2>1. page_ = r
    BY <1>1 DEF CursorOf, Page
  <2>2. a \in 1 .. Len(log) + 1 /\ Len(log) \in 0 .. Len(log)
    BY <1>0
  <2> HIDE DEF a
  <2>3. /\ r \in Seq(Events)
        /\ Len(r) = IF a <= Len(log) THEN Len(log) - a + 1 ELSE 0
        /\ \A i \in 1 .. Len(log) - a + 1 : r[i] = log[a + i - 1]
    <3>1. r = SubSeq(log, a, Len(log))
      OBVIOUS
    <3> HIDE DEF r
    <3>2. QED
      BY <2>2, <3>1, SectionOf
  <2> HIDE DEF r
  <2>4. Len(r) = Len(log) - a + 1
    BY <1>0, <2>2, <2>3
  <2>5. \A i \in 1 .. Len(r) : a + i - 1 = (a - 1) + i
    BY <2>2, <2>4
  <2>6. a - 1 \in 0 .. Len(log) - Len(r) /\ a - 1 \in Nat
    BY <1>0, <2>2, <2>4
  <2>7. StandsAt(r, log, a - 1)
    BY <2>3, <2>4, <2>5, <2>6 DEF StandsAt
  <2>8. s \o r = r
    BY <1>1, <2>3
  <2>9. QED
    BY <2>1, <2>6, <2>7, <2>8 DEF Part
<1>2. CASE s # <<>>
  <2>1. PICK k \in Nat : StandsAt(s, log, k)
    BY DEF Part
  <2>2. Len(s) > 0
    BY <1>2
  <2> DEFINE j == k + Len(s)
  <2>3. j \in 1 .. Len(log) /\ j \in DOMAIN log
    BY <1>0, <2>1, <2>2 DEF StandsAt
  <2>4. e = log[j] /\ e \in Events
    <3>1. Len(s) \in 1 .. Len(s)
      BY <1>0, <2>2
    <3>2. e = s[Len(s)]
      BY <1>2 DEF CursorOf
    <3>3. QED
      BY <2>1, <2>3, <3>1, <3>2 DEF StandsAt
  <2>5. e # NoCursor /\ e \in In(log)
    <3>1. e.op # None
      BY <2>4 DEF Events
    <3>2. NoCursor.op = None
      BY DEF NoCursor, Event
    <3>3. QED
      BY <2>3, <2>4, <3>1, <3>2 DEF In
  <2>6. {i \in DOMAIN log : log[i] = e} = {j}
    BY <2>3, <2>4
  <2>7. Least({j}) = j
    <3>1. {j} \subseteq Nat /\ {j} # {}
      BY <2>3
    <3>2. QED
      BY <3>1, LeastIn
  <2> DEFINE unread == After(log, e)
             m == IF Len(unread) > n THEN n ELSE Len(unread)
             r == SubSeq(unread, 1, m)
  <2>8. unread = SubSeq(log, j + 1, Len(log))
    BY <2>6, <2>7 DEF After
  <2>9. page_ = r
    BY <2>5 DEF Page
  <2>10. /\ unread \in Seq(Events)
         /\ Len(unread) = Len(log) - j
         /\ \A i \in 1 .. Len(unread) : unread[i] = log[j + i]
    <3>1. j + 1 \in 1 .. Len(log) + 1 /\ Len(log) \in 0 .. Len(log) /\ j \in Nat
      BY <1>0, <2>3
    <3> HIDE DEF j, unread
    <3>2. /\ unread \in Seq(Events)
          /\ Len(unread) = IF j + 1 <= Len(log) THEN Len(log) - (j + 1) + 1 ELSE 0
          /\ \A i \in 1 .. Len(log) - (j + 1) + 1 : unread[i] = log[(j + 1) + i - 1]
      BY <2>8, <3>1, SectionOf
    <3>3. Len(unread) = Len(log) - j /\ Len(log) - (j + 1) + 1 = Len(log) - j
      BY <1>0, <2>3, <3>1, <3>2
    <3>4. \A i \in 1 .. Len(unread) : (j + 1) + i - 1 = j + i
      BY <3>1
    <3>5. QED
      BY <3>2, <3>3, <3>4
  <2> HIDE DEF unread, j
  <2>11. m \in 0 .. Len(unread) /\ 1 \in 1 .. Len(unread) + 1
    BY <2>10
  <2> HIDE DEF m
  <2>12. /\ r \in Seq(Events) /\ Len(r) = m
         /\ \A i \in 1 .. m : r[i] = unread[i]
    <3>1. /\ r \in Seq(Events)
          /\ Len(r) = IF 1 <= m THEN m - 1 + 1 ELSE 0
          /\ \A i \in 1 .. m - 1 + 1 : r[i] = unread[1 + i - 1]
      <4>1. r = SubSeq(unread, 1, m)
        OBVIOUS
      <4> HIDE DEF r
      <4>2. QED
        BY <2>10, <2>11, <4>1, SectionOf
    <3>2. m \in Nat /\ m - 1 + 1 = m /\ \A i \in 1 .. m : 1 + i - 1 = i
      BY <2>10, <2>11
    <3> HIDE DEF r
    <3>3. Len(r) = m
      BY <3>1, <3>2
    <3>4. QED
      BY <3>1, <3>2, <3>3
  <2> HIDE DEF r
  <2>13. /\ Len(s \o r) = Len(s) + m
         /\ \A i \in 1 .. Len(s) : (s \o r)[i] = s[i]
         /\ \A i \in Len(s) + 1 .. Len(s) + m : (s \o r)[i] = r[i - Len(s)]
    BY <2>12
  <2>14. k \in 0 .. Len(log) - Len(s \o r)
    BY <1>0, <2>3, <2>10, <2>11, <2>13 DEF j
  <2>15. ASSUME NEW i \in 1 .. Len(s \o r) PROVE (s \o r)[i] = log[k + i]
    <3>1. CASE i \in 1 .. Len(s)
      BY <2>1, <2>13, <3>1 DEF StandsAt
    <3>2. CASE i \in Len(s) + 1 .. Len(s) + m
      <4>1. /\ i - Len(s) \in 1 .. m /\ i - Len(s) \in 1 .. Len(unread)
            /\ j + (i - Len(s)) = k + i
        <5>1. /\ m \in Nat /\ Len(unread) \in Nat /\ m <= Len(unread)
              /\ Len(s) \in Nat /\ k \in Nat /\ i \in Int
          BY <1>0, <2>10, <2>11, <3>2
        <5>2. i >= Len(s) + 1 /\ i <= Len(s) + m
          BY <3>2, <5>1
        <5>3. j = k + Len(s)
          BY DEF j
        <5>4. QED
          BY <5>1, <5>2, <5>3
      <4>2. (s \o r)[i] = r[i - Len(s)]
        BY <2>13, <3>2
      <4>3. r[i - Len(s)] = unread[i - Len(s)]
        BY <2>12, <4>1
      <4>4. unread[i - Len(s)] = log[k + i]
        BY <2>10, <4>1
      <4>5. QED
        BY <4>2, <4>3, <4>4
    <3>3. QED
      BY <1>0, <2>11, <2>13, <3>1, <3>2
  <2>16. QED
    BY <2>9, <2>14, <2>15 DEF StandsAt, Part
<1>3. QED
  BY <1>1, <1>2

\* What the client has, with the page on its way to it, stands in the log.
Following ==
  /\ cursor = CursorOf(received)
  /\ Part(received \o page, Logged)

LEMMA NextFollowing ==
  ASSUME Typed, Once, Following, [Next]_vars
  PROVE  Following'
<1>1. /\ Logged \in Seq(Events) /\ page \in Seq(Events) /\ received \in Seq(Events)
      /\ received \o page \in Seq(Events)
  BY LoggedTyped, ConcatTyped DEF Typed
<1>2. Part(received \o page, Logged')
  <2>1. CASE \E e \in Events : Logged' = Append(Logged, e)
    BY <1>1, <2>1, PartOfLonger DEF Following
  <2>2. \A o \in Operations : Answer(o) \in Phases /\ "started" \in Phases
    BY DEF Answer, Phases
  <2>3. CASE Logged' = Logged
    BY <2>3 DEF Following
  <2>4. QED
    BY <2>1, <2>2, <2>3, LoggedNext, EventIn
<1>3. CASE UNCHANGED <<page, client>>
  BY <1>2, <1>3 DEF Following, client
<1>4. ASSUME page' = <<>>, UNCHANGED client PROVE Following'
  <2>1. received \o <<>> = received
    BY <1>1
  <2>2. Logged' \in Seq(Events)
    BY NextTyped, DecodedTyped DEF Typed, Logged
  <2>3. Part(received, Logged')
    BY <1>1, <1>2, <2>2, PartOfConcat
  <2>4. QED
    BY <1>4, <2>1, <2>3 DEF Following, client
<1>5. ASSUME NEW n \in 1 .. MaxPage, GetLogs(n) PROVE Following'
  <2>1. n \in Nat \ {0}
    OBVIOUS
  <2>2. page = <<>> /\ UNCHANGED client /\ Logged' = Logged
    BY <1>5, TypedFacts DEF GetLogs, Idle, files, Logged
  <2>3. CASE page' = Page(Logged, cursor, n)
    <3>1. Part(received, Logged)
      BY <1>1, PartOfConcat DEF Following
    <3>2. Part(received \o Page(Logged, CursorOf(received), n), Logged)
      BY <1>1, <2>1, <3>1, PageGoesOn DEF Once
    <3>3. QED
      BY <2>2, <2>3, <3>2 DEF Following, client
  <2>4. QED
    BY <1>4, <1>5, <2>2, <2>3 DEF GetLogs
<1>6. ASSUME SendPage PROVE Following'
  <2>1. received' = received \o page /\ page' = <<>>
    BY <1>6 DEF SendPage
  <2>2. received' \o <<>> = received'
    BY <1>1, <2>1
  <2>3. cursor' = CursorOf(received')
    <3>1. CASE page = <<>>
      <4>1. received' = received
        BY <1>1, <2>1, <3>1
      <4>2. QED
        BY <1>6, <3>1, <4>1 DEF SendPage, Following
    <3>2. CASE page # <<>>
      <4>1. /\ Len(received') = Len(received) + Len(page)
            /\ received' # <<>>
            /\ received'[Len(received')] = page[Len(page)]
        BY <1>1, <2>1, <3>2
      <4>2. QED
        BY <1>6, <3>2, <4>1 DEF SendPage, CursorOf
    <3>3. QED
      BY <3>1, <3>2
  <2>4. QED
    BY <1>2, <2>1, <2>2, <2>3 DEF Following
<1>7. CASE Crash
  BY <1>4, <1>7 DEF Crash
<1>8. QED
  BY <1>3, <1>5, <1>6, <1>7
  DEF Next, Progress, Poll, BeginCall, Run, RecordEnd, Reply, GetAuditSummary,
      SendSummary, ReaperLogs, vars, client

LEMMA InitFollowing == Init => Following
<1>1. <<>> \o <<>> = <<>> /\ Len(<<>>) = 0 /\ 0 \in 0 .. 0 /\ 0 \in Nat
  OBVIOUS
<1>2. StandsAt(<<>>, <<>>, 0)
  BY <1>1 DEF StandsAt
<1>3. Part(<<>>, <<>>)
  BY <1>1, <1>2, Zenon DEF Part
<1>4. QED
  BY <1>1, <1>3, InitLogged DEF Init, Following, CursorOf

LEMMA FollowingContiguous ==
  ASSUME Typed, Following
  PROVE  FollowsContiguously
<1>1. Logged \in Seq(Events) /\ page \in Seq(Events) /\ received \in Seq(Events)
  BY LoggedTyped DEF Typed
<1>2. PICK k \in Nat : StandsAt(received, Logged, k)
  BY <1>1, PartOfConcat DEF Following, Part
<1> DEFINE n == Len(received)
           a == k + 1
           b == k + n
           r == SubSeq(Logged, a, b)
<1>3. n \in Nat /\ Len(Logged) \in Nat /\ k \in 0 .. Len(Logged) - n
  BY <1>1, <1>2 DEF StandsAt
<1>4. a \in 1 .. Len(Logged) + 1 /\ b \in 0 .. Len(Logged)
  BY <1>3
<1> HIDE DEF n, a, b
<1>5. /\ r \in Seq(Events)
      /\ Len(r) = IF a <= b THEN b - a + 1 ELSE 0
      /\ \A i \in 1 .. b - a + 1 : r[i] = Logged[a + i - 1]
  <2>1. r = SubSeq(Logged, a, b)
    OBVIOUS
  <2> HIDE DEF r
  <2>2. QED
    BY <1>1, <1>4, <2>1, SectionOf, SMTT(30)
<1> HIDE DEF r
<1>6. Len(r) = n /\ b - a + 1 = n
  BY <1>3, <1>5 DEF a, b
<1>7. \A i \in 1 .. n : a + i - 1 = k + i
  BY <1>3 DEF a
<1>8. \A i \in 1 .. n : r[i] = received[i]
  BY <1>2, <1>5, <1>6, <1>7 DEF StandsAt, n
<1>9. received = r
  BY <1>1, <1>5, <1>6, <1>8 DEF n
<1>10. QED
  BY <1>3, <1>9 DEF FollowsContiguously, n, r, a, b

\* A client that passes next_cursor on receives a contiguous part of the
\* transcript, whatever is appended between its pages, however the pages are
\* cut and whichever answers are lost with a server.
THEOREM FollowerMissesNothing == Spec => []FollowsContiguously
<1>1. Init => Following
  BY InitFollowing
<1>2. Typed /\ Tracked /\ Once /\ Following /\ [Next]_vars => Following'
  BY NextFollowing
<1>3. Typed /\ Following => FollowsContiguously
  BY FollowingContiguous
<1>4. QED
  BY <1>1, <1>2, <1>3, AlwaysOnce, PTL DEF Spec
=============================================================================
