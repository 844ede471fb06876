----------------------------- MODULE MCPServer -----------------------------
(***************************************************************************)
(* The request loop of internal/mcp/server.go and the two append-only JSON *)
(* files it keeps: the transcript of one session, which a client follows   *)
(* with a cursor (sandbox_get_logs), and the audit log, which the reaper   *)
(* writes too.  Each tool call is recorded when it starts and when it ends,*)
(* and then answered; errors of either file are ignored.  A write may be   *)
(* cut short by a full disk or by the death of the process, and the two    *)
(* readers take that differently.                                          *)
(***************************************************************************)
EXTENDS Naturals, Sequences

CONSTANTS
  Operations,      \* tool calls, by operation id
  Start,           \* the sandbox_start that creates the session
  Exports,         \* the calls of sandbox_export_file, which the engine does not audit
  None,            \* no operation
  MaxPage,         \* events sandbox_get_logs returns at most
  MaxFaults,       \* bound: writes that go wrong in a behaviour
  MaxCrashes       \* bound: deaths of the server in a behaviour

ASSUME OperationsAssumption ==
  Start \in Operations /\ None \notin Operations /\ Exports \subseteq Operations \ {Start}

ASSUME BoundsAssumption ==
  MaxPage \in Nat \ {0} /\ MaxFaults \in Nat /\ MaxCrashes \in Nat

VARIABLES
  transcript,      \* <state_dir>/transcripts/<session>.jsonl
  audit,           \* the audit log
  fate,            \* [Operations -> Fates]: what became of each call
  call,            \* what the request loop is doing
  page,            \* the events of a sandbox_get_logs being answered
  cursor,          \* the client's: next_cursor of its last answer
  received,        \* the client's: every event it was sent
  broken,          \* history: calls with a write that went wrong, or cut off
  faults, crashes

files == <<transcript, audit>>
client == <<cursor, received>>
bounds == <<faults, crashes>>
vars == <<transcript, audit, fate, call, page, cursor, received, broken,
          faults, crashes>>

-----------------------------------------------------------------------------
(* A file is a sequence of events and of the marks between them.           *)

Event(o, phase) == [op |-> o, phase |-> phase]
Newline == Event(None, "newline")

\* Bytes that decode as no event: a prefix of one, or a line beyond the
\* scanner's 2 MiB.
Garbled == Event(None, "garbled")

NoCursor == Event(None, "no cursor")

IsEvent(piece) == piece.op # None

In(f) == {f[i] : i \in DOMAIN f}

\* ReadSession reads line by line and refuses the file when one line is not
\* exactly one event.
Decodable(f) ==
  \A i \in DOMAIN f :
    /\ f[i] # Garbled
    /\ IsEvent(f[i]) /\ i < Len(f) => f[i + 1] = Newline

\* The audit log is read as a stream of values: newlines do not matter.
Streamable(f) == Garbled \notin In(f)

\* The events in the order of the pieces.
Keep(log, piece) == IF IsEvent(piece) THEN Append(log, piece) ELSE log

Decoded(f) ==
  LET upto[i \in 0 .. Len(f)] == IF i = 0 THEN <<>> ELSE Keep(upto[i - 1], f[i])
  IN  upto[Len(f)]

Logged == Decoded(transcript)

Least(S) == CHOOSE x \in S : \A y \in S : x <= y

After(log, e) == SubSeq(log, Least({i \in DOMAIN log : log[i] = e}) + 1, Len(log))

\* A fault: the page begins with the event of the cursor.
Page_Inclusive(log, e, n) ==
  LET unread == <<e>> \o After(log, e) IN
  IF e = NoCursor THEN SubSeq(log, IF Len(log) > n THEN Len(log) - n + 1 ELSE 1, Len(log))
  ELSE IF e \in In(log) THEN SubSeq(unread, 1, IF Len(unread) > n THEN n ELSE Len(unread))
  ELSE <<>>

\* A fault: a page that is cut is one event short.
Page_OneShort(log, e, n) ==
  LET unread == After(log, e) IN
  IF e = NoCursor THEN SubSeq(log, IF Len(log) > n THEN Len(log) - n + 1 ELSE 1, Len(log))
  ELSE IF e \in In(log) THEN SubSeq(unread, 1, IF Len(unread) > n THEN n - 1 ELSE Len(unread))
  ELSE <<>>

\* The newest n events without a cursor, the n that follow it with one;
\* nothing (ErrCursorNotFound) when the cursor is not in the file.
Page(log, e, n) ==
  LET unread == After(log, e) IN
  IF e = NoCursor THEN SubSeq(log, IF Len(log) > n THEN Len(log) - n + 1 ELSE 1, Len(log))
  ELSE IF e \in In(log) THEN SubSeq(unread, 1, IF Len(unread) > n THEN n ELSE Len(unread))
  ELSE <<>>

-----------------------------------------------------------------------------
(* Appending.                                                              *)

\* What a write that is cut short leaves: nothing, a prefix of the event, or
\* the event without its newline.
CutShort(f, e) == {f, Append(f, Garbled), Append(f, e)}

GoesWell == UNCHANGED <<faults, broken>>

GoesWrong(o) ==
  /\ faults < MaxFaults
  /\ faults' = faults + 1
  /\ broken' = broken \cup {o}

\* Store.Append.  Escaped output may also make the line longer than
\* ReadSession will read.
Record(o, phase) ==
  LET e == Event(o, phase) IN
  \/ transcript' = transcript \o <<e, Newline>> /\ GoesWell
  \/ transcript' \in CutShort(transcript, e) /\ GoesWrong(o)
  \/ /\ phase # "started"
     /\ transcript' = transcript \o <<Garbled, Newline>>
     /\ GoesWrong(o)

\* Logger.Log.
Audit(o) ==
  LET e == Event(o, "audited") IN
  \/ audit' = audit \o <<e, Newline>> /\ GoesWell
  \/ audit' \in CutShort(audit, e) /\ GoesWrong(o)

Unlogged == UNCHANGED <<audit, faults, broken>>

-----------------------------------------------------------------------------
(* The request loop: one request at a time.                                *)

Fates == {"new", "asked", "done", "denied", "completed", "failed", "reaped"}

Idle == [pc |-> "idle", op |-> None]
At(pc, o) == [pc |-> pc, op |-> o]

\* A client can name the session once it has been created.
Known(o) == o = Start \/ fate[Start] \in {"done", "completed"}

\* handleToolCall up to executeTool: only a call that names its session is
\* recorded as started.
BeginCall(o) ==
  /\ call = Idle
  /\ fate[o] = "new"
  /\ Known(o)
  /\ fate' = [fate EXCEPT ![o] = "asked"]
  /\ call' = At("run", o)
  /\ IF o = Start THEN UNCHANGED <<transcript, faults, broken>>
                  ELSE Record(o, "started")
  /\ UNCHANGED <<audit, page, client, crashes>>

\* A fault: the tool returns before it logs what it did.
Run_Unaudited(o) ==
  /\ call = At("run", o)
  /\ \E outcome \in {"done", "denied"} : fate' = [fate EXCEPT ![o] = outcome]
  /\ call' = At("record", o)
  /\ UNCHANGED <<files, page, client, broken, bounds>>

\* executeTool: the engine logs what it did, unless that was an export; what it
\* denied it may not log.
Run(o) ==
  /\ call = At("run", o)
  /\ \/ /\ fate' = [fate EXCEPT ![o] = "done"]
        /\ IF o \in Exports THEN Unlogged ELSE Audit(o)
     \/ /\ fate' = [fate EXCEPT ![o] = "denied"]
        /\ Unlogged \/ (o \notin Exports /\ Audit(o))
  /\ call' = At("record", o)
  /\ UNCHANGED <<transcript, page, client, crashes>>

Answer(o) == IF fate[o] = "done" THEN "completed" ELSE "failed"

\* A fault: a call that failed is answered without being recorded.
RecordEnd_OnlySuccess(o) ==
  /\ call = At("record", o)
  /\ IF fate[o] = "denied" THEN UNCHANGED <<transcript, faults, broken>>
                           ELSE Record(o, Answer(o))
  /\ call' = At("reply", o)
  /\ UNCHANGED <<audit, fate, page, client, crashes>>

\* The end of the call is recorded under the session of the request, or of
\* the result: a start that failed belongs to no session.
RecordEnd(o) ==
  /\ call = At("record", o)
  /\ IF o = Start /\ fate[o] = "denied" THEN UNCHANGED <<transcript, faults, broken>>
                                        ELSE Record(o, Answer(o))
  /\ call' = At("reply", o)
  /\ UNCHANGED <<audit, fate, page, client, crashes>>

\* A fault: an error is not answered.
Reply_OnlySuccess(o) ==
  /\ call = At("reply", o)
  /\ fate[o] = "done"
  /\ fate' = [fate EXCEPT ![o] = Answer(o)]
  /\ call' = Idle
  /\ UNCHANGED <<files, page, client, broken, bounds>>

\* The result, or the error, is sent.
Reply(o) ==
  /\ call = At("reply", o)
  /\ fate' = [fate EXCEPT ![o] = Answer(o)]
  /\ call' = Idle
  /\ UNCHANGED <<files, page, client, broken, bounds>>

\* sandbox_get_logs, which is not recorded itself.  A file that cannot be
\* decoded gives an error, which leaves the client where it was.
GetLogs(n) ==
  /\ call = Idle
  /\ Known(None)
  /\ call' = At("page", None)
  /\ page' = IF Decodable(transcript) THEN Page(Logged, cursor, n) ELSE <<>>
  /\ UNCHANGED <<files, fate, client, broken, bounds>>

\* next_cursor is that of the last event sent, or the client's own.
SendPage ==
  /\ call = At("page", None)
  /\ received' = received \o page
  /\ cursor' = IF page = <<>> THEN cursor ELSE page[Len(page)]
  /\ page' = <<>>
  /\ call' = Idle
  /\ UNCHANGED <<files, fate, broken, bounds>>

\* sandbox_get_audit_summary holds the logger's mutex while it reads.
GetAuditSummary ==
  /\ call = Idle
  /\ call' = At("summary", None)
  /\ UNCHANGED <<files, fate, page, client, broken, bounds>>

\* Garbled bytes never end the loop over decoder.More: Decode returns the
\* same error again and again.
SendSummary ==
  /\ call = At("summary", None)
  /\ Streamable(audit)
  /\ call' = Idle
  /\ UNCHANGED <<files, fate, page, client, broken, bounds>>

-----------------------------------------------------------------------------
(* The others.                                                             *)

\* The reaper logs a session it has cleaned, unless a reader has the mutex.
ReaperLogs(o) ==
  /\ call.pc # "summary"
  /\ o \notin Exports \cup {Start}
  /\ fate[o] = "new"
  /\ fate' = [fate EXCEPT ![o] = "reaped"]
  /\ Audit(o)
  /\ UNCHANGED <<transcript, call, page, client, crashes>>

\* A fault: a page that was not sent is sent by the next server.
Crash_KeepsPage ==
  /\ crashes < MaxCrashes
  /\ crashes' = crashes + 1
  /\ call' = Idle
  /\ broken' = broken \cup ({call.op} \ {None})
  /\ UNCHANGED <<files, fate, page, client, faults>>

\* The server dies and is started again; the files and the client stay.
Crash ==
  /\ crashes < MaxCrashes
  /\ crashes' = crashes + 1
  /\ call' = Idle
  /\ page' = <<>>
  /\ broken' = broken \cup ({call.op} \ {None})
  /\ UNCHANGED <<files, fate, client, faults>>

-----------------------------------------------------------------------------
Init ==
  /\ transcript = <<>>
  /\ audit = <<>>
  /\ fate = [o \in Operations |-> "new"]
  /\ call = Idle
  /\ page = <<>>
  /\ cursor = NoCursor
  /\ received = <<>>
  /\ broken = {}
  /\ faults = 0
  /\ crashes = 0

\* What the loop does by itself once it has read a request.
Progress ==
  \/ \E o \in Operations : Run(o) \/ RecordEnd(o) \/ Reply(o)
  \/ SendPage
  \/ SendSummary

Poll == \E n \in 1 .. MaxPage : GetLogs(n)

Next ==
  \/ \E o \in Operations : BeginCall(o) \/ ReaperLogs(o)
  \/ Progress
  \/ Poll
  \/ GetAuditSummary
  \/ Crash

Spec == Init /\ [][Next]_vars

(***************************************************************************)
(* The loop runs, and a tool call ends by its timeout (WF).  Requests are  *)
(* lines of stdin, read in the order they were written: a client that asks *)
(* for the logs again and again is served whenever the loop is idle again  *)
(* and again (SF).                                                         *)
(***************************************************************************)
FairSpec == Spec /\ WF_vars(Progress) /\ SF_vars(Poll)

-----------------------------------------------------------------------------
(* Properties.                                                             *)

\* Every variable has its type; a page belongs to the request being answered.
MCPTypeOK ==
  LET events == [op : Operations, phase : {"started", "completed", "failed", "audited"}]
  IN
  /\ In(transcript) \cup In(audit) \subseteq events \cup {Newline, Garbled}
  /\ fate \in [Operations -> Fates]
  /\ call \in [pc : {"run", "record", "reply"}, op : Operations]
              \cup [pc : {"idle", "page", "summary"}, op : {None}]
  /\ In(page) \cup In(received) \subseteq events
  /\ page # <<>> => call.pc = "page"
  /\ cursor \in events \cup {NoCursor}
  /\ broken \subseteq Operations
  /\ faults \in 0 .. MaxFaults /\ crashes \in 0 .. MaxCrashes

\* A client that passes next_cursor on receives a contiguous part of the
\* transcript: no event is skipped or sent twice, whatever is appended between
\* its pages and whichever answers are lost with a server.
FollowsContiguously ==
  LET log == Logged IN
  \E k \in 0 .. Len(log) - Len(received) :
    received = SubSeq(log, k + 1, k + Len(received))

\* A call is answered only when the transcript says how it ended and, if it
\* succeeded and was no export, the audit log says it happened, unless a write
\* went wrong.
AnsweredOnRecord ==
  \A o \in Operations \ broken :
    /\ fate[o] = "completed" => /\ Event(o, "completed") \in In(transcript)
                                /\ o \in Exports \/ Event(o, "audited") \in In(audit)
    /\ fate[o] = "failed" /\ o # Start => Event(o, "failed") \in In(transcript)

\* Calls do not overlap in the transcript: the start of a call is followed by
\* its end, or the call is under way, or something went wrong with it; so a
\* start without an end is the trace of a failure.
CallsBracketed ==
  LET log == Logged IN
  \A i \in DOMAIN log :
    LET o == log[i].op IN
    log[i].phase = "started" =>
      \/ o \in broken
      \/ i = Len(log) /\ call.op = o
      \/ i < Len(log) /\ log[i + 1] \in {Event(o, "completed"), Event(o, "failed")}

\* Every request is answered, as long as the audit log can be read to its end.
RequestsAnswered == (call # Idle) ~> (call = Idle \/ ~ Streamable(audit))

\* The events after the client's cursor.
Unread == IF cursor \in In(transcript) THEN In(After(transcript, cursor)) ELSE {}

\* A client that keeps asking receives every event after its cursor, as long
\* as both files can be read.
FollowerCatchesUp ==
  \A o \in Operations : \A phase \in {"started", "completed", "failed"} :
    Event(o, phase) \in Unread
      ~> (\/ Event(o, phase) \in In(received)
          \/ ~ Decodable(transcript)
          \/ ~ Streamable(audit))
=============================================================================
