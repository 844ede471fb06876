----------------------------- MODULE Transfers -----------------------------
(***************************************************************************)
(* What goes into a sandbox and comes out of it: the requests of           *)
(* internal/lab/engine.go that write, read and export files and send HTTP  *)
(* requests from a sandbox, over the executions of                         *)
(* internal/docker/client.go, by one request loop.  An execution ends with *)
(* its helper or, five seconds after its time is up, with the docker       *)
(* client, which leaves the helper behind.  The controller may be started  *)
(* again under another configuration; the sandbox keeps what it was given. *)
(***************************************************************************)
EXTENDS Scratch, Policy

CONSTANTS
  Dests,           \* names of exported files
  Spellings,       \* the paths by which clients name files
  StatLine,        \* the length of the line that stat prints
  Runes,           \* the sequences of bytes that encode one character in UTF-8
  Replacement,     \* the character U+FFFD
  Deployments,     \* the configuration files and environments, in pairs, that
                   \* a controller is started with
  Workloads,       \* bound: the requests one behaviour's client makes
  MaxCrashes       \* bound: deaths of the controller in a behaviour

ASSUME TransfersAssumption ==
  /\ Deployable(Deployments) # {}
  /\ \A c \in Deployable(Deployments) :
       {c.defaultTimeout, c.maximumTimeout, c.defaultTTL, c.maximumTTL,
        c.writeBytes, c.readBytes, c.outputBytes} \subseteq Int
  /\ StatLine \in Nat
  /\ MaxCrashes \in Nat
  /\ Absent # "partial"
  /\ CookieFiles \cap (Scratchfiles \cup {Absent}) = {}
  /\ Replacement \notin Bytes

\* Every path is a sequence of names, and none is the absence of a file.
PathNames == {ScratchRoot} \cup UNION {{f[i] : i \in DOMAIN f} : f \in Scratchfiles}
             \cup UNION {{p.parts[i] : i \in DOMAIN p.parts} : p \in Spellings}

ASSUME PathsAssumption ==
  /\ \A f \in Scratchfiles : f \in Seq(PathNames)
  /\ \A p \in Spellings : p \in [rooted : BOOLEAN, parts : Seq(PathNames)]
  /\ Absent \notin Seq(PathNames)

VARIABLES
  config,          \* what LoadConfig returned to this controller
  session,         \* the one sandbox, and what it was granted
  req,             \* what the request loop is doing
  pager,           \* the client's: a file it reads page by page
  exports,         \* the export directory: [Dests -> how the file was copied, or Absent]
  work,            \* the requests the client makes
  crashes,
  origin,          \* history: the grants of the session before any reset
  stored,          \* history: [Scratchfiles -> the content that the client was
                   \* told it has, until the client or the agent replaces it]
  acked,           \* history: [CookieFiles -> the cookies of answered responses]
  contested        \* history: the files that somebody else was at work on when
                   \* the last request to change them was made, or during it

controller == <<config, session, req>>
outside == <<pager, exports, origin, stored, acked, contested>>
vars == <<inside, controller, outside, work, crashes>>

Unoccupied == [op |-> "none", pc |-> "idle", h |-> Absent, dest |-> Absent,
               bytes |-> 0, original |-> Absent, path |-> Absent]

NoSandbox == [up |-> FALSE, outbound |-> FALSE, gateway |-> FALSE,
              hosts |-> {}, under |-> Absent]

NothingRead == [file |-> Absent, encoding |-> Absent, got |-> <<>>,
                start |-> 0, more |-> FALSE, answered |-> FALSE]

Idle == req.pc = "idle"

-----------------------------------------------------------------------------
(* docker exec.                                                            *)

\* The helper starts, attached; a buffer of the controller waits for it.
Launch(h, p) ==
  /\ helper' = [helper EXCEPT ![h] = [p EXCEPT !.attached = TRUE]]
  /\ stdout' = EmptyBuffer

Exec(op, pc, f) == [None EXCEPT !.op = op, !.pc = pc, !.file = f]

Exits(h, how) == helper[h].pc = how /\ Become(h, None)

\* A fault: there is no deadline but the helper's own end.
ExecFails_NoDeadline(h) == Exits(h, "failed")

\* A non-zero status, or the deadline: the docker client is killed, whatever
\* the helper has done by then.
ExecFails(h) ==
  \/ Exits(h, "failed")
  \/ Become(h, CutOff(helper[h]))

\* Detached helpers take the places of others in this instance only.
Vacant == {h \in Helpers : helper[h].pc = "gone"}

Place == CHOOSE h \in Vacant : TRUE

Accepts(op) == Idle /\ session.up /\ op \in work /\ Vacant # {}

-----------------------------------------------------------------------------
(* What the client may rely on.  An execution that was given up may still  *)
(* change its file: then the next one to do so may succeed and be undone.  *)

LeftBehind(f) == \E h \in Helpers : Detached(h) /\ helper[h].file = f

\* The client asks to change f.
Contend(f) == contested' = IF LeftBehind(f) THEN contested \cup {f} ELSE contested \ {f}

\* It no longer relies on what f holds if it asks to replace that, or if it
\* could not be sure of it.
GivesUp(f, anew) == anew \/ f \in contested

\* Somebody else than a helper changes f.
Meddle(f) ==
  contested' = IF \E h \in Helpers : helper[h].attached /\ helper[h].file = f
                 THEN contested \cup {f} ELSE contested

-----------------------------------------------------------------------------
(* WriteFile.                                                              *)

WriteFile(f, content, overwrite) ==
  /\ Accepts("write")
  /\ Len(content) <= config.writeBytes
  /\ Launch(Place, [Exec("write", "open", f) EXCEPT !.data = content,
                                                    !.exclusive = ~ overwrite])
  /\ req' = [Unoccupied EXCEPT !.op = "write", !.pc = "wait", !.h = Place]
  /\ Contend(f)
  /\ stored' = IF GivesUp(f, overwrite) THEN [stored EXCEPT ![f] = Absent] ELSE stored
  /\ UNCHANGED <<scratch, jar, config, session, pager, exports, origin, acked, work,
                 crashes>>

\* A fault: a helper that was cut off counts as one that has succeeded.
WriteReturns_AnyStatus ==
  LET p == helper[req.h] IN
  /\ req.op = "write"
  /\ ExecFails(req.h)
  /\ stored' = [stored EXCEPT ![p.file] = p.data]
  /\ req' = Unoccupied
  /\ UNCHANGED <<scratch, jar, stdout, config, session, pager, exports, origin,
                 acked, contested, work, crashes>>

\* The client is told that its content is in the file.
WriteReturns ==
  LET p == helper[req.h] IN
  /\ req.op = "write"
  /\ \/ Exits(req.h, "done") /\ stored' = [stored EXCEPT ![p.file] = p.data]
     \/ ExecFails(req.h) /\ UNCHANGED stored
  /\ req' = Unoccupied
  /\ UNCHANGED <<scratch, jar, stdout, config, session, pager, exports, origin,
                 acked, contested, work, crashes>>

-----------------------------------------------------------------------------
(* ReadFile.  The client reads a file page by page, in one encoding, from   *)
(* where the pages it has end, until a page says that nothing follows.     *)

\* What the client gets of the bytes of a page: all of them in base64; as
\* text, U+FFFD for each byte that is not part of a whole character in it.
InCharacter(bytes, i) == \E j \in 1 .. i, k \in i .. Len(bytes) : SubSeq(bytes, j, k) \in Runes

Carried(encoding, bytes) ==
  IF encoding = "base64" THEN bytes
  ELSE [i \in 1 .. Len(bytes) |-> IF InCharacter(bytes, i) THEN bytes[i] ELSE Replacement]

\* No page says how many bytes it was made of: the client knows where the next
\* one begins as long as nothing was replaced, and starts over otherwise.
Whole(text) == \A i \in 1 .. Len(text) : text[i] # Replacement

ReadFile(p, bytes, encoding) ==
  LET cleaned == CleanContainerPath(p)
      f == IF Strict(cleaned) THEN RelativeParts(cleaned) ELSE Absent IN
  /\ Accepts("read")
  /\ Accepted(p)
  /\ pager' = IF pager.file = f /\ pager.encoding = encoding /\ pager.more /\ Whole(pager.got)
                THEN pager
                ELSE [NothingRead EXCEPT !.file = f, !.encoding = encoding, !.more = TRUE]
  /\ Launch(Place, Exec("stat", "open", f))
  /\ req' = [Unoccupied EXCEPT !.op = "stat", !.pc = "wait", !.h = Place,
                               !.bytes = bytes, !.path = p]
  /\ UNCHANGED <<scratch, jar, config, session, exports, origin, stored, acked,
                 contested, work, crashes>>

ReadRefused(p) ==
  /\ Accepts("read")
  /\ ~ Accepted(p)
  /\ req' = [Unoccupied EXCEPT !.op = "read", !.pc = "refused", !.path = p]
  /\ UNCHANGED <<inside, config, session, outside, work, crashes>>

Refuse ==
  /\ req.pc = "refused"
  /\ req' = Unoccupied
  /\ UNCHANGED <<inside, config, session, outside, work, crashes>>

\* The size that the line says; a line cut at the output limit says none.
SizeIn(p) == IF StatLine <= ExecOutputLimit(config.outputBytes) THEN p.pos ELSE 0

\* The second execution reads.  (A session that is gone by then ends the
\* controller, as LabEngine shows.)
StatReturns ==
  LET p == helper[req.h]
      from == Len(pager.got) IN
  /\ req.op = "stat"
  /\ \/ /\ p.pc = "done"
        /\ Launch(req.h, [Exec("read", "open", p.file) EXCEPT
                            !.pos = from,
                            !.from = from,
                            !.upto = from + ReadSize(config, req.bytes),
                            !.limit = ExecOutputLimit(config.outputBytes)])
        /\ req' = [req EXCEPT !.op = "read", !.bytes = SizeIn(p)]
     \/ /\ ExecFails(req.h)
        /\ req' = Unoccupied
        /\ UNCHANGED stdout
  /\ UNCHANGED <<scratch, jar, config, session, outside, work, crashes>>

\* A fault: a page that ends with the file says that more follows.
Truncated_AtEnd(from, kept, size) == from + Len(kept) <= size

\* isTruncated compares what came through with the size before.
Truncated(from, kept, size) == from + Len(kept) < size

ReadReturns ==
  /\ req.op = "read" /\ req.pc = "wait"
  /\ \/ /\ Exits(req.h, "done")
        /\ pager' = IF pager = NothingRead THEN pager ELSE [pager EXCEPT
             !.got = @ \o Carried(pager.encoding, stdout.kept),
             !.start = Len(pager.got),
             !.more = Truncated(helper[req.h].from, stdout.kept, req.bytes),
             !.answered = TRUE]
     \/ ExecFails(req.h) /\ UNCHANGED pager
  /\ stdout' = EmptyBuffer
  /\ req' = Unoccupied
  /\ UNCHANGED <<scratch, jar, config, session, exports, origin, stored, acked,
                 contested, work, crashes>>

-----------------------------------------------------------------------------
(* ExportFile.  Its temporary file, whose name nobody else uses, may stay   *)
(* behind: the errors of removing it are ignored.                          *)

ExportFile(d) ==
  /\ Accepts("export")
  /\ config.allowExport
  /\ req' = [Unoccupied EXCEPT !.op = "export", !.pc = "lease", !.dest = d]
  /\ UNCHANGED <<inside, config, session, outside, work, crashes>>

\* The sandbox may be gone, or about to go: no lease.
ExportLease(f) ==
  /\ req.op = "export" /\ req.pc = "lease"
  /\ \/ /\ session.up /\ Vacant # {}
        /\ Launch(Place, Exec("export", "open", f))
        /\ req' = [req EXCEPT !.pc = "wait", !.h = Place]
        /\ UNCHANGED <<scratch, jar>>
     \/ /\ req' = Unoccupied
        /\ UNCHANGED inside
  /\ UNCHANGED <<config, session, outside, work, crashes>>

\* A fault: whatever has come is published.
ExportStreamed_AnyStatus ==
  LET p == helper[req.h] IN
  /\ req.op = "export" /\ req.pc = "wait"
  /\ Exits(req.h, "done") \/ ExecFails(req.h)
  /\ req' = [req EXCEPT !.pc = "publish", !.h = Absent,
                        !.original = IF p.alone THEN scratch[p.file] ELSE Absent]
  /\ UNCHANGED <<scratch, jar, stdout, config, session, outside, work, crashes>>

\* All of the file has come, or what has come is thrown away.
ExportStreamed ==
  LET p == helper[req.h] IN
  /\ req.op = "export" /\ req.pc = "wait"
  /\ \/ /\ Exits(req.h, "done")
        /\ req' = [req EXCEPT !.pc = "publish", !.h = Absent,
                              !.original = IF p.alone THEN scratch[p.file] ELSE Absent]
        /\ UNCHANGED stdout
     \/ /\ ExecFails(req.h)
        /\ stdout' = EmptyBuffer
        /\ req' = Unoccupied
  /\ UNCHANGED <<scratch, jar, config, session, outside, work, crashes>>

\* How an export compares with the file it was made of.
Compared(content, original) ==
  IF original = Absent THEN "of a file that changed"
  ELSE IF content = original THEN "whole"
  ELSE "partial"

\* The rename replaces an earlier export of that name, or fails.  What the host
\* could not write is not noticed: the errors of Sync and Close are ignored.
Publish ==
  /\ req.pc = "publish"
  /\ \/ exports' = [exports EXCEPT ![req.dest] = Compared(stdout.kept, req.original)]
     \/ exports' = [exports EXCEPT ![req.dest] = "not on the disk"]
     \/ UNCHANGED exports
  /\ stdout' = EmptyBuffer
  /\ req' = Unoccupied
  /\ UNCHANGED <<scratch, jar, helper, config, session, pager, origin, stored, acked,
                 contested, work, crashes>>

-----------------------------------------------------------------------------
(* HTTPRequest.                                                            *)

\* Saving without loading the same file replaces what it holds.
HTTPRequest(load, save) ==
  /\ Accepts("http")
  /\ Launch(Place, [Exec("http", "load", save) EXCEPT !.load = load])
  /\ req' = [Unoccupied EXCEPT !.op = "http", !.pc = "wait", !.h = Place]
  /\ IF save = Absent THEN UNCHANGED <<acked, contested>>
     ELSE /\ Contend(save)
          /\ acked' = IF GivesUp(save, load # save) THEN [acked EXCEPT ![save] = {}] ELSE acked
  /\ UNCHANGED <<scratch, jar, config, session, pager, exports, origin, stored, work,
                 crashes>>

\* The document is parsed whatever the exit status was; one that is cut at
\* the output limit cannot be, although its cookies are saved.
HTTPReturns ==
  LET p == helper[req.h] IN
  /\ req.op = "http"
  /\ \/ /\ Exits(req.h, "done")
        /\ acked' = IF p.file = Absent THEN acked ELSE [acked EXCEPT ![p.file] = @ \cup p.fresh]
     \/ Exits(req.h, "done") /\ UNCHANGED acked
     \/ ExecFails(req.h) /\ UNCHANGED acked
  /\ req' = Unoccupied
  /\ UNCHANGED <<scratch, jar, stdout, config, session, pager, exports, origin,
                 stored, contested, work, crashes>>

\* The name sandbox-http connects to in place of localhost.
Dialled == IF config.gatewayName = "" THEN "host.docker.internal" ELSE config.gatewayName

-----------------------------------------------------------------------------
(* The session.                                                            *)

Started(outbound, gateway) ==
  [up |-> TRUE, outbound |-> outbound, gateway |-> gateway,
   hosts |-> Grants(config, outbound, gateway).hosts, under |-> config]

\* The grants that a request which asks for these gets, if it is not denied.
Start(o, g) ==
  /\ ~ Denied(o, config.outbound) /\ ~ Denied(g, config.gateway)
  /\ session' = Started(ResolveNetworkPolicy(o, config.outbound),
                        ResolveNetworkPolicy(g, config.gateway))

StartSession(o, g) ==
  /\ Idle /\ ~ session.up
  /\ Start(o, g)
  /\ origin' = session'
  /\ UNCHANGED <<inside, config, req, pager, exports, stored, acked, contested, work,
                 crashes>>

\* Runner and volume are removed, with all that is in them.
Empty ==
  /\ scratch' = [f \in Scratchfiles |-> Absent]
  /\ jar' = [f \in CookieFiles |-> {}]
  /\ helper' = [h \in Helpers |-> None]
  /\ stored' = [f \in Scratchfiles |-> Absent]
  /\ acked' = [f \in CookieFiles |-> {}]
  /\ contested' = {}
  /\ pager' = NothingRead

\* On request, or by the reaper once no lease is held.
StopSession ==
  /\ session.up
  /\ req.pc \notin {"wait", "down"}
  /\ Empty
  /\ session' = NoSandbox
  /\ UNCHANGED <<stdout, config, req, exports, origin, work, crashes>>

\* A fault: the new session asks for nothing in particular.
Again_Default(granted) == "default"

\* ResetSession asks for exactly what the old session was granted.
Again(granted) == IF granted THEN "on" ELSE "off"

\* The old sandbox goes first; the new one may be denied.
ResetSession ==
  LET o == Again(session.outbound)
      g == Again(session.gateway) IN
  /\ Idle /\ session.up /\ "reset" \in work
  /\ Empty
  /\ \/ Start(o, g)
     \/ /\ Denied(o, config.outbound) \/ Denied(g, config.gateway)
        /\ session' = NoSandbox
  /\ UNCHANGED <<stdout, config, req, exports, origin, work, crashes>>

-----------------------------------------------------------------------------
(* What else happens.                                                      *)

\* Whoever reads a file that changes starts over.
Reread(f) == pager' = IF pager.file = f THEN NothingRead ELSE pager

\* A step in the sandbox.  The client does not count on cookies that the
\* responses to its own requests let expire.
HelperActs(h) ==
  LET p == helper[h] IN
  /\ HelperStep(h)
  /\ IF scratch' # scratch THEN Reread(p.file) ELSE UNCHANGED pager
  /\ acked' = IF jar' # jar THEN [acked EXCEPT ![p.file] = @ \ p.expired] ELSE acked
  /\ UNCHANGED <<controller, exports, origin, stored, contested, work, crashes>>

\* A command of the agent replaces a file.
AgentWrites(f, content) ==
  /\ session.up /\ "agent" \in work
  /\ scratch' = [scratch EXCEPT ![f] = content]
  /\ helper' = Disturbed(f)
  /\ stored' = [stored EXCEPT ![f] = Absent]
  /\ Meddle(f)
  /\ Reread(f)
  /\ UNCHANGED <<jar, stdout, controller, exports, origin, acked, work, crashes>>

\* Or a cookie file, or damages it, or removes it.
AgentBakes(f, cookies) ==
  /\ session.up /\ "agent" \in work
  /\ jar' = [jar EXCEPT ![f] = cookies]
  /\ acked' = [acked EXCEPT ![f] = {}]
  /\ Meddle(f)
  /\ UNCHANGED <<scratch, helper, stdout, controller, pager, exports, origin, stored,
                 work, crashes>>

\* A fault: the helpers are taken to stay attached.
Crash_StaysAttached ==
  /\ crashes < MaxCrashes /\ req.pc # "down"
  /\ crashes' = crashes + 1
  /\ stdout' = EmptyBuffer
  /\ req' = [Unoccupied EXCEPT !.pc = "down"]
  /\ UNCHANGED <<scratch, jar, helper, config, session, outside, work>>

\* The controller dies, and its docker clients with it.
Crash ==
  /\ crashes < MaxCrashes /\ req.pc # "down"
  /\ crashes' = crashes + 1
  /\ helper' = [h \in Helpers |->
       IF helper[h].attached THEN CutOff(helper[h]) ELSE helper[h]]
  /\ stdout' = EmptyBuffer
  /\ req' = [Unoccupied EXCEPT !.pc = "down"]
  /\ UNCHANGED <<scratch, jar, config, session, outside, work>>

\* It is started again, with this or another configuration.
Restart ==
  /\ req.pc = "down"
  /\ config' \in Deployable(Deployments)
  /\ req' = Unoccupied
  /\ UNCHANGED <<inside, session, outside, work, crashes>>

-----------------------------------------------------------------------------
Init ==
  /\ scratch = [f \in Scratchfiles |-> Absent]
  /\ jar = [f \in CookieFiles |-> {}]
  /\ helper = [h \in Helpers |-> None]
  /\ stdout = EmptyBuffer
  /\ config \in Deployable(Deployments)
  /\ session = NoSandbox
  /\ req = Unoccupied
  /\ pager = NothingRead
  /\ exports = [d \in Dests |-> Absent]
  /\ work \in Workloads
  /\ crashes = 0
  /\ origin = NoSandbox
  /\ stored = [f \in Scratchfiles |-> Absent]
  /\ acked = [f \in CookieFiles |-> {}]
  /\ contested = {}

\* Bound: the permissions are asked for where they matter.
Asked == IF "reset" \in work THEN Wishes ELSE {"default"}

\* Bound: so are the sizes of pages, the encodings, exclusive writes, and the
\* spellings of a path.
Sizes == IF work \cap {"write", "paths"} = {} THEN 0 .. 1 ELSE {0}

Encodings == IF work \cap {"write", "paths"} = {} THEN {"utf-8", "base64"} ELSE {"utf-8"}

Overwrites == IF work \cap {"export", "agent"} # {} THEN {TRUE} ELSE BOOLEAN

Plain(f) == [rooted |-> TRUE, parts |-> <<ScratchRoot>> \o f]

Spelled == IF "paths" \in work THEN Spellings ELSE {Plain(f) : f \in Scratchfiles}

Request ==
  \/ \E f \in Scratchfiles, p \in Payloads, overwrite \in Overwrites : WriteFile(f, p, overwrite)
  \/ \E p \in Spelled :
       \/ \E n \in Sizes, encoding \in Encodings : ReadFile(p, n, encoding)
       \/ ReadRefused(p)
  \/ \E d \in Dests : ExportFile(d)
  \/ \E load, save \in CookieFiles \cup {Absent} : HTTPRequest(load, save)
  \/ \E o, g \in Asked : StartSession(o, g)
  \/ ResetSession

\* What the request loop does by itself.
Work ==
  \/ WriteReturns \/ StatReturns \/ ReadReturns \/ Refuse
  \/ \E f \in Scratchfiles : ExportLease(f)
  \/ ExportStreamed \/ Publish
  \/ HTTPReturns
  \/ Restart

Next ==
  \/ Request
  \/ Work
  \/ \E h \in Helpers : HelperActs(h)
  \/ \E f \in Scratchfiles, p \in Payloads : AgentWrites(f, p)
  \/ \E f \in CookieFiles, cookies \in SUBSET Cookies : AgentBakes(f, cookies)
  \/ StopSession
  \/ Crash

Spec == Init /\ [][Next]_vars

(***************************************************************************)
(* The loop goes on, and the deadlines of the docker clients are kept by   *)
(* the host; nothing is assumed of the helpers in the sandbox.             *)
(***************************************************************************)
FairSpec == Spec /\ WF_vars(Work)

-----------------------------------------------------------------------------
(* Properties.                                                             *)

\* Every variable has its type; the helper a request waits for is attached, and
\* no other is.
TransfersTypeOK ==
  /\ \A f \in Scratchfiles : {scratch[f], stored[f]} \subseteq Seq(Bytes) \cup {Absent}
  /\ jar \in [CookieFiles -> SUBSET Cookies]
  /\ acked \in [CookieFiles -> SUBSET Cookies]
  /\ contested \subseteq Scratchfiles \cup CookieFiles
  /\ \A h \in Helpers :
       /\ helper[h].op \in HelperOps /\ helper[h].pc \in HelperSteps
       /\ helper[h].attached <=> (req.pc = "wait" /\ req.h = h)
  /\ stdout.kept \in Seq(Bytes) /\ stdout.truncated \in BOOLEAN
  /\ Valid(config)
  /\ work \in Workloads
  /\ crashes \in 0 .. MaxCrashes

\* What a successful write left in a file stays there whole until the client
\* asks to overwrite it or the agent does: no step of any helper undoes it, be
\* it cut off, refused or failed, later.  Excepted is a write that began while
\* another one, given up before, was still going on in the same file, or in
\* which the agent wrote meanwhile: that one may be undone although the client
\* was told that it has succeeded.
StoredStays ==
  \A f \in Scratchfiles \ contested : stored[f] # Absent => scratch[f] = stored[f]

\* The controller keeps exactly the beginning of what an undisturbed reader
\* has sent it, and says whether something is missing.
OutputExact ==
  \A h \in Helpers :
    LET p == helper[h] IN
    p.attached /\ p.op \in {"read", "export"} /\ p.pc = "copy" /\ p.alone
      => Holds(stdout, p.limit, SubSeq(scratch[p.file], p.from + 1, p.pos))

\* Whoever follows a file page by page while nobody changes it gets its
\* beginning, byte for byte in base64, and as text up to the characters that
\* are not whole in the last page, and is told that more follows exactly when
\* it does, whatever the limits, as long as the line of a stat fits them, and
\* however many pages fail.
PagesAreWhole ==
  /\ pager.answered
  /\ \A c \in Deployable(Deployments) : StatLine <= ExecOutputLimit(c.outputBytes)
  =>
    LET content == scratch[pager.file]
        n == Len(pager.got) IN
    /\ pager.got = SubSeq(content, 1, pager.start)
                     \o Carried(pager.encoding, SubSeq(content, pager.start + 1, n))
    /\ pager.more <=> n < Len(content)

\* A published export is the whole file, if nobody changed it meanwhile and
\* the host could write what it was given, whatever execution or controller
\* was cut off on the way.
ExportsAreWhole == \A d \in Dests : exports[d] # "partial"

\* The cookies of every answered response that apply to its URL stay in the
\* file it was to save them to, whatever fails or is cut off between loading
\* the file and replacing it, until a response lets them expire, the client
\* asks to save there without loading, or the agent changes the file.
\* Excepted, as with a write, is a request that began while another one, given
\* up before, was still to save to the same file.
CookiesKept == \A f \in CookieFiles \ contested : acked[f] \subseteq jar[f]

\* No reset, under whatever configuration, gives a session more than it was
\* granted when it was started, or than its configuration allows.
GrantsNeverGrow ==
  session.up =>
    /\ session.outbound => origin.outbound /\ session.under.outbound
    /\ session.gateway => origin.gateway /\ session.under.gateway

\* As long as the configuration is the one of its start, a session that may
\* reach the host resolves the name its requests are sent to.
GatewayResolves ==
  session.up /\ session.gateway /\ session.under = config => Dialled \in session.hosts

\* However a path is spelled, the controller lets it pass if and only if it
\* denotes /scratch or something below it, and the helper, which checks the
\* cleaned path once more by other rules, then works on exactly that.
PathsConfined ==
  req.path # Absent =>
    IF req.pc = "refused"
      THEN Malformed(req.path) \/ ~ StartsWith(Denotes(req.path), <<ScratchRoot>>)
      ELSE /\ helper[req.h].file # Absent
           /\ <<ScratchRoot>> \o helper[req.h].file = Denotes(req.path)

\* However the defaults are configured, an execution or a session for which the
\* client chooses the time is limited, whatever it asks for.  (An export has 30
\* seconds, and file operations no more than 15, whatever is configured.)
TimeoutsBounded ==
  \A t \in -1 .. 3 :
    /\ ClampTimeout(config, t) \in 1 .. config.maximumTimeout
    /\ ClampTTL(config, t) <= config.maximumTTL

\* Every request returns, even when its helper hangs for ever.
RequestsEnd == req.pc # "idle" ~> req.pc = "idle"
=============================================================================
