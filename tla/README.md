# A verification model of AI-Security-Lab-Runner

`lab-runner` runs commands for an AI client in Docker sandboxes. Each sandbox
is a *session*: a record in memory and on disk, and three Docker resources (a
network, a scratch volume, a runner container) that live in a compose project
of their own. A session has a deadline. One controller process
(`lab-runner serve`) answers the client's requests one after another and runs a
reaper next to them that removes sessions that are late or whose cleanup failed.

This directory models the part of the program where order, failure and time
matter: the session manager with its execution leases, the engine that creates,
uses and destroys sandboxes over it, what goes into a sandbox and comes out of
it, and the request loop with the two files that record what was done.

## 1. Inventory

| component | state | operations | who calls it |
|---|---|---|---|
| session manager (`internal/session/session.go`) | map of records, a global and a per-session channel used as semaphores, one JSON file per session | create, get (expires on the way), update, list, list stale, transition, remove, begin stopping, acquire and release an execution lease; load at start | the engine only |
| lab engine (`internal/lab/engine.go`) | none of its own | run, start, exec, HTTP request, read, write, export, status, stop, reset, sweep of stale sessions | MCP server, CLI, reaper |
| docker client (`internal/docker/client.go`) | none; the Docker daemon's resources | compose up and down, inspect ownership, verify absence, exec | engine |
| MCP server (`internal/mcp`) | the transcript store | read a JSON-RPC line, call a tool, answer | stdin |
| transcript store (`internal/transcript`) | one JSONL file per session | append, read after a cursor | MCP server |
| audit log (`internal/audit`) | one JSONL file | log, summary of a session | engine, CLI |
| output bounding (`internal/output`) | a buffer per stream | write up to a limit | docker client |
| path validation (`internal/pathsafe`) | none | clean and contain paths | engine |
| runner helpers (`runner/`) | the scratch volume | stat, read, write, export, HTTP with a cookie file | run inside the container |
| configuration, policy (`internal/config`, `internal/security`, `internal/validation`) | read once | load, override, validate | start of the process |
| controller (`cmd/lab-runner`) | none | wires the request loop and the reaper to one engine | operating system |

How they interact. The request loop and the reaper are two goroutines over one
engine. The engine takes no lock of its own: every call to the manager is a
critical section, every Docker call is slow and can fail, and between any two
of them the other goroutine may run, a deadline may pass, or the process may
die. What survives a death is the set of session files and what Docker holds.

What is hard, and what would make each component correct:

- **Leases.** `AcquireExecLease` checks the session under the lock, leaves the
  lock to wait for two channels, and checks again. Four paths give back what
  was reserved. Correct: the count in the record is exact, the channels hold
  exactly the tokens that are owned, a command is admitted only to a session
  that exists and is within its deadline at that instant, and every waiting
  request is answered.
- **Records and files.** Most saves ignore their error; removal deletes the
  directory first and the record then. Correct: the disk never knows a session
  the controller has forgotten, and a record is never removed under a request
  that is still counted in it.
- **Sandboxes.** Creation and removal are sequences of fallible steps.
  Correct: a Docker resource never outlives the record that leads a cleanup to
  it; a running command keeps its sandbox; what is reported as removed is
  removed; what is late is reclaimed in the end.
- **Concurrency of reaper and requests.** Correct: the limit on active
  sessions holds, and the reaper never touches a healthy session.
- **Transcript and audit files.** Appends whose errors are ignored, around a
  call that may die at any step. Correct: what is answered is on record, a
  cursor never skips or repeats, and reading ends. (A damaged line does take
  the transcript away, and stops the reader of the audit log: section 3.)
- **Executions.** Files go in and out through helper processes in the
  container, over streams that are cut at limits. The host's deadline kills the
  docker client and leaves the helper running. Correct: what a client was told
  it stored is stored, whole, and stays; what it reads page by page joins up;
  an export is whole or absent; cookies of an answered response are kept; and
  every request returns, whatever its helper does. (A helper left behind can
  undo a later request to its file, and a page of text loses a character that
  its end cuts: section 3.)
- **Configuration.** Defaults, file and environment, read anew at every start,
  while sandboxes of an earlier configuration may still be there. Correct: no
  session gets more than it was granted, and every limit is one.
- **Paths.** Cleaned and checked by the controller, then again, by other rules,
  in the container. Correct: the two agree on what is below `/scratch`.

The hazards, each at its line, are in `PROJECT.json` with the properties that
watch them, or why none does.

## 2. Plan

Done:

1. `SessionManager`, with `ExecLeases`, the abstract promise it implements;
   its invariants and the refinement proved.
2. `LabEngine` extends `SessionManager`, so that every step of the engine is
   made of whole methods of the manager, with `SandboxLifecycle`, the abstract
   promise about what it makes in Docker; that it implements both, and its own
   safety invariants, proved (`LabEngineProofs`, `SandboxProofs`).
3. `MCPServer`: the request loop with the order of its transcript events, the
   transcript's cursors, the audit log; its safety invariants proved
   (`MCPServerProofs`).
4. `Transfers` over `Scratch`, `BoundedWriter`, `Paths` and `Policy`: the
   content of a sandbox and its way in and out; its safety invariants proved
   (`TransfersProofs`), and what both path checks accept, for paths of any
   length (`PathsProofs`).

Left:

5. The decoding of tool arguments and the host's paths with their symbolic
   links. `VerifyResourcesAbsent` stays one step: only a session whose deadline
   passes while it starts can grow during a cleanup, and the run `ttl_startup`
   shows that case already.

## 3. Modules

| module | models |
|---|---|
| `ExecLeases` | abstract: who runs a command where; admit, finish, expire, remove, crash |
| `SessionManager` | `session.go` |
| `SessionManagerProofs` | theorems about it: the invariants |
| `SessionManagerRefinement` | theorem about it: it implements `ExecLeases` |
| `LabEngine` | `engine.go`, `client.go`, the two goroutines of `cmdServe` |
| `SandboxLifecycle` | abstract: what exists in Docker for which known session; begin, build, dismantle, forget, restart |
| `LabEngineProofs`, `SandboxProofs` | theorems about it; that it implements `SessionManager` and `SandboxLifecycle` |
| `MCPServer` | `server.go`, `transcript.go`, `audit.go` |
| `MCPServerProofs` | theorems about it |
| `BoundedWriter` | `bounded_writer.go` |
| `Paths` | `pathsafe/container.go` and the helpers' `scratchfs.go` |
| `PathsProofs` | theorems about the two path checks |
| `Policy` | `config.go`, and what a session is granted under it |
| `Scratch` | the processes of `sandbox-fs` and `sandbox-http` in a container |
| `Transfers` | `engine.go` over these: write, read, export, HTTP, reset |
| `TransfersProofs` | theorems about it |
| `Induction` | least numbers and functions by recursion, for the proofs about logs and paths |
| `MCSessionManager`, `MCLabEngine`, `MCTransfers` | symmetry sets, deployments, workloads and paths for TLC |

### SessionManager

A record keeps what the control flow depends on: mode, status,
`ActiveExecCount`, and whether the ids of the Docker resources were recorded
(`snap`). `sessions` is the map in memory, `saved` the files. `late` is the set
of sessions whose `ExpiresAt` has passed; `DeadlinePasses` adds to it at any
moment, and `expireSessionLocked` appears as `Aged` and `Observe` wherever the
code calls it. The two kinds of channels are counted (`globalSem`,
`sessionSems`); `lease[c]` is the place of goroutine `c` in `AcquireExecLease`
or in the release function. Every critical section is one action, and so is
every channel operation:

    idle -Reserve-> global -AcquireGlobal-> session -AcquireSession-> recheck
    recheck -Admit-> held -Release-> freeGlobal -FreeGlobal-> uncount -Uncount-> idle
    recheck -Refuse-> dropSession -DropSession-> dropGlobal -DropGlobal-> idle
    global -CancelAtGlobal-> uncount          session -CancelAtSession-> freeGlobal

`Save` is `saveSessionLocked`: with `DiskMayFail` it may leave the old file (or
an earlier save of the same critical section). `Crash` is the death of the
process and `NewManager` on what the disk holds; `leftover` is a history
variable: the counts that dead goroutines left in the files.
Any number of goroutines may call any method in any order, which is more than
the engine does. Identifiers are random 128-bit values in the code; here they
are never issued twice.

### ExecLeases

What the manager promises, with no channel, count or file: a lease is granted
only in a session that is neither expired nor gone, within both limits; it ends
at any time; no record is removed under a running command.
`SessionManager!ImplementsExecLeases` maps `running` to the goroutines at
`held`, `expired` to `late`, and `gone` to the issued identifiers without a
record.

### LabEngine

`proc[p]` is what a goroutine is doing (`op`), where it is (`pc`), on which
session, and the copy of `snap` its cleanup read at the beginning. The clients'
goroutines (`Callers`) make requests; `Reaper` sweeps. `present[s]` is what
Docker holds for a session, in the order docker compose creates it. An action
is one call of the engine to the manager or to Docker, conjoined with the
manager's own action:

- startup: `BeginStartup`, `Transit`, `ComposeUp` (one step per resource, then
  the look afterwards), `ComposeUpFails`, `RecordReady`, `CommandReturns`;
- `rollbackStartup`: `RollbackLookup`, `RollbackDown`, `RollbackVerify`,
  `RollbackRemove`, `RollbackFails`;
- `cleanupSession`: `Lookup`, `Inspect`, `InspectFails`, `Mark`, `Drain`,
  `DrainTimesOut`, `ComposeDown`, `ComposeDownFails`, `Verify`, `VerifyFails`,
  `Remove`, `Failed`;
- executions under a lease (`Exec`, and in the same way writes, exports and
  HTTP requests in a session; `read` and `stat` are the two of `ReadFile`):
  `BeginExec`, `WaitForLease`, `LeaseDenied`, `RunLeased`, `CommandEnds`,
  `ReleaseLease`, `ReadAgain`; after an error, which a lease or Docker may
  give, `ReadFile` panics (`Erred`);
- `ResetSession`: a stop, then `Restart`;
- the reaper: `Sweep`, `NextCandidate`, then a cleanup;
- the world: `Deadline`, `ControllerDies`. A dying controller takes its docker
  compose up with it or leaves it to finish.

Docker itself is external: the model has what `client.go` relies on. A failing
`docker compose down` may have removed any part, and its error may be lost,
because `ComposeDown` then looks for resources of the session `""`.
`claims` is a history variable: the sessions a caller was told are entirely
removed.

`TTLCoversWork` is the assumption that a deadline leaves time for a startup and
for the command of an ephemeral sandbox. The passing runs make it; the runs
`ttl_ephemeral` and `ttl_startup` drop it.

### SandboxLifecycle

What the engine promises about Docker, with no goroutine, step or failing call:
a resource is made for a known session only, a session is forgotten when
nothing of it is left, and it never comes back. `LabEngine!ImplementsLifecycle`
maps `given` to the identifiers issued, `known` to the sessions with a record,
and `things` to what Docker holds. `Restart` is permissive: a docker compose up
that outlives its controller may complete a sandbox, and a session without
resources may be missing afterwards (its file was never written, or a removal
had deleted it).

### MCPServer

One session's transcript and the audit log are sequences of events and of the
marks between them: `Newline`, and `Garbled` for bytes that decode as no event.
`Record` (`Store.Append`) and `Audit` (`Logger.Log`) append an event and a
newline, or go wrong: they leave nothing, a prefix, the event without its
newline, or (transcript only) a line that is too long to be read again, which
JSON escaping of binary output can produce. Both errors are ignored, as in the
code. `call` is the place of the request loop in `handleToolCall`:

    idle -BeginCall-> run -Run-> record -RecordEnd-> reply -Reply-> idle
    idle -GetLogs-> page -SendPage-> idle
    idle -GetAuditSummary-> summary -SendSummary-> idle

`fate[o]` is what became of tool call `o`; `Start` is the call that creates the
session, which is recorded only at its end because nobody knows the session
before, and `Exports` are the calls of `sandbox_export_file`, which are recorded
but not audited: `ExportFile` is the one such operation that never calls the
audit logger. (`sandbox_status` and the two that read the files are neither
recorded nor audited.) The client is external: it passes on the `next_cursor` it was last
given, and `received` is all it was sent. `ReaperLogs` is the reaper's one
event, written under the same mutex that a summary holds while it reads.
`broken` is a history variable: the calls with a write that went wrong, or
that died with the server.

The two readers take damage differently. `ReadSession` decodes line by line and
refuses the whole file when one line is not exactly one event (`Decodable`), so
a missing newline alone makes the next append fatal. `Logged`, what the
transcript says, is `Decoded(transcript)`, built event by event as the scanner
loop builds its slice. `GetSummaryForSession`
reads a stream of values and does not need the newlines, but on garbled bytes
its loop never ends, with the mutex held: `SendSummary` is never enabled, and
neither is `ReaperLogs`. No sentence of the repository promises otherwise, so
the two liveness properties make these exceptions explicitly, and no run
expects a violation.

### BoundedWriter, Paths and Policy

Three pure modules. `BufferWrite` is `BoundedWriter.Write`, and `Holds` what its
result shall be, over the whole of what was written. A path is a sequence of
components, rooted or not; among the components are `..` and a name that only
begins like `/scratch`. (The controller turns backslashes into separators
before anything else, so that a component has none.) `Clean` enters
one component after the other (`Enter`). `Accepted` is the
controller's check, `Strict` the helper's, and `Denotes` what the spelling
means. A deployment is a
configuration file and an environment; `Merged` lays them over the defaults,
`Valid` is `Validate`, and `Grants` what `GenerateComposeYAML` puts into the
compose file for it.

### Scratch

`scratch` is the content of the files, `jar` the cookies in each cookie file;
a cookie file that is missing has none, and neither has one that is no JSON.
`helper[h]` is a process of `docker exec`: what it was asked for, how far it
is, whether the docker client still waits for it (`attached`), and whether
nobody else has changed its file since it opened it (`alone`, a history
variable). A writer truncates its file, or finds that it exists, and then
copies what comes, some bytes at a time; a reader sends some bytes at a time
to the buffer of the controller (`stdout`). An HTTP request loads cookies if it
was given a file to load them from, exchanges, and, if it was given a file to
save them to, which may be another one, writes a temporary file and renames it.
What it saves is what the jar has for the requested URL: what it loaded, less
what the responses let expire, and those of the new cookies that apply there
(`fresh`; the others are lost, and no property speaks of them). Every process
may fail at any step. `CutOff` is the death of its docker client: what only
reads is forgotten, a writer goes on with the input that reached it (and then
takes the end of its input for the end of the content), a request goes on to
its end.

### Transfers

The request loop (`req`) over these processes: an operation is a launch, a
wait, and a return, and between them anything may happen in the sandbox.
`ExecFails` is a non-zero status or the deadline; `ReadFile` is two executions,
of which the second begins where the client's pages end. `pager` is the client:
it asks for the next page of a file until one says that nothing follows, and
starts over when the file was changed. It gets the bytes of a page in base64, or
as text, where every byte that is not part of a whole character in that page is
replaced by U+FFFD (`Carried`; `Runes` are the characters). No page says how
many bytes it was made of, so a client starts over, too, when something was
replaced (`Whole`). `ExportFile` streams into the temporary file, whose content
is `stdout` under no limit, and renames it to one of `Dests`; the errors of
removing the temporary file, of Sync and of Close are ignored, so that it may
stay behind, and `Publish` may publish what the host did not write. `Crash`
leaves the helpers detached, and `Restart` takes any deployable configuration.
`StartSession` and `ResetSession` keep in `session` what the compose file says.

History: `origin` is what a session was granted at first; `stored` what a write
promised, until the client asks to overwrite it or the agent does; `acked` the
cookies of answered responses, until a response lets them expire, the client
saves without loading them, or the agent changes the file. No step of a helper
takes anything from `stored`, and none but the expiry from `acked`. There is one
case in which the code does not keep these promises: an execution that was given
up goes on (`LeftBehind`), and a request to the same file that begins before it
has ended may be answered and then be undone. `contested` are the files whose
last request began like that, or was met by the agent (`Meddle`); the
properties except them until the next request that begins undisturbed, and
nothing else.
A session is one sandbox here; how it is created and removed is `LabEngine`'s.

Operators named `X_Something` next to a definition `X`, with a comment that
begins "A fault", are not used by any specification: each is the definition as
a plausible mistake in the code would have it, kept to show that the property
it is paired with in `PROJECT.json` notices.

## 4. Runs

| run | instance | checks |
|---|---|---|
| `lease_safety` | 1 session, 3 goroutines, slots 1 and 2, failing disk, 2 crashes, symmetry | `TypeOK`, `LeasedSessionExists`, `LeaseAccounting`, `NoResurrection`, `ImplementsExecLeases` |
| `lease_live` | 1 session, 3 goroutines, slots 1 and 2, 1 crash, fairness | `SlotAccounting`, `RequestSettles`, `DrainEnds` |
| `serve_race` | 2 sessions, client and reaper, symmetry | `LabTypeOK`, `ActiveWithinLimit`, `ReaperSparesHealthy` |
| `serve_disk` | 1 session, failing disk, 1 crash | `RecordOutlivesResources`, `ClaimsAreTrue`, `ImplementsLifecycle` |
| `serve` | 1 session, every operation, 2 crashes, fairness | `CommandsKeepSandbox`, `ExpiredReclaimed`, `RequestsReturn` |
| `transfers` | 1 file, 2 contents, 1 cookie file, 1 cookie, 2 helpers, 3 deployments, 8 workloads, 1 crash, fairness | `TransfersTypeOK`, `StoredStays`, `OutputExact`, `PagesAreWhole`, `ExportsAreWhole`, `CookiesKept`, `GrantsNeverGrow`, `GatewayResolves`, `TimeoutsBounded`, `PathsConfined`, `RequestsEnd` |
| `mcp_logs` | 3 calls, one of them an export, pages of 1 or 2 events, 1 failing write, 1 crash, fairness | `MCPTypeOK`, `FollowsContiguously`, `AnsweredOnRecord`, `CallsBracketed`, `RequestsAnswered`, `FollowerCatchesUp` |

Why these bounds. Two sessions are needed for a stale list of the reaper and for
a reset that starts a second session; three goroutines are needed for one to
hold, one to wait at each channel. Several sessions contend for the global slot
only in `serve_race`; the safety of the leases is proved for any number of them
(section 5). Two crashes let a count inherited from one restart meet another. The
limits are at their smallest, where they bind. One client goroutine is not a
bound: `Serve` handles one request at a time. `CHECK_DEADLOCK` is off because
every run may stop: identifiers are used up, or every session is gone.

In `mcp_logs` three calls make up to five events, so that pages of at most two
are cut, the first read can miss older events, and a damaged line can have
others before and after it; a single failing write is enough for each kind of
damage.

In `transfers` one file is enough: a request is disturbed only by what happens
to its own file. Two helpers are the one a request waits for and one that an
earlier request left behind; the theorems are for any number of them. Contents of
one and two bytes under an output limit of one byte are cut, end exactly at the
limit, or fit; the two bytes are one character, so that a page can cut it. One
cookie file is loaded, saved to, both or neither, and one cookie is enough for
one that was answered to be lost; `StatLine`, the length of a stat's line, is
scaled with them. The deployments are a generous one, a tight one with empty and useless entries, and
one that `Validate` refuses. `Workloads` bounds what is mixed in one behaviour:
each puts together the requests that meet in the same file, cookies or grants,
and `Asked`, `Sizes`, `Encodings`, `Overwrites` and `Spelled` the ways to ask where
they matter; `paths` asks for every spelling of up to three components, which reaches `..`
above the root, through `/scratch`, and back into it. After a crash any of the
deployments may be in force. The output of a helper that was cut off goes to
nobody, so a reader is forgotten then.

Symmetry is used in runs without liveness properties only: identifiers are interchangeable
because they are random, goroutines because they run the same code. (The code
sorts the reaper's candidates by their random ids; the model takes them in any
order.)

Fairness. `Fairness` of `SessionManager`: a goroutine that is not blocked runs,
and a command ends by its timeout (weak fairness of a goroutine's own steps, not
of cancellations, nor of calls); Go's channels serve blocked goroutines in the
order they came, so a slot that is freed again and again reaches each waiter
(strong fairness of the two acquisitions). `LabFairness`: goroutines and the
reaper's ticker go on (weak), no client has to ask for anything, and Docker,
when the reaper asks about one session again and again, answers well again and
again (strong, for inspection, down and verification by the reaper only).
Because of the finding below, `ExpiredReclaimed` and `RequestsReturn` except a
controller that a read has ended.

`FairSpec` of `MCPServer`: the loop goes on (weak), and, because requests are
lines of stdin that are read in order, a client that polls again and again is
served again and again (strong). `FairSpec` of `Transfers`: the request loop
goes on (weak); its deadlines are kept by the host. Nothing is assumed of the
helpers in the sandbox, which may hang for ever.

### Disagreements found

Five runs expect a violation; each checks one sentence of the repository
against what the code does.

| run | the code | the sentence |
|---|---|---|
| `interrupted_startup` | the volume's recorded name is not the one docker compose gives it until startup has ended, so the cleanup of an interrupted startup halts every time | `session.go:394` "Both persistent and interrupted ephemeral sessions can be reclaimed." |
| `ttl_ephemeral` | commands of ephemeral sandboxes hold no lease; the reaper takes the sandbox away at the deadline | `CLI_REFERENCE.md:77` "Commands already admitted before expiry are allowed to finish" |
| `ttl_startup` | a deadline during docker compose up: the record is removed, the resources come up afterwards, the start returns success or leaves them | `engine.go:1093` "Remove session state ONLY when all owned resources are confirmed absent" |
| `http_report` | the report of an ephemeral HTTP request says "removed" whatever its cleanup returned | `engine.go:936` "A failed result must never be described as cleaned." |
| `read_denied` | a denied lease, or a docker exec that cannot be run, makes `ReadFile` dereference nil; the controller ends | `CLI_REFERENCE.md:75` "scratch file operations are rejected" |

`ExpiredReclaimed` is the part of the first that does hold: sessions whose
startup was recorded, and that inherit no count from a dead controller (which
the documentation says nothing clears), are reclaimed.

Seen while modelling, without a run:

- `SECURITY_MODEL.md:6` says that executions are wrapped with a timeout in the
  container. `ExecInRunner` does so for commands; the helpers of file and HTTP
  requests run without, and go on when the host's deadline kills their docker
  client. `Scratch` models them so.
- `sandbox-fs` recognises an existing file with `os.IsExist` on a wrapped error,
  which never matches (`sandbox-fs/main.go:125`): it exits with 2, and the
  branch of `engine.go` for status 17 is dead.
- `maximum_export_bytes` bounds what is kept of the error output of an export,
  not the export.
- `WriteFile` ignores its `encoding`.
- `engine.go:828` speaks of an exclusively created destination; it is the
  temporary file that is created so, and the rename replaces an earlier export.
- A successful export leaves no event in the audit log.
- A file read as text (the default) cannot be put together from its pages when
  one of them ends inside a character: it comes as U+FFFD, and the answer has no
  count of bytes from which to go on.
- A write or an HTTP request that succeeds while one that was given up before is
  still at work on the same file may be undone afterwards.
- `sandbox-http` saves only the cookies that apply to the requested URL: those
  which a redirect to another host or path has set are lost. A request that
  saves without loading replaces the file, and a file of cookies that does not
  parse counts as empty, and is then replaced.
- The errors of removing the temporary file of an export, and those of writing
  it out (Sync, Close), are ignored.
- `cmdDoctor` reads the exit code of a run that failed, which is nil.
- A write of no bytes to a full `BoundedWriter` would set the flag although
  nothing is missing; `os/exec` never makes one.

## 5. Proofs

`SessionManagerProofs` proves, for any finite set of goroutines, any set of
identifiers and any limits, from `LimitsAssumption` (the limits are positive)
and `NamesAssumption` (the null value is no record and no identifier, the
goroutines are finitely many):

- `Invariance`: `Spec => []IInv`, and from it
- `TypeCorrect`, `LeasesCounted`, `SlotsCounted`, `RecordsStay`,
  `NothingResurrected`: `Spec => []P` for `TypeOK`, `LeaseAccounting`,
  `SlotAccounting`, `LeasedSessionExists`, `NoResurrection`.

`IInv` is the conjunction of these with `Provenance` (nothing exists or is
counted under an identifier that was not issued). None of the five is inductive
alone. The count must be exact for a removal at count zero to spare every
counted goroutine; every counted goroutine must have a record for its decrement
to find one; the decrement is exact only because the count was at least one; a
crash keeps the counts equal to the leftovers only if the disk knows no more
than the memory; a new session starts at zero only if nobody is counted under
its identifier.

The argument. `PlaceCardinality` says how the size of a set changes when one
element goes in or out; `StepSets` and `StepCounts` apply it to the three sets
of goroutines (counted in a session, holding the global slot, holding a
session's slot) when one goroutine moves. `MovesTo` names a step that moves the
tokens with the goroutine, and `MoveSlots`, `MoveKeeps`, `CountedMoveKeeps` show
once that such a step keeps the invariant, without and with a change of the
record. Then there is a lemma per action, and `NextKeeps` collects them.

`SessionManagerRefinement` proves `Refinement`: `Spec => ImplementsExecLeases`.
Each step of `SessionManager` is one step of `ExecLeases` or none (`NextMaps`):
`Admit` and `Release` begin and end a command, `RemoveSession` and a creation
that fails make an identifier `gone`, a crash ends every command, and all other
steps stutter. `IInv` is what makes the guards of the abstract step true: both
limits because a goroutine at `recheck` already holds a token of each channel
(`SlotAccounting`), a removal because the count it read as zero is exact
(`LeaseAccounting`), and a crash because the disk brings nothing back
(`NoResurrection`).

`LabEngineProofs` proves for any number of clients' goroutines and sessions:

- `EngineUsesManager`: `LabSpec => Spec`. Each step of the engine is a step of
  the manager or none, goroutine by goroutine; so `IInv` holds under the engine.
- `LabTypeCorrect`: `LabTypeOK`.
- `StartupsAlone`: while a sandbox starts, no cleanup works on its session. It
  needs `TTLCoversWork`, and is what the rest stands on: the session of a
  startup is neither stale (it is not late and its status is not one the reaper
  takes) nor addressable by a client.
- `NoResourceForgotten` (`RecordOutlivesResources`): before the record is
  removed the resources were seen to be absent, and between the two nobody
  creates any, because nobody starts that session.
- `ReaperSpares` (`ReaperSparesHealthy`): a session on the reaper's list was
  late or failed, and neither is ever healthy again.
- `ReportsTrue` (`ClaimsAreTrue`), for engines without `http` in `Ops`, because
  of the finding `http_report`.
- `NothingOrphaned`: with `TTLCoversWork`, `NoOrphans`, which the run
  `ttl_startup` refutes without it. It combines `NoResourceForgotten` with the
  manager's `NoResurrection`.
- `LifecycleImplemented`: with `TTLCoversWork`, `LabSpec => ImplementsLifecycle`.
  `RecordsChange` and `ResourcesChange` say, action by action, how the records
  and what Docker holds may change in a step, and `LifecycleStep` that this is a
  step of `SandboxLifecycle`. Its guards are true because a startup owns its
  session's record (`Owned`), because resources have a record
  (`RecordOutlivesResources`), and because files bring nothing back
  (`NoResurrection`).

`SandboxProofs` proves two things. The first is `CommandsUndisturbed`
(`CommandsKeepSandbox`), with `TTLCoversWork` and a disk that takes every write.
The invariant says which goroutines may take a sandbox apart: a session that is open (its record is ready
or running) is whole; a cleanup that got past the drain has closed the record
for good, and nobody is counted in it; whoever is admitted found the record
open, and keeps the cleanup at the drain by being counted (`LeaseAccounting`).
With failing writes a crash may bring back a record as ready whose sandbox has
gone, and the theorem is false.

The second is how far `limits.maximum_sessions` holds. `CreateSession` counts the
active sessions under the lock, but a new record counts only from "starting" on,
which is another critical section: callers that create at the same time all see
the same count. `OvershootBounded` says that the limit is exceeded by at most one
session less than there are callers, and `LimitHolds` that with one caller, as
in the loop over standard input, `ActiveWithinLimit` holds. The invariant charges
to the limit the active sessions and those a startup works on (`Charged`): only
`Create` adds to it, and it counts all but what the other callers have under
way. Both theorems assume a disk that takes every write, or no restart: after a
failed save of "stopping" a crash reloads a session as ready that was counted
no more, and a new one may have taken its place.

`TransfersProofs` proves, for any files, contents, limits, deployments,
workloads and helpers, from `TransfersAssumption` and `PayloadsAssumption`:

- `OutputIsExact` (`OutputExact`) from `Sound`: what an attached and undisturbed
  reader has sent is what the buffer holds, in the sense of `Holds`. `WriteHolds`
  is the lemma about the bounded buffer: if it holds what it shall after some
  bytes, it does after any piece more. `Tracked` says that the request loop
  waits for the one helper that is attached; `HelperStepKin` and
  `OthersDisturbed` say what a step of one helper does to the others.
- `WritesStay` (`StoredStays`) and `AnsweredCookiesStay` (`CookiesKept`) from
  `Relied`. Neither property is inductive: they need to know what is still at
  work on a file. `Sole` says that on a file which is not contested it is at most
  one process, the one that the request loop waits for or that was cut off since
  the last request. `WritePromise` says that a writer has written the beginning of
  its content, and that nothing is promised of its file unless it will be refused
  because the file is there; `CookiePromise`, that a request will load or has
  all that was acknowledged of its file but what has expired. The next request to
  the file finds a process that was left behind, if there is one, and makes the
  file contested (`Contend`): `Sole` would be lost there.
- `PagesFollow` (`PagesAreWhole`) from `PagesTracked`, which adds to `Sound`
  what the client holds (`PagerHeld`) and what the page under way is going to be
  (`PageHeld`): the size that stat found is still that of the file, or the
  client has started over. `WholeIsContent` says that text in which nothing was
  replaced is what the file holds, so that the next page begins where it should.
- `PublishedWhole` (`ExportsAreWhole`) from `ExportSound`: an export that ended
  undisturbed has sent the file.
- `GrantsLimited`, `GatewayKnown`, `TimesLimited`, each from an invariant of its
  own over `Tracked` or the configuration.

- `ReadsAreConfined` (`PathsConfined`) and `TransfersTypeCorrect`
  (`TransfersTypeOK`) from `Settled`: the helper that a request waits for works
  on the file its path stands for, and no step of another process changes which
  file that is (`AllGood`). They need `PathsAssumption`: spellings are paths,
  and a file is a sequence of names.

`PathsProofs` proves, for paths of any length over any set of names, that the
two checks agree, as far as the text of a path goes (symbolic links are not
followed by either; the helper refuses them on its walk):

- `ChecksAgree`: the controller accepts a path if and only if it is well formed
  and denotes `/scratch` or something below; the helper's check then passes too,
  and what it looks up is what is denoted.

The argument. Cleaning a path, rooting it and cleaning it again, as the
controller and the helper do one after the other, leaves the names that no later
`..` takes back (`Denotes`; the lemma `CleanedIsDenoted`). `Clean` goes through
the components with a stack. A name stays if
and only if the stack never again becomes lower than with that name on top
(`SurvivesHeights`), so what is left at the end are, in order, the names below
the least height still to come (`Low`). The heights differ by the number of
names less the number of `..`, except that a rooted stack ends at the root
(`HeightsCount`). A path without a root keeps what leads above its beginning in
front of the rest (`Led`), and the second cleaning takes that away.

`MCPServerProofs` proves, for any operations, page sizes, failing writes and
crashes, from `OperationsAssumption` and `BoundsAssumption`:

- `MCPTypeCorrect` (`MCPTypeOK`) and `AnswersRecorded` (`AnsweredOnRecord`):
  `Tracked` says that the call under way is where its fate says, and `Recorded`
  what the files say of a call that has got so far, if no write of it went
  wrong; of an export, that is the transcript.
- `CallsDoNotOverlap` (`CallsBracketed`): no event is recorded twice (`Once`),
  and the start of a call is the last event of the log until its end comes right
  after it, or something has gone wrong with the call (`Bracketed`).
- `FollowerMissesNothing` (`FollowsContiguously`): what the client has received,
  with the page on its way to it, is one unbroken piece of the log, and the
  cursor is its last event (`Following`). This rests on `Once`: a cursor that
  stood in the log twice would not say where to go on.

`Induction` holds what both need. The prover cannot use the induction theorems
that take an operator, but the proper subsets of finite sets are well founded,
which gives every set of numbers a least one (`LeastNumber`), hence induction
over a set (`UpTo`) and the existence of functions defined by recursion
(`RecursionDefines`).

Only model-checked: the liveness properties (`RequestSettles`, `DrainEnds`,
`ExpiredReclaimed`, `RequestsReturn`, `RequestsEnd`, `RequestsAnswered`,
`FollowerCatchesUp`), because fairness is beyond the prover. Every safety
property of a passing run is a theorem, under the assumptions named above.

## 6. Not modelled

Of the compose file, all but its grants and resources, which is constant text.
The commands of the CLI other than `serve`, which are one engine call in a
process of its own (the documentation forbids two controllers on one state
directory at a time). The decoding of tool arguments, and the answers to
malformed requests. The host's paths and their symbolic links, and the helpers'
walk with `openat` against a tree that changes under it: each would need a
model of the file system that is larger than the code. The hash command of
`sandbox-fs`, which no operation uses. Checks of command text, URLs and names,
and the redaction and clipping of recorded text: pure functions of one string.

Durations are abstracted to "may pass at any moment"; `limits` that default when
zero are positive constants in `SessionManager` and modelled in `Policy`.
`SIGTERM` is a death: the request loop stays in its read of stdin until the
process ends. A docker compose up that outlives its controller is taken to end
before the next controller acts on that session.
