------------------------------ MODULE Scratch ------------------------------
(***************************************************************************)
(* Inside a sandbox: the files of /scratch and the helper processes that   *)
(* work on them, runner/sandbox-fs and runner/sandbox-http.  Each helper   *)
(* is the process of one docker exec.  While it is attached, its output    *)
(* goes to the controller; when the docker client is killed, by the host's *)
(* deadline or with the controller, the helper goes on detached: unlike    *)
(* the commands of ExecInRunner it runs under no timeout of its own.       *)
(***************************************************************************)
EXTENDS BoundedWriter, Paths

CONSTANTS
  Scratchfiles,    \* the files in use: components of their paths below /scratch
  CookieFiles,     \* the files in use for cookies, others than these
  Payloads,        \* the contents clients write: nonempty sequences of bytes
  Hole,            \* the byte a file has where nothing was written
  Cookies,         \* the cookies that servers set
  Helpers,         \* bound: processes at a time, detached ones included
  Absent           \* no file

Bytes == (UNION {{p[i] : i \in DOMAIN p} : p \in Payloads}) \cup {Hole}

ASSUME PayloadsAssumption == \A p \in Payloads : p \in Seq(Bytes)

VARIABLES
  scratch,         \* [Scratchfiles -> content or Absent]
  jar,             \* [CookieFiles -> the cookies in it, none if it is missing or no JSON]
  helper,          \* [Helpers -> what the process is doing]
  stdout           \* what the controller keeps of the attached helper's output

inside == <<scratch, jar, helper, stdout>>

\* The file of a request that sends HTTP is the one it saves cookies to.
None == [op |-> "none", pc |-> "gone", file |-> Absent, data |-> <<>>,
         pos |-> 0, from |-> 0, upto |-> 0, limit |-> 0, exclusive |-> FALSE,
         load |-> Absent, cookies |-> {}, fresh |-> {}, expired |-> {},
         attached |-> FALSE, alone |-> TRUE]

HelperOps == {"write", "stat", "read", "export", "http", "none"}

\* "failed" and "done" are its exit status, not yet collected if attached.
HelperSteps == {"open", "copy", "load", "request", "save", "rename", "done",
                "failed", "gone"}

Running(h) == helper[h].pc \notin {"done", "failed", "gone"}
Detached(h) == Running(h) /\ ~ helper[h].attached

\* The docker client of a helper is killed: what only reads concerns nobody
\* any more, the others go on.
CutOff(p) == IF p.op \in {"write", "http"} /\ p.pc \notin {"done", "failed"}
               THEN [p EXCEPT !.attached = FALSE, !.alone = TRUE] ELSE None

\* A detached helper that ends leaves nothing.
Ended(p, how) == IF p.attached THEN [p EXCEPT !.pc = how] ELSE None

Become(h, p) == helper' = [helper EXCEPT ![h] = p]

\* /scratch itself, and what is not in use, is no regular file.
Content(f) == IF f \in Scratchfiles THEN scratch[f] ELSE Absent

Size(f) == Len(scratch[f])

-----------------------------------------------------------------------------
(* sandbox-fs write.                                                       *)

\* Whoever changes a file disturbs the request that reads it.
Disturbed(f) ==
  [g \in Helpers |-> IF helper[g].file = f /\ helper[g].attached
                       THEN [helper[g] EXCEPT !.alone = FALSE] ELSE helper[g]]

Change(h, f, content, p) ==
  /\ scratch' = [scratch EXCEPT ![f] = content]
  /\ helper' = [Disturbed(f) EXCEPT ![h] = p]

\* O_TRUNC, or O_EXCL: the file must not exist.  The helper does not
\* recognise the wrapped error and exits with 2, not with 17.
WriteOpen(h) ==
  LET p == helper[h] IN
  /\ p.op = "write" /\ p.pc = "open"
  /\ IF p.exclusive /\ scratch[p.file] # Absent
       THEN Become(h, Ended(p, "failed")) /\ UNCHANGED scratch
       ELSE Change(h, p.file, <<>>, [p EXCEPT !.pc = "copy"])
  /\ UNCHANGED <<jar, stdout>>

Overlay(content, pos, chunk) ==
  [i \in 1 .. (IF Len(content) > pos + Len(chunk) THEN Len(content)
                                                  ELSE pos + Len(chunk)) |->
     IF i \in pos + 1 .. pos + Len(chunk) THEN chunk[i - pos]
     ELSE IF i <= Len(content) THEN content[i]
     ELSE Hole]

\* io.Copy, as many bytes as have come.
WriteCopy(h) ==
  LET p == helper[h] IN
  /\ p.op = "write" /\ p.pc = "copy"
  /\ \E upto \in p.pos + 1 .. Len(p.data) :
       Change(h, p.file,
              Overlay(scratch[p.file], p.pos, SubSeq(p.data, p.pos + 1, upto)),
              [p EXCEPT !.pos = upto])
  /\ UNCHANGED <<jar, stdout>>

\* The end of its input.  A docker client that is killed ends it early.
WriteEnd(h) ==
  LET p == helper[h] IN
  /\ p.op = "write" /\ p.pc = "copy"
  /\ p.attached => p.pos = Len(p.data)
  /\ Become(h, Ended(p, "done"))
  /\ UNCHANGED <<scratch, jar, stdout>>

-----------------------------------------------------------------------------
(* sandbox-fs stat, read and export.                                       *)

\* The size goes to the controller in the one line of output.
Stat(h) ==
  LET p == helper[h] IN
  /\ p.op = "stat" /\ p.pc = "open"
  /\ Become(h, IF Content(p.file) = Absent THEN Ended(p, "failed")
               ELSE Ended([p EXCEPT !.pos = Size(p.file)], "done"))
  /\ UNCHANGED <<scratch, jar, stdout>>

ReadOpen(h) ==
  LET p == helper[h] IN
  /\ p.op \in {"read", "export"} /\ p.pc = "open"
  /\ Become(h, IF Content(p.file) = Absent THEN Ended(p, "failed")
               ELSE [p EXCEPT !.pc = "copy", !.alone = TRUE])
  /\ UNCHANGED <<scratch, jar, stdout>>

\* How far a reader will get in the file as it is now.
Reach(p) == IF p.op = "export" THEN Size(p.file) ELSE Lesser(Size(p.file), p.upto)

\* Some bytes at a time to the standard output: for a read into the bounded
\* buffer of the controller, for an export into its temporary file.
ReadCopy(h) ==
  LET p == helper[h] IN
  /\ p.op \in {"read", "export"} /\ p.pc = "copy"
  /\ \E upto \in p.pos + 1 .. Reach(p) :
       /\ Become(h, [p EXCEPT !.pos = upto])
       /\ stdout' = BufferWrite(stdout, p.limit, SubSeq(scratch[p.file], p.pos + 1, upto))
  /\ UNCHANGED <<scratch, jar>>

ReadEnd(h) ==
  LET p == helper[h] IN
  /\ p.op \in {"read", "export"} /\ p.pc = "copy"
  /\ p.pos >= Reach(p)
  /\ Become(h, Ended(p, "done"))
  /\ UNCHANGED <<scratch, jar, stdout>>

-----------------------------------------------------------------------------
(* sandbox-http.  The files to load cookies from and to save them to are   *)
(* named, or not, independently of each other.                             *)

\* LoadCookieFileSecure.  A file that cannot be parsed counts as empty.
LoadCookies(h) ==
  LET p == helper[h] IN
  /\ p.op = "http" /\ p.pc = "load"
  /\ Become(h, [p EXCEPT !.pc = "request",
                         !.cookies = IF p.load = Absent THEN {} ELSE jar[p.load]])
  /\ UNCHANGED <<scratch, jar, stdout>>

\* The exchange.  Of the cookies that the responses set, only those which apply
\* to the requested URL will be saved: not those of other hosts or paths, and
\* no Secure ones over http.  What was loaded was loaded for that URL; some of
\* it may expire, or be set anew.
Exchange(h) ==
  LET p == helper[h] IN
  /\ p.op = "http" /\ p.pc = "request"
  /\ \E fresh \in SUBSET Cookies : \E expired \in SUBSET (p.cookies \ fresh) :
       LET q == [p EXCEPT !.cookies = (@ \ expired) \cup fresh,
                          !.fresh = fresh, !.expired = expired] IN
       Become(h, IF p.file = Absent THEN Ended(q, "done") ELSE [q EXCEPT !.pc = "save"])
  /\ UNCHANGED <<scratch, jar, stdout>>

\* SaveCookieFileAtomic writes a temporary file; what it leaves of it when it
\* is killed is in nobody's way.
SaveCookies(h) ==
  LET p == helper[h] IN
  /\ p.op = "http" /\ p.pc = "save"
  /\ Become(h, [p EXCEPT !.pc = "rename"])
  /\ UNCHANGED <<scratch, jar, stdout>>

Replace(h, cookies) ==
  /\ jar' = [jar EXCEPT ![helper[h].file] = cookies]
  /\ Become(h, Ended(helper[h], "done"))

\* A fault: what was loaded is not saved again.
RenameCookies_OnlyNew(h) ==
  LET p == helper[h] IN
  /\ p.op = "http" /\ p.pc = "rename"
  /\ Replace(h, p.fresh)
  /\ UNCHANGED <<scratch, stdout>>

\* The file is replaced, and the response printed.
RenameCookies(h) ==
  LET p == helper[h] IN
  /\ p.op = "http" /\ p.pc = "rename"
  /\ Replace(h, p.cookies)
  /\ UNCHANGED <<scratch, stdout>>

-----------------------------------------------------------------------------
\* A full volume, a failed exchange, the container's memory limit: a helper
\* may fail at any point, with a status or a document that says so.
Fails(h) ==
  /\ Running(h)
  /\ Become(h, Ended(helper[h], "failed"))
  /\ UNCHANGED <<scratch, jar, stdout>>

HelperStep(h) ==
  \/ WriteOpen(h) \/ WriteCopy(h) \/ WriteEnd(h)
  \/ Stat(h) \/ ReadOpen(h) \/ ReadCopy(h) \/ ReadEnd(h)
  \/ LoadCookies(h) \/ Exchange(h) \/ SaveCookies(h) \/ RenameCookies(h)
  \/ Fails(h)
=============================================================================
