----------------------------- MODULE ExecLeases -----------------------------
(***************************************************************************)
(* What internal/session promises about running commands, without saying   *)
(* how: a command runs in a session only under a lease, leases are bounded *)
(* per session and for the whole controller, a session past its deadline   *)
(* admits no new lease while the admitted ones may finish, and a session's *)
(* record is never removed under a running command.  SessionManager        *)
(* implements this module.                                                 *)
(***************************************************************************)
EXTENDS Naturals, FiniteSets

CONSTANTS
  Ids,             \* session identifiers
  Callers,         \* goroutines that ask for leases
  SessionLimit,    \* leases one session may have at a time
  GlobalLimit      \* leases the controller may have at a time

VARIABLES
  running,         \* [Ids -> SUBSET Callers]: who runs a command in a session
  expired,         \* sessions whose deadline has passed
  gone             \* sessions whose record was removed, or lost in a crash

vars == <<running, expired, gone>>

Idle(c) == \A s \in Ids : c \notin running[s]

Busy == {c \in Callers : ~ Idle(c)}

Init ==
  /\ running = [s \in Ids |-> {}]
  /\ expired = {}
  /\ gone = {}

\* A lease is granted: only to a session that is neither expired nor gone.
Admit(c, s) ==
  /\ Idle(c)
  /\ s \notin expired \cup gone
  /\ Cardinality(running[s]) < SessionLimit
  /\ Cardinality(Busy) < GlobalLimit
  /\ running' = [running EXCEPT ![s] = @ \cup {c}]
  /\ UNCHANGED <<expired, gone>>

\* A command ends, whatever happened to its session meanwhile.
Finish(c, s) ==
  /\ c \in running[s]
  /\ running' = [running EXCEPT ![s] = @ \ {c}]
  /\ UNCHANGED <<expired, gone>>

\* The deadline passes: the commands that were admitted go on.
Expire(s) ==
  /\ expired' = expired \cup {s}
  /\ UNCHANGED <<running, gone>>

\* A record is removed, never under a running command.
Remove(s) ==
  /\ running[s] = {}
  /\ gone' = gone \cup {s}
  /\ UNCHANGED <<running, expired>>

\* The controller dies: no command survives it, and what was gone stays gone.
Crash ==
  /\ running' = [s \in Ids |-> {}]
  /\ \E lost \in SUBSET Ids : gone' = gone \cup lost
  /\ UNCHANGED expired

Next ==
  \/ \E s \in Ids : \/ \E c \in Callers : Admit(c, s) \/ Finish(c, s)
                    \/ Expire(s)
                    \/ Remove(s)
  \/ Crash

Spec == Init /\ [][Next]_vars
=============================================================================
