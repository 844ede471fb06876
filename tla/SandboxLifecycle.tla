-------------------------- MODULE SandboxLifecycle --------------------------
(***************************************************************************)
(* What internal/lab promises about the Docker resources it makes, without *)
(* saying who makes or removes them, in which steps, or which calls fail:  *)
(* nothing is made for a session the controller does not know, a session   *)
(* is forgotten only when nothing of it is left, and one that is forgotten *)
(* never comes back, restarts of the controller included.  LabEngine       *)
(* implements this module.                                                 *)
(***************************************************************************)

CONSTANTS
  Ids,       \* session identifiers
  Kinds      \* kinds of Docker resources a sandbox consists of

VARIABLES
  given,     \* identifiers that were given out
  known,     \* sessions the controller has a record of
  things     \* [Ids -> SUBSET Kinds]: the resources that exist

vars == <<given, known, things>>

Init ==
  /\ given = {}
  /\ known = {}
  /\ things = [s \in Ids |-> {}]

\* A session begins with a record, or its identifier is wasted.
Begin(s) ==
  /\ s \notin given
  /\ given' = given \cup {s}
  /\ known' \in {known, known \cup {s}}
  /\ UNCHANGED things

\* Resources come into being one by one, for a known session.
Build(s, k) ==
  /\ s \in known
  /\ things' = [things EXCEPT ![s] = @ \cup {k}]
  /\ UNCHANGED <<given, known>>

\* They go in any order and number.
Dismantle(s) ==
  /\ \E left \in SUBSET things[s] : things' = [things EXCEPT ![s] = left]
  /\ UNCHANGED <<given, known>>

\* The record goes last.
Forget(s) ==
  /\ things[s] = {}
  /\ known' = known \ {s}
  /\ UNCHANGED <<given, things>>

\* Docker may complete a sandbox while the controller restarts, and the next
\* controller may miss sessions, but none that has anything left in Docker.
Restart ==
  /\ given' = given
  /\ known' \subseteq known
  /\ things' \in [Ids -> SUBSET Kinds]
  /\ \A s \in Ids :
       /\ things'[s] = things[s] \/ things'[s] = Kinds
       /\ things'[s] # {} => s \in known'

Next ==
  \/ \E s \in Ids : \/ Begin(s)
                    \/ \E k \in Kinds : Build(s, k)
                    \/ Dismantle(s)
                    \/ Forget(s)
  \/ Restart

Spec == Init /\ [][Next]_vars
=============================================================================
