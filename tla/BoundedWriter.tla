--------------------------- MODULE BoundedWriter ---------------------------
(***************************************************************************)
(* internal/output/bounded_writer.go: what the controller keeps of the     *)
(* output of an execution.  A buffer is fed by writes of any size and      *)
(* keeps the first bytes up to its limit.                                  *)
(***************************************************************************)
EXTENDS Integers, Sequences

EmptyBuffer == [kept |-> <<>>, truncated |-> FALSE]

\* 1 MiB, docker/client.go.
DefaultExecOutputLimit == 1048576

ExecOutputLimit(limit) == IF limit <= 0 THEN DefaultExecOutputLimit ELSE limit

Lesser(a, b) == IF a <= b THEN a ELSE b

\* A fault: a write that just fills the buffer counts as truncated.
BufferWrite_AtLimit(w, limit, p) ==
  LET remaining == limit - Len(w.kept) IN
  IF limit > 0 /\ remaining <= 0
    THEN [w EXCEPT !.truncated = TRUE]
  ELSE IF limit > 0 /\ Len(p) >= remaining
    THEN [kept |-> w.kept \o SubSeq(p, 1, remaining), truncated |-> TRUE]
  ELSE [w EXCEPT !.kept = @ \o p]

\* Write: a limit that is not positive is none.
BufferWrite(w, limit, p) ==
  LET remaining == limit - Len(w.kept) IN
  IF limit > 0 /\ remaining <= 0
    THEN [w EXCEPT !.truncated = TRUE]
  ELSE IF limit > 0 /\ Len(p) > remaining
    THEN [kept |-> w.kept \o SubSeq(p, 1, remaining), truncated |-> TRUE]
  ELSE [w EXCEPT !.kept = @ \o p]

\* What a buffer shall hold after the bytes "all" were written to it, in
\* pieces of whatever sizes: their beginning, and whether that is not all.
Holds(w, limit, all) ==
  IF limit > 0
    THEN /\ w.kept = SubSeq(all, 1, Lesser(Len(all), limit))
         /\ w.truncated <=> Len(all) > limit
    ELSE w.kept = all /\ ~ w.truncated
=============================================================================
