------------------------------- MODULE Paths -------------------------------
(***************************************************************************)
(* The paths of files in a sandbox, as clients spell them: what            *)
(* internal/pathsafe/container.go lets pass in the controller, and which   *)
(* file runner/internal/scratchfs/scratchfs.go then looks up in the        *)
(* sandbox.  A path is a sequence of components between separators, rooted *)
(* or not.                                                                 *)
(***************************************************************************)
EXTENDS Integers, Sequences, FiniteSets

\* The names of /scratch and of a directory whose name begins like it, and a
\* component with a control character.
ScratchRoot == "scratch"
ScratchLike == {"scratch", "scratchy"}
Unprintable == "\n"

Front(s) == SubSeq(s, 1, Len(s) - 1)

StartsWith(s, t) == Len(t) <= Len(s) /\ SubSeq(s, 1, Len(t)) = t

\* path.Clean, component by component: ".." takes the component before it away,
\* if there is one; a rooted path has nothing above its root.
Enter(rooted, before, part) ==
  IF part \in {"", "."} THEN before
  ELSE IF part # ".." THEN Append(before, part)
  ELSE IF before # <<>> /\ before[Len(before)] # ".." THEN Front(before)
  ELSE IF rooted THEN before
  ELSE Append(before, "..")

Clean(p) ==
  LET kept[i \in 0 .. Len(p.parts)] ==
        IF i = 0 THEN <<>> ELSE Enter(p.rooted, kept[i - 1], p.parts[i])
  IN  [p EXCEPT !.parts = kept[Len(p.parts)]]

\* CleanContainerPath: what is not rooted is rooted, but not cleaned again.
CleanContainerPath(p) == [Clean(p) EXCEPT !.rooted = TRUE]

Blank(p) == ~ p.rooted /\ p.parts \in {<<>>, <<"">>}

Malformed(p) == Blank(p) \/ \E i \in DOMAIN p.parts : p.parts[i] = Unprintable

\* A fault: the text is compared, without a separator after the root.
IsContainerSubpath_Text(target) ==
  LET parts == Clean(target).parts IN parts # <<>> /\ parts[1] \in ScratchLike

IsContainerSubpath(target) == StartsWith(Clean(target).parts, <<ScratchRoot>>)

\* ValidateContainerPathUnderAllowed, with /scratch as the only root.
Accepted(p) == ~ Malformed(p) /\ IsContainerSubpath(CleanContainerPath(p))

\* ValidateScratchPath: the text must begin like the root, and the relative
\* path from the root not lead up, as it does from a name that only begins
\* like it.  Its components are what OpenScratchFd follows.
Strict(p) ==
  LET parts == Clean(p).parts IN
  p.rooted /\ parts # <<>> /\ parts[1] \in ScratchLike /\ parts[1] = ScratchRoot

RelativeParts(p) == Tail(Clean(p).parts)

-----------------------------------------------------------------------------
\* The meaning of a path, from the root: the names that no later ".." takes
\* back.  (What is above the root is the root.)
Ups(p, i, j) == Cardinality({k \in i .. j : p.parts[k] = ".."})
Downs(p, i, j) == Cardinality({k \in i .. j : p.parts[k] \notin {"", ".", ".."}})

Survives(p, i) ==
  /\ p.parts[i] \notin {"", ".", ".."}
  /\ \A j \in i + 1 .. Len(p.parts) : Ups(p, i + 1, j) <= Downs(p, i + 1, j)

Extend(p, names, i) == IF Survives(p, i) THEN Append(names, p.parts[i]) ELSE names

Denotes(p) ==
  LET names[i \in 0 .. Len(p.parts)] ==
        IF i = 0 THEN <<>> ELSE Extend(p, names[i - 1], i)
  IN  names[Len(p.parts)]
=============================================================================
