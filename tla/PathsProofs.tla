----------------------------- MODULE PathsProofs -----------------------------
(***************************************************************************)
(* What the two checks of a path make of it, however it is spelled: what   *)
(* they pass and look up is what the path denotes, counted from its        *)
(* components.  Both functions of Paths go through the components one by   *)
(* one; the proofs follow them by induction.                               *)
(***************************************************************************)
EXTENDS Paths, Induction, SequenceTheorems

PathsOver(S) == [rooted : BOOLEAN, parts : Seq(S)]

Skipped == {"", "."}
NoName == {"", ".", ".."}

-----------------------------------------------------------------------------
(* The functions by which Clean and Denotes are defined.                   *)

\* What path.Clean keeps of each beginning of a path.
Keeping(rooted, parts, S, g) ==
  /\ g \in [0 .. Len(parts) -> Seq(S)]
  /\ g[0] = <<>>
  /\ \A i \in 1 .. Len(parts) : g[i] = Enter(rooted, g[i - 1], parts[i])

LEMMA FrontTyped ==
  ASSUME NEW S, NEW s \in Seq(S), s # <<>>
  PROVE  /\ Front(s) \in Seq(S)
         /\ Len(Front(s)) = Len(s) - 1
         /\ \A i \in 1 .. Len(s) - 1 : Front(s)[i] = s[i]
<1>1. Len(s) \in Nat \ {0}
  OBVIOUS
<1>2. \A i \in 1 .. Len(s) - 1 : s[i] \in S
  OBVIOUS
<1>3. 1 \in Int /\ Len(s) - 1 \in Int
  BY <1>1
<1>4. /\ SubSeq(s, 1, Len(s) - 1) \in Seq(S)
      /\ Len(SubSeq(s, 1, Len(s) - 1)) = IF 1 <= Len(s) - 1 THEN (Len(s) - 1) - 1 + 1 ELSE 0
      /\ \A i \in 1 .. (Len(s) - 1) - 1 + 1 : SubSeq(s, 1, Len(s) - 1)[i] = s[1 + i - 1]
  BY <1>2, <1>3, SubSeqProperties
<1>5. (Len(s) - 1) - 1 + 1 = Len(s) - 1 /\ \A i \in 1 .. Len(s) - 1 : 1 + i - 1 = i
  BY <1>1
<1>6. QED
  BY <1>1, <1>4, <1>5 DEF Front

LEMMA EnterTyped ==
  ASSUME NEW S, NEW rooted \in BOOLEAN, NEW s \in Seq(S), NEW part \in S
  PROVE  Enter(rooted, s, part) \in Seq(S)
<1>1. Append(s, part) \in Seq(S)
  OBVIOUS
<1>2. s # <<>> => Front(s) \in Seq(S)
  BY FrontTyped
<1>3. QED
  BY <1>1, <1>2 DEF Enter

\* Clean keeps what its function keeps of the whole path.
LEMMA CleanKeeps ==
  ASSUME NEW S, NEW p \in PathsOver(S)
  PROVE  \E g : /\ Keeping(p.rooted, p.parts, S, g)
                /\ Clean(p) = [rooted |-> p.rooted, parts |-> g[Len(p.parts)]]
<1> DEFINE n == Len(p.parts)
           def(g) == [i \in 0 .. n |-> IF i = 0 THEN <<>>
                                       ELSE Enter(p.rooted, g[i - 1], p.parts[i])]
           step == [a \in (1 .. n) \X Seq(S) |-> Enter(p.rooted, a[2], p.parts[a[1]])]
           G == CHOOSE g : g = def(g)
<1>1. n \in Nat /\ p.rooted \in BOOLEAN /\ \A i \in 1 .. n : p.parts[i] \in S
  BY DEF PathsOver
<1>2. <<>> \in Seq(S)
  OBVIOUS
<1>3. step \in [(1 .. n) \X Seq(S) -> Seq(S)]
  BY <1>1, EnterTyped
<1>4. Clean(p) = [p EXCEPT !.parts = G[n]]
  BY DEF Clean
<1> HIDE DEF n
<1>5. PICK g : Continues(g, n, Seq(S), <<>>, step)
  <2>1. step \in Continuations(n, Seq(S))
    BY <1>3 DEF Continuations
  <2> HIDE DEF step
  <2>2. QED
    BY <1>1, <1>2, <2>1, RecursionDefines, Zenon
<1>6. g = def(g)
  <2>1. ASSUME NEW i \in 1 .. n
        PROVE  g[i] = Enter(p.rooted, g[i - 1], p.parts[i])
    <3>1. i - 1 \in 0 .. n
      BY <1>1
    <3>2. g[i - 1] \in Seq(S)
      BY <1>5, <3>1 DEF Continues
    <3>3. QED
      BY <1>5, <3>2 DEF Continues
  <2>2. ASSUME NEW i \in 0 .. n
        PROVE  g[i] = IF i = 0 THEN <<>> ELSE Enter(p.rooted, g[i - 1], p.parts[i])
    <3>1. CASE i = 0
      BY <1>5, <3>1 DEF Continues
    <3>2. CASE i \in 1 .. n
      BY <2>1, <3>2
    <3>3. QED
      BY <1>1, <3>1, <3>2
  <2>3. QED
    BY <1>5, <2>2 DEF Continues
<1>7. G = def(G)
  <2> HIDE DEF def
  <2>1. QED
    BY <1>6
<1> HIDE DEF G
<1>8. /\ G[0] = <<>>
      /\ \A i \in 1 .. n : G[i] = Enter(p.rooted, G[i - 1], p.parts[i])
  <2>1. \A i \in 0 .. n : G[i] = IF i = 0 THEN <<>>
                                 ELSE Enter(p.rooted, G[i - 1], p.parts[i])
    BY <1>7
  <2>2. 0 \in 0 .. n /\ \A i \in 1 .. n : i \in 0 .. n /\ i # 0
    BY <1>1
  <2>3. QED
    BY <2>1, <2>2, Zenon
<1>9. \A i \in 0 .. n : G[i] \in Seq(S)
  <2>1. G[0] \in Seq(S)
    BY <1>2, <1>8, Zenon
  <2>2. \A i \in 1 .. n : G[i - 1] \in Seq(S) => G[i] \in Seq(S)
    BY <1>1, <1>8, EnterTyped
  <2>3. QED
    BY <1>1, <2>1, <2>2, RecursionKeeps
<1>10. G \in [0 .. n -> Seq(S)]
  <2>1. G = [i \in 0 .. n |-> G[i]]
    BY <1>7
  <2>2. QED
    BY <2>1, <1>9
<1>11. Keeping(p.rooted, p.parts, S, G)
  BY <1>8, <1>10 DEF Keeping, n
<1>12. Clean(p) = [rooted |-> p.rooted, parts |-> G[n]]
  BY <1>4 DEF PathsOver
<1>13. QED
  BY <1>11, <1>12 DEF n

\* The names that Denotes has found up to each component.
Naming(p, S, g) ==
  /\ g \in [0 .. Len(p.parts) -> Seq(S)]
  /\ g[0] = <<>>
  /\ \A i \in 1 .. Len(p.parts) : g[i] = Extend(p, g[i - 1], i)

LEMMA DenotesNames ==
  ASSUME NEW S, NEW p \in PathsOver(S)
  PROVE  \E g : Naming(p, S, g) /\ Denotes(p) = g[Len(p.parts)]
<1> DEFINE n == Len(p.parts)
           def(g) == [i \in 0 .. n |-> IF i = 0 THEN <<>> ELSE Extend(p, g[i - 1], i)]
           step == [a \in (1 .. n) \X Seq(S) |-> Extend(p, a[2], a[1])]
           G == CHOOSE g : g = def(g)
<1>1. n \in Nat /\ \A i \in 1 .. n : p.parts[i] \in S
  BY DEF PathsOver
<1>2. <<>> \in Seq(S)
  OBVIOUS
<1>0. ASSUME NEW i \in 1 .. n, NEW s \in Seq(S) PROVE Extend(p, s, i) \in Seq(S)
  <2>1. Append(s, p.parts[i]) \in Seq(S)
    BY <1>1
  <2>2. QED
    BY <2>1 DEF Extend
<1>3. step \in [(1 .. n) \X Seq(S) -> Seq(S)]
  BY <1>0
<1>4. Denotes(p) = G[n]
  BY DEF Denotes
<1> HIDE DEF n
<1>5. PICK g : Continues(g, n, Seq(S), <<>>, step)
  <2>1. step \in Continuations(n, Seq(S))
    BY <1>3 DEF Continuations
  <2> HIDE DEF step
  <2>2. QED
    BY <1>1, <1>2, <2>1, RecursionDefines, Zenon
<1>6. g = def(g)
  <2>1. ASSUME NEW i \in 1 .. n
        PROVE  g[i] = Extend(p, g[i - 1], i)
    <3>1. i - 1 \in 0 .. n
      BY <1>1
    <3>2. g[i - 1] \in Seq(S)
      BY <1>5, <3>1 DEF Continues
    <3>3. QED
      BY <1>5, <3>2 DEF Continues
  <2>2. ASSUME NEW i \in 0 .. n
        PROVE  g[i] = IF i = 0 THEN <<>> ELSE Extend(p, g[i - 1], i)
    <3>1. CASE i = 0
      BY <1>5, <3>1 DEF Continues
    <3>2. CASE i \in 1 .. n
      BY <2>1, <3>2
    <3>3. QED
      BY <1>1, <3>1, <3>2
  <2>3. QED
    BY <1>5, <2>2 DEF Continues
<1>7. G = def(G)
  <2> HIDE DEF def
  <2>1. QED
    BY <1>6
<1> HIDE DEF G
<1>8. /\ G[0] = <<>>
      /\ \A i \in 1 .. n : G[i] = Extend(p, G[i - 1], i)
  <2>1. \A i \in 0 .. n : G[i] = IF i = 0 THEN <<>> ELSE Extend(p, G[i - 1], i)
    BY <1>7
  <2>2. 0 \in 0 .. n /\ \A i \in 1 .. n : i \in 0 .. n /\ i # 0
    BY <1>1
  <2>3. QED
    BY <2>1, <2>2, Zenon
<1>9. \A i \in 0 .. n : G[i] \in Seq(S)
  <2>1. G[0] \in Seq(S)
    BY <1>2, <1>8, Zenon
  <2>2. \A i \in 1 .. n : G[i - 1] \in Seq(S) => G[i] \in Seq(S)
    BY <1>0, <1>8
  <2>3. QED
    BY <1>1, <2>1, <2>2, RecursionKeeps
<1>10. G \in [0 .. n -> Seq(S)]
  <2>1. G = [i \in 0 .. n |-> G[i]]
    BY <1>7
  <2>2. QED
    BY <2>1, <1>9
<1>11. Naming(p, S, G)
  BY <1>8, <1>10 DEF Naming, n
<1>12. QED
  BY <1>4, <1>11 DEF n

-----------------------------------------------------------------------------
(* Counting.                                                               *)

\* The names less the ".." after component i, up to component j.
Net(p, i, j) == Downs(p, i + 1, j) - Ups(p, i + 1, j)

LEMMA CountStep ==
  ASSUME NEW i \in Int, NEW j \in Int, i <= j + 1, NEW T
  PROVE  LET C(m) == Cardinality({k \in i .. m : k \in T}) IN
         /\ C(j) \in Nat
         /\ C(j + 1) = IF j + 1 \in T THEN C(j) + 1 ELSE C(j)
<1> DEFINE A(m) == {k \in i .. m : k \in T}
<1>1. IsFiniteSet(A(j))
  <2>1. IsFiniteSet(i .. j)
    BY FS_Interval
  <2>2. A(j) \subseteq i .. j
    OBVIOUS
  <2>3. QED
    BY <2>1, <2>2, FS_Subset
<1>2. Cardinality(A(j)) \in Nat
  BY <1>1, FS_CardinalityType
<1>3. CASE j + 1 \in T
  <2>1. A(j + 1) = A(j) \cup {j + 1} /\ j + 1 \notin A(j)
    BY <1>3
  <2>2. Cardinality(A(j) \cup {j + 1}) = Cardinality(A(j)) + 1
    <3> HIDE DEF A
    <3>1. QED
      BY <1>1, <2>1, FS_AddElement
  <2>3. QED
    BY <1>2, <1>3, <2>1, <2>2
<1>4. CASE j + 1 \notin T
  <2>1. A(j + 1) = A(j)
    BY <1>4
  <2>2. QED
    BY <1>2, <1>4, <2>1
<1>5. QED
  BY <1>3, <1>4

\* A name counts up and ".." down; what Clean skips does not count.
LEMMA NetStep ==
  ASSUME NEW p, NEW i \in Nat, NEW j \in Nat, i <= j
  PROVE  /\ Ups(p, i + 1, j) \in Nat /\ Downs(p, i + 1, j) \in Nat
         /\ Net(p, i, j) \in Int
         /\ p.parts[j + 1] \in Skipped => Net(p, i, j + 1) = Net(p, i, j)
         /\ p.parts[j + 1] = ".." => Net(p, i, j + 1) = Net(p, i, j) - 1
         /\ p.parts[j + 1] \notin NoName => Net(p, i, j + 1) = Net(p, i, j) + 1
<1> DEFINE T == {k \in Int : p.parts[k] = ".."}
           U == {k \in Int : p.parts[k] \notin NoName}
           CT(m) == Cardinality({k \in i + 1 .. m : k \in T})
           CU(m) == Cardinality({k \in i + 1 .. m : k \in U})
<1>1. \A m \in Int : Ups(p, i + 1, m) = CT(m)
  <2> SUFFICES ASSUME NEW m \in Int PROVE Ups(p, i + 1, m) = CT(m)
    OBVIOUS
  <2>1. {k \in i + 1 .. m : p.parts[k] = ".."} = {k \in i + 1 .. m : k \in T}
    OBVIOUS
  <2>2. QED
    BY <2>1 DEF Ups
<1>2. \A m \in Int : Downs(p, i + 1, m) = CU(m)
  <2> SUFFICES ASSUME NEW m \in Int PROVE Downs(p, i + 1, m) = CU(m)
    OBVIOUS
  <2>1. {k \in i + 1 .. m : p.parts[k] \notin NoName} = {k \in i + 1 .. m : k \in U}
    OBVIOUS
  <2>2. QED
    BY <2>1 DEF Downs, NoName
<1>3. i + 1 \in Int /\ j \in Int /\ i + 1 <= j + 1 /\ j + 1 \in Int
  OBVIOUS
<1>4. /\ j + 1 \in T <=> p.parts[j + 1] = ".."
      /\ j + 1 \in U <=> p.parts[j + 1] \notin NoName
  OBVIOUS
<1> HIDE DEF T, U
<1>5. CT(j) \in Nat /\ CT(j + 1) = IF j + 1 \in T THEN CT(j) + 1 ELSE CT(j)
  BY <1>3, CountStep
<1>6. CU(j) \in Nat /\ CU(j + 1) = IF j + 1 \in U THEN CU(j) + 1 ELSE CU(j)
  BY <1>3, CountStep
<1> HIDE DEF CT, CU
<1>7. /\ Net(p, i, j) = CU(j) - CT(j)
      /\ Net(p, i, j + 1) = CU(j + 1) - CT(j + 1)
  BY <1>1, <1>2, <1>3 DEF Net
<1>8. p.parts[j + 1] \in Skipped => p.parts[j + 1] # ".." /\ p.parts[j + 1] \in NoName
  BY DEF Skipped, NoName
<1>9. p.parts[j + 1] = ".." => p.parts[j + 1] \in NoName
  BY DEF NoName
<1>10. p.parts[j + 1] \notin NoName => p.parts[j + 1] # ".."
  BY DEF NoName
<1>11. Ups(p, i + 1, j) = CT(j) /\ Downs(p, i + 1, j) = CU(j)
  BY <1>1, <1>2, <1>3
<1>12. QED
  BY <1>4, <1>5, <1>6, <1>7, <1>8, <1>9, <1>10, <1>11

LEMMA NetZero ==
  ASSUME NEW p, NEW i \in Nat
  PROVE  Net(p, i, i) = 0
<1>1. i + 1 .. i = {}
  OBVIOUS
<1>2. {k \in i + 1 .. i : p.parts[k] = ".."} = {}
      /\ {k \in i + 1 .. i : p.parts[k] \notin {"", ".", ".."}} = {}
  BY <1>1
<1>3. Cardinality({}) = 0
  BY FS_EmptySet
<1>4. Ups(p, i + 1, i) = 0 /\ Downs(p, i + 1, i) = 0
  BY <1>2, <1>3, Zenon DEF Ups, Downs
<1>5. QED
  BY <1>4 DEF Net

-----------------------------------------------------------------------------
(* What a rooted path keeps.                                               *)

\* No component of what is kept is skipped or leads up.
NamesOnly(s) == \A q \in 1 .. Len(s) : s[q] \notin NoName

LEMMA EnterRooted ==
  ASSUME NEW S, NEW s \in Seq(S), NEW part \in S, NamesOnly(s)
  PROVE  LET t == Enter(TRUE, s, part) IN
         /\ NamesOnly(t)
         /\ part \in Skipped => t = s
         /\ part = ".." /\ s = <<>> => t = <<>>
         /\ part = ".." /\ s # <<>> => t = Front(s)
         /\ part \notin NoName => t = Append(s, part)
<1>0. Len(s) \in Nat /\ (s # <<>> => Len(s) \in 1 .. Len(s))
  OBVIOUS
<1>1. CASE part \in Skipped
  <2>1. Enter(TRUE, s, part) = s /\ part # ".." /\ part \in NoName
    BY <1>1 DEF Enter, Skipped, NoName
  <2>2. QED
    BY <1>1, <2>1
<1>2. CASE part = ".." /\ s = <<>>
  <2>1. Enter(TRUE, s, part) = <<>> /\ part \notin Skipped /\ part \in NoName
    BY <1>2 DEF Enter, Skipped, NoName
  <2>2. QED
    BY <1>2, <2>1
<1>3. CASE part = ".." /\ s # <<>>
  <2>1. s[Len(s)] # ".."
    BY <1>0, <1>3 DEF NamesOnly, NoName
  <2>2. Enter(TRUE, s, part) = Front(s) /\ part \notin Skipped /\ part \in NoName
    BY <1>3, <2>1 DEF Enter, Skipped, NoName
  <2>3. NamesOnly(Front(s))
    <3>1. \A q \in 1 .. Len(s) - 1 : q \in 1 .. Len(s)
      BY <1>0
    <3>2. QED
      BY <1>3, <3>1, FrontTyped DEF NamesOnly
  <2>4. QED
    BY <1>3, <2>2, <2>3
<1>4. CASE part \notin NoName
  <2>1. Enter(TRUE, s, part) = Append(s, part) /\ part \notin Skipped /\ part # ".."
    BY <1>4 DEF Enter, Skipped, NoName
  <2>2. NamesOnly(Append(s, part))
    BY <1>4 DEF NamesOnly
  <2>3. QED
    BY <1>4, <2>1, <2>2
<1>5. part \in Skipped \/ part = ".." \/ part \notin NoName
  BY DEF Skipped, NoName
<1>6. QED
  BY <1>1, <1>2, <1>3, <1>4, <1>5

\* What a component does to what is kept, and to its length.
LEMMA KeptNames ==
  ASSUME NEW S, NEW parts \in Seq(S), NEW g, Keeping(TRUE, parts, S, g)
  PROVE  \A i \in 0 .. Len(parts) : g[i] \in Seq(S) /\ NamesOnly(g[i])
<1> DEFINE A == {s \in Seq(S) : NamesOnly(s)}
<1>1. Len(parts) \in Nat /\ \A i \in 1 .. Len(parts) : parts[i] \in S
  OBVIOUS
<1>2. g[0] \in A
  <2>1. <<>> \in Seq(S) /\ NamesOnly(<<>>)
    BY DEF NamesOnly
  <2>2. QED
    BY <2>1 DEF Keeping
<1>3. ASSUME NEW i \in 1 .. Len(parts), g[i - 1] \in A PROVE g[i] \in A
  <2>1. g[i] = Enter(TRUE, g[i - 1], parts[i])
    BY DEF Keeping
  <2>2. g[i - 1] \in Seq(S) /\ NamesOnly(g[i - 1]) /\ parts[i] \in S
    BY <1>1, <1>3
  <2>3. NamesOnly(Enter(TRUE, g[i - 1], parts[i]))
    BY <2>2, EnterRooted, Zenon
  <2>4. Enter(TRUE, g[i - 1], parts[i]) \in Seq(S)
    BY <2>2, EnterTyped
  <2>5. QED
    BY <2>1, <2>3, <2>4
<1>4. \A i \in 1 .. Len(parts) : g[i - 1] \in A => g[i] \in A
  BY <1>3
<1>5. \A i \in 0 .. Len(parts) : g[i] \in A
  <2> HIDE DEF A
  <2>1. QED
    BY <1>1, <1>2, <1>4, RecursionKeeps
<1>6. QED
  BY <1>5

Moves(S, part, before, after) ==
  /\ after \in Seq(S) /\ before \in Seq(S)
  /\ part \in Skipped => after = before
  /\ part = ".." /\ before = <<>> => after = <<>>
  /\ part = ".." /\ before # <<>> =>
       /\ Len(after) = Len(before) - 1
       /\ \A q \in 1 .. Len(before) - 1 : after[q] = before[q]
  /\ part \notin NoName => after = Append(before, part)

LEMMA KeptStep ==
  ASSUME NEW S, NEW parts \in Seq(S), NEW g, Keeping(TRUE, parts, S, g),
         NEW i \in 1 .. Len(parts)
  PROVE  Moves(S, parts[i], g[i - 1], g[i])
<1>1. i - 1 \in 0 .. Len(parts) /\ i \in 0 .. Len(parts) /\ parts[i] \in S
  OBVIOUS
<1>2. g[i] \in Seq(S) /\ g[i - 1] \in Seq(S) /\ NamesOnly(g[i - 1])
  BY <1>1, KeptNames
<1>3. g[i] = Enter(TRUE, g[i - 1], parts[i])
  BY DEF Keeping
<1>4. /\ parts[i] \in Skipped => g[i] = g[i - 1]
      /\ parts[i] = ".." /\ g[i - 1] = <<>> => g[i] = <<>>
      /\ parts[i] = ".." /\ g[i - 1] # <<>> => g[i] = Front(g[i - 1])
      /\ parts[i] \notin NoName => g[i] = Append(g[i - 1], parts[i])
  <2> DEFINE t == Enter(TRUE, g[i - 1], parts[i])
  <2>1. /\ parts[i] \in Skipped => t = g[i - 1]
        /\ parts[i] = ".." /\ g[i - 1] = <<>> => t = <<>>
        /\ parts[i] = ".." /\ g[i - 1] # <<>> => t = Front(g[i - 1])
        /\ parts[i] \notin NoName => t = Append(g[i - 1], parts[i])
    BY <1>1, <1>2, EnterRooted, Zenon
  <2>2. QED
    BY <1>3, <2>1, Zenon
<1>5. QED
  BY <1>2, <1>4, FrontTyped DEF Moves

-----------------------------------------------------------------------------
(* Which names survive.                                                    *)

\* As long as no less is kept than after component i, the lengths differ by
\* what was counted.
LEMMA HeightsCount ==
  ASSUME NEW S, NEW p \in PathsOver(S), NEW g, Keeping(TRUE, p.parts, S, g),
         NEW i \in 1 .. Len(p.parts), Len(g[i]) > 0, NEW m \in i .. Len(p.parts),
         \A j \in i .. m - 1 : Len(g[j]) >= Len(g[i])
  PROVE  Len(g[m]) = Len(g[i]) + Net(p, i, m)
<1> DEFINE n == m - i
           T == {d \in 0 .. n : Len(g[i + d]) = Len(g[i]) + Net(p, i, i + d)}
<1>0. /\ n \in Nat /\ i \in Nat /\ p.parts \in Seq(S) /\ Len(p.parts) \in Nat
      /\ \A d \in 0 .. n : i + d \in 0 .. Len(p.parts)
      /\ m = i + n
  BY DEF PathsOver
<1>1. \A j \in 0 .. Len(p.parts) : g[j] \in Seq(S) /\ Len(g[j]) \in Nat
  <2>1. \A j \in 0 .. Len(p.parts) : g[j] \in Seq(S)
    BY <1>0, KeptNames, Zenon
  <2>2. QED
    BY <2>1
<1>2. 0 \in T
  <2>1. Len(g[i]) \in Nat /\ Net(p, i, i) = 0 /\ i + 0 = i /\ 0 \in 0 .. n
    BY <1>0, <1>1, NetZero
  <2>2. QED
    BY <2>1
<1>3. ASSUME NEW d \in 0 .. n - 1, d \in T PROVE d + 1 \in T
  <2> DEFINE j == i + d
  <2>1. /\ j \in i .. m - 1 /\ j \in Nat /\ i <= j /\ j + 1 \in 1 .. Len(p.parts)
        /\ (j + 1) - 1 = j /\ d + 1 \in 0 .. n /\ i + (d + 1) = j + 1
        /\ j \in 0 .. Len(p.parts) /\ i \in 0 .. Len(p.parts)
    BY <1>0
  <2>2. Len(g[j]) = Len(g[i]) + Net(p, i, j)
    BY <1>3
  <2> HIDE DEF j
  <2>3. Len(g[j]) >= Len(g[i]) /\ Len(g[j]) > 0 /\ Len(g[j]) \in Nat /\ Len(g[i]) \in Nat
    BY <1>1, <2>1
  <2>4. g[j] # <<>> /\ g[j] \in Seq(S)
    BY <1>1, <2>1, <2>3
  <2>5. /\ Net(p, i, j) \in Int
        /\ p.parts[j + 1] \in Skipped => Net(p, i, j + 1) = Net(p, i, j)
        /\ p.parts[j + 1] = ".." => Net(p, i, j + 1) = Net(p, i, j) - 1
        /\ p.parts[j + 1] \notin NoName => Net(p, i, j + 1) = Net(p, i, j) + 1
    BY <1>0, <2>1, NetStep
  <2>6. /\ p.parts[j + 1] \in Skipped => Len(g[j + 1]) = Len(g[j])
        /\ p.parts[j + 1] = ".." => Len(g[j + 1]) = Len(g[j]) - 1
        /\ p.parts[j + 1] \notin NoName => Len(g[j + 1]) = Len(g[j]) + 1
    <3>1. /\ p.parts[j + 1] \in Skipped => g[j + 1] = g[j]
          /\ p.parts[j + 1] = ".." => Len(g[j + 1]) = Len(g[j]) - 1
          /\ p.parts[j + 1] \notin NoName => g[j + 1] = Append(g[j], p.parts[j + 1])
      <4>1. Moves(S, p.parts[j + 1], g[(j + 1) - 1], g[j + 1])
        BY <1>0, <2>1, KeptStep, Zenon
      <4>2. Moves(S, p.parts[j + 1], g[j], g[j + 1])
        BY <2>1, <4>1
      <4>3. QED
        BY <2>4, <4>2 DEF Moves
    <3>2. Len(Append(g[j], p.parts[j + 1])) = Len(g[j]) + 1
      BY <2>4
    <3>3. QED
      BY <3>1, <3>2
  <2>7. p.parts[j + 1] \in Skipped \/ p.parts[j + 1] = ".." \/ p.parts[j + 1] \notin NoName
    BY DEF Skipped, NoName
  <2>8. Len(g[j + 1]) = Len(g[i]) + Net(p, i, j + 1)
    <3> DEFINE a == Len(g[j])
               b == Len(g[j + 1])
               x == Net(p, i, j)
               y == Net(p, i, j + 1)
               least == Len(g[i])
    <3>1. \/ b = a /\ y = x
          \/ b = a - 1 /\ y = x - 1
          \/ b = a + 1 /\ y = x + 1
      BY <2>5, <2>6, <2>7, Zenon
    <3>2. a \in Int /\ x \in Int /\ least \in Int /\ a = least + x
      BY <2>2, <2>3, <2>5
    <3> HIDE DEF n, T, a, b, x, y, least
    <3>3. b = least + y
      BY <3>1, <3>2
    <3>4. QED
      BY <3>3 DEF b, y, least
  <2>9. QED
    BY <2>1, <2>8
<1>4. \A d \in 0 .. n - 1 : d \in T => d + 1 \in T
  BY <1>3
<1>5. n \in T
  <2> HIDE DEF T, n
  <2>1. 0 .. n \subseteq T
    BY <1>0, <1>2, <1>4, UpTo
  <2>2. QED
    BY <1>0, <2>1
<1>6. QED
  BY <1>0, <1>5

\* A name survives if and only if nothing below it is ever reached again.
LEMMA SurvivesHeights ==
  ASSUME NEW S, NEW p \in PathsOver(S), NEW g, Keeping(TRUE, p.parts, S, g),
         NEW i \in 1 .. Len(p.parts), p.parts[i] \notin NoName
  PROVE  Survives(p, i) <=> \A j \in i .. Len(p.parts) : Len(g[j]) >= Len(g[i])
<1>0. /\ i \in Nat /\ p.parts \in Seq(S) /\ Len(p.parts) \in Nat
      /\ i - 1 \in 0 .. Len(p.parts)
  BY DEF PathsOver
<1>1. \A j \in 0 .. Len(p.parts) : g[j] \in Seq(S) /\ Len(g[j]) \in Nat
  <2>1. \A j \in 0 .. Len(p.parts) : g[j] \in Seq(S)
    BY <1>0, KeptNames, Zenon
  <2>2. QED
    BY <2>1
<1>2. Len(g[i]) > 0
  <2>1. g[i] = Append(g[i - 1], p.parts[i]) /\ g[i - 1] \in Seq(S)
    <3>1. Moves(S, p.parts[i], g[i - 1], g[i])
      BY <1>0, KeptStep, Zenon
    <3>2. QED
      BY <3>1 DEF Moves
  <2>2. QED
    BY <2>1
<1>3. \A j \in i .. Len(p.parts) :
        /\ Net(p, i, j) \in Int
        /\ Net(p, i, j) >= 0 <=> Ups(p, i + 1, j) <= Downs(p, i + 1, j)
  <2> SUFFICES ASSUME NEW j \in i .. Len(p.parts)
               PROVE  /\ Net(p, i, j) \in Int
                      /\ Net(p, i, j) >= 0 <=> Ups(p, i + 1, j) <= Downs(p, i + 1, j)
    OBVIOUS
  <2>1. j \in Nat /\ i <= j
    BY <1>0
  <2>2. Ups(p, i + 1, j) \in Nat /\ Downs(p, i + 1, j) \in Nat /\ Net(p, i, j) \in Int
    BY <1>0, <2>1, NetStep
  <2>3. QED
    BY <2>2 DEF Net
<1>4. Survives(p, i) <=> \A j \in i + 1 .. Len(p.parts) : Net(p, i, j) >= 0
  <2>1. \A j \in i + 1 .. Len(p.parts) : j \in i .. Len(p.parts)
    BY <1>0
  <2>2. Survives(p, i) <=> \A j \in i + 1 .. Len(p.parts) :
                             Ups(p, i + 1, j) <= Downs(p, i + 1, j)
    BY DEF Survives, NoName
  <2>3. QED
    BY <1>3, <2>1, <2>2
<1>5. ASSUME \A j \in i .. Len(p.parts) : Len(g[j]) >= Len(g[i]),
             NEW m \in i + 1 .. Len(p.parts)
      PROVE  Net(p, i, m) >= 0
  <2>1. m \in i .. Len(p.parts) /\ m \in 0 .. Len(p.parts) /\ i \in 0 .. Len(p.parts)
        /\ \A j \in i .. m - 1 : j \in i .. Len(p.parts)
    BY <1>0
  <2>2. Len(g[m]) = Len(g[i]) + Net(p, i, m)
    BY <1>2, <1>5, <2>1, HeightsCount
  <2>3. QED
    BY <1>1, <1>3, <1>5, <2>1, <2>2
<1>6. ASSUME \A j \in i + 1 .. Len(p.parts) : Net(p, i, j) >= 0,
             NEW k \in i .. Len(p.parts), Len(g[k]) < Len(g[i])
      PROVE  FALSE
  <2> DEFINE B == {j \in i .. Len(p.parts) : Len(g[j]) < Len(g[i])}
  <2>1. B \subseteq Nat /\ B # {}
    BY <1>0, <1>6
  <2>2. PICK m \in B : \A j \in B : m <= j
    <3> HIDE DEF B
    <3>1. QED
      BY <2>1, LeastNumber
  <2>3. m \in i .. Len(p.parts) /\ Len(g[m]) < Len(g[i]) /\ m # i
    BY <1>0, <1>1, <2>2
  <2>4. \A j \in i .. m - 1 : Len(g[j]) >= Len(g[i])
    <3> SUFFICES ASSUME NEW j \in i .. m - 1 PROVE Len(g[j]) >= Len(g[i])
      OBVIOUS
    <3>1. j \in i .. Len(p.parts) /\ ~ m <= j /\ j \in 0 .. Len(p.parts)
          /\ i \in 0 .. Len(p.parts)
      BY <1>0, <2>3
    <3>2. j \notin B
      BY <2>2, <3>1
    <3>3. QED
      BY <1>1, <3>1, <3>2
  <2>5. Len(g[m]) = Len(g[i]) + Net(p, i, m)
    BY <1>2, <2>3, <2>4, HeightsCount
  <2>6. m \in i + 1 .. Len(p.parts) /\ m \in 0 .. Len(p.parts) /\ i \in 0 .. Len(p.parts)
    BY <1>0, <2>3
  <2>7. Net(p, i, m) >= 0 /\ Net(p, i, m) \in Int
    BY <1>3, <1>6, <2>3, <2>6
  <2>8. QED
    BY <1>1, <2>3, <2>5, <2>6, <2>7
<1>7. \A j \in i .. Len(p.parts) : Len(g[j]) \in Int /\ Len(g[i]) \in Int
  BY <1>0, <1>1
<1>8. QED
  BY <1>4, <1>5, <1>6, <1>7

-----------------------------------------------------------------------------
(* What a rooted path keeps is what it denotes.                            *)

\* The least number of components kept from i on: so many of those kept at i
\* survive.
Heights(g, i, n) == {Len(g[j]) : j \in i .. n}
Low(g, i, n) == CHOOSE x \in Heights(g, i, n) : \A y \in Heights(g, i, n) : x <= y

LEMMA LowFacts ==
  ASSUME NEW n \in Nat, NEW i \in 0 .. n, NEW g, \A j \in 0 .. n : Len(g[j]) \in Nat
  PROVE  /\ Low(g, i, n) \in Nat
         /\ \A j \in i .. n : Low(g, i, n) <= Len(g[j])
         /\ \E j \in i .. n : Low(g, i, n) = Len(g[j])
<1> DEFINE H == Heights(g, i, n)
<1>1. H \subseteq Nat /\ H # {}
  <2>1. \A j \in i .. n : j \in 0 .. n
    OBVIOUS
  <2>2. i \in i .. n
    OBVIOUS
  <2>3. QED
    BY <2>1, <2>2 DEF Heights
<1>2. \E x \in H : \A y \in H : x <= y
  <2> HIDE DEF H
  <2>1. QED
    BY <1>1, LeastNumber
<1>3. Low(g, i, n) \in H /\ \A y \in H : Low(g, i, n) <= y
  BY <1>2 DEF Low
<1>4. QED
  BY <1>1, <1>3 DEF Heights

\* From one component to the next.
LEMMA LowNext ==
  ASSUME NEW n \in Nat, NEW i \in 0 .. n - 1, NEW g, \A j \in 0 .. n : Len(g[j]) \in Nat
  PROVE  LET a == Low(g, i, n)
             b == Low(g, i + 1, n) IN
         /\ a \in Nat /\ b \in Nat
         /\ a <= Len(g[i]) /\ a <= b /\ b <= Len(g[i + 1])
         /\ a = Len(g[i]) \/ a = b
<1> DEFINE a == Low(g, i, n)
           b == Low(g, i + 1, n)
<1>0. i \in 0 .. n /\ i + 1 \in 0 .. n
  OBVIOUS
<1>1. /\ a \in Nat /\ \A j \in i .. n : a <= Len(g[j])
      /\ \E j \in i .. n : a = Len(g[j])
  BY <1>0, LowFacts
<1>2. /\ b \in Nat /\ \A j \in i + 1 .. n : b <= Len(g[j])
      /\ \E j \in i + 1 .. n : b = Len(g[j])
  BY <1>0, LowFacts
<1> HIDE DEF a, b
<1>3. i \in i .. n /\ i + 1 \in i + 1 .. n /\ \A j \in i + 1 .. n : j \in i .. n
  OBVIOUS
<1>4. a <= Len(g[i]) /\ a <= b /\ b <= Len(g[i + 1])
  BY <1>1, <1>2, <1>3
<1>5. a = Len(g[i]) \/ a = b
  <2>1. PICK j \in i .. n : a = Len(g[j])
    BY <1>1
  <2>2. CASE j = i
    BY <2>1, <2>2
  <2>3. CASE j \in i + 1 .. n
    <3>1. b <= a
      BY <1>2, <2>1, <2>3
    <3>2. QED
      BY <1>1, <1>2, <1>4, <3>1
  <2>4. QED
    BY <2>2, <2>3
<1>6. QED
  BY <1>1, <1>2, <1>4, <1>5 DEF a, b

\* s is the beginning of t, of that length.
Begins(s, t, length) == Len(s) = length /\ \A q \in 1 .. length : s[q] = t[q]

LEMMA NamesBegin ==
  ASSUME NEW S, NEW p \in PathsOver(S),
         NEW g, Keeping(TRUE, p.parts, S, g), NEW f, Naming(p, S, f),
         NEW i \in 0 .. Len(p.parts) - 1,
         Begins(f[i], g[i], Low(g, i, Len(p.parts)))
  PROVE  Begins(f[i + 1], g[i + 1], Low(g, i + 1, Len(p.parts)))
<1> DEFINE n == Len(p.parts)
           k == i + 1
           a == Low(g, i, n)
           b == Low(g, k, n)
           part == p.parts[k]
<1>0. /\ p.parts \in Seq(S) /\ n \in Nat /\ k \in 1 .. n /\ k - 1 = i /\ part \in S
      /\ i \in 0 .. n /\ k \in 0 .. n /\ k \in k .. n
  BY DEF PathsOver
<1>1. \A j \in 0 .. n : g[j] \in Seq(S) /\ Len(g[j]) \in Nat
  <2>1. \A j \in 0 .. n : g[j] \in Seq(S)
    BY <1>0, KeptNames, Zenon
  <2>2. QED
    BY <2>1
<1>2. /\ f[i] \in Seq(S) /\ f[k] \in Seq(S)
      /\ f[k] = IF Survives(p, k) THEN Append(f[i], part) ELSE f[i]
  BY <1>0 DEF Naming, Extend
<1>3. Moves(S, part, g[i], g[k])
  <2>1. Moves(S, p.parts[k], g[k - 1], g[k])
    BY <1>0, KeptStep, Zenon
  <2>2. QED
    BY <1>0, <2>1
<1>4. /\ a \in Nat /\ b \in Nat
      /\ a <= Len(g[i]) /\ a <= b /\ b <= Len(g[k])
      /\ a = Len(g[i]) \/ a = b
  BY <1>0, <1>1, LowNext
<1>5. /\ b \in Nat /\ \A j \in k .. n : b <= Len(g[j])
      /\ \E j \in k .. n : b = Len(g[j])
  BY <1>0, <1>1, LowFacts
<1>6. part \notin NoName => (Survives(p, k) <=> \A j \in k .. n : Len(g[j]) >= Len(g[k]))
  BY <1>0, SurvivesHeights, Zenon
<1>7. Survives(p, k) => part \notin NoName
  BY DEF Survives, NoName
<1>8. Len(f[i]) = a /\ \A q \in 1 .. a : f[i][q] = g[i][q]
  BY DEF Begins
<1>9. Len(g[i]) \in Nat /\ Len(g[k]) \in Nat
  BY <1>0, <1>1
<1> HIDE DEF a, b, n, k, part
<1>10. CASE part \notin NoName
  <2>1. /\ g[k] = Append(g[i], part) /\ g[i] \in Seq(S) /\ part \in S
    BY <1>0, <1>3, <1>10 DEF Moves
  <2>2. Len(g[k]) = Len(g[i]) + 1 /\ g[k][Len(g[i]) + 1] = part
        /\ \A q \in 1 .. Len(g[i]) : g[k][q] = g[i][q]
    BY <2>1
  <2>3. CASE Survives(p, k)
    <3>1. b = Len(g[k])
      <4>1. PICK j \in k .. n : b = Len(g[j])
        BY <1>5
      <4>2. Len(g[j]) >= Len(g[k])
        BY <1>6, <1>10, <2>3
      <4>3. QED
        BY <1>4, <1>9, <4>1, <4>2
    <3>2. a = Len(g[i]) /\ b = a + 1
      BY <1>4, <1>9, <2>2, <3>1
    <3>3. f[k] = Append(f[i], part)
      BY <1>2, <2>3
    <3>4. Len(f[k]) = a + 1 /\ f[k][a + 1] = part /\ \A q \in 1 .. a : f[k][q] = f[i][q]
      BY <1>0, <1>2, <1>8, <3>3
    <3>5. \A q \in 1 .. a + 1 : q \in 1 .. a \/ q = a + 1
      BY <1>4
    <3>6. QED
      BY <1>8, <2>2, <3>2, <3>4, <3>5 DEF Begins, b, n, k
  <2>4. CASE ~ Survives(p, k)
    <3>1. b < Len(g[k])
      <4>1. PICK j \in k .. n : ~ (Len(g[j]) >= Len(g[k]))
        BY <1>6, <1>10, <2>4
      <4>2. j \in 0 .. n
        BY <1>0
      <4>3. Len(g[j]) \in Nat /\ b <= Len(g[j])
        BY <1>1, <1>5, <4>2
      <4>4. QED
        BY <1>4, <1>9, <4>1, <4>3
    <3>2. a = b /\ b <= Len(g[i])
      BY <1>4, <1>9, <2>2, <3>1
    <3>3. f[k] = f[i]
      BY <1>2, <2>4
    <3>4. \A q \in 1 .. b : q \in 1 .. Len(g[i])
      BY <1>4, <1>9, <3>2
    <3>5. QED
      BY <1>8, <2>2, <3>2, <3>3, <3>4 DEF Begins, b, n, k
  <2>5. QED
    BY <2>3, <2>4
<1>11. CASE part \in NoName
  <2>1. f[k] = f[i]
    BY <1>2, <1>7, <1>11
  <2>2. CASE part \in Skipped
    <3>1. g[k] = g[i]
      BY <1>3, <2>2 DEF Moves
    <3>2. a = b
      BY <1>4, <1>9, <3>1
    <3>3. QED
      BY <1>8, <2>1, <3>1, <3>2 DEF Begins, b, n, k
  <2>3. CASE part = ".." /\ g[i] = <<>>
    <3>1. g[k] = <<>>
      BY <1>3, <2>3 DEF Moves
    <3>2. a = b
      BY <1>4, <1>9, <2>3, <3>1
    <3>3. QED
      BY <1>8, <2>1, <2>3, <3>1, <3>2 DEF Begins, b, n, k
  <2>4. CASE part = ".." /\ g[i] # <<>>
    <3>1. /\ Len(g[k]) = Len(g[i]) - 1
          /\ \A q \in 1 .. Len(g[i]) - 1 : g[k][q] = g[i][q]
      BY <1>3, <2>4 DEF Moves
    <3>2. a = b /\ b <= Len(g[i]) - 1
      BY <1>4, <1>9, <3>1
    <3>3. \A q \in 1 .. b : q \in 1 .. Len(g[i]) - 1
      BY <1>4, <1>9, <3>2
    <3>4. QED
      BY <1>8, <2>1, <3>1, <3>2, <3>3 DEF Begins, b, n, k
  <2>5. QED
    BY <1>11, <2>2, <2>3, <2>4 DEF NoName, Skipped
<1>12. QED
  BY <1>10, <1>11

\* What path.Clean keeps of a rooted path is what the path denotes.
LEMMA KeptIsDenoted ==
  ASSUME NEW S, NEW p \in PathsOver(S), NEW g, Keeping(TRUE, p.parts, S, g)
  PROVE  g[Len(p.parts)] = Denotes(p)
<1>1. PICK f : Naming(p, S, f) /\ Denotes(p) = f[Len(p.parts)]
  BY DenotesNames
<1> DEFINE n == Len(p.parts)
           T == {i \in 0 .. n : Begins(f[i], g[i], Low(g, i, n))}
<1>0. n \in Nat /\ p.parts \in Seq(S) /\ n \in n .. n /\ n \in 0 .. n /\ 0 \in 0 .. n
      /\ \A j \in n .. n : j = n
  BY DEF PathsOver
<1>2. \A j \in 0 .. n : g[j] \in Seq(S) /\ Len(g[j]) \in Nat
  <2>1. \A j \in 0 .. n : g[j] \in Seq(S)
    BY <1>0, KeptNames, Zenon
  <2>2. QED
    BY <2>1
<1>3. 0 \in T
  <2>1. g[0] = <<>> /\ f[0] = <<>>
    BY <1>1 DEF Keeping, Naming
  <2>2. Low(g, 0, n) \in Nat /\ \A j \in 0 .. n : Low(g, 0, n) <= Len(g[j])
    BY <1>0, <1>2, LowFacts
  <2>3. Low(g, 0, n) <= Len(g[0]) /\ Len(g[0]) = 0
    BY <1>0, <2>1, <2>2
  <2>4. Low(g, 0, n) = 0
    BY <2>2, <2>3
  <2>5. Begins(f[0], g[0], 0)
    BY <2>1 DEF Begins
  <2>6. QED
    BY <1>0, <2>4, <2>5
<1>4. \A i \in 0 .. n - 1 : i \in T => i + 1 \in T
  <2> SUFFICES ASSUME NEW i \in 0 .. n - 1, i \in T PROVE i + 1 \in T
    OBVIOUS
  <2>1. i + 1 \in 0 .. n
    BY <1>0
  <2>2. Begins(f[i], g[i], Low(g, i, n))
    OBVIOUS
  <2>3. Begins(f[i + 1], g[i + 1], Low(g, i + 1, n))
    BY <1>1, <2>2, NamesBegin
  <2>4. QED
    BY <2>1, <2>3
<1>5. n \in T
  <2> HIDE DEF T, n
  <2>1. 0 .. n \subseteq T
    BY <1>0, <1>3, <1>4, UpTo
  <2>2. QED
    BY <1>0, <2>1
<1>6. Low(g, n, n) = Len(g[n])
  <2>1. \E j \in n .. n : Low(g, n, n) = Len(g[j])
    BY <1>0, <1>2, LowFacts
  <2>2. QED
    BY <1>0, <2>1
<1>7. f[n] \in Seq(S) /\ g[n] \in Seq(S)
  BY <1>0, <1>1, <1>2 DEF Naming
<1>8. Len(f[n]) = Len(g[n]) /\ \A q \in 1 .. Len(g[n]) : f[n][q] = g[n][q]
  BY <1>5, <1>6 DEF Begins
<1>9. f[n] = g[n]
  BY <1>7, <1>8
<1>10. QED
  BY <1>1, <1>9

-----------------------------------------------------------------------------
(* Paths that are not rooted, and cleaning twice.                          *)

\* f is s after u times "..".
Led(f, s, u) ==
  /\ Len(f) = u + Len(s)
  /\ \A q \in 1 .. u : f[q] = ".."
  /\ \A q \in 1 .. Len(s) : f[u + q] = s[q]

\* Whether rooted or not, what is kept differs by what leads up at its
\* beginning only.
LEMMA LedNext ==
  ASSUME NEW S, NEW rooted \in BOOLEAN, NEW part \in S,
         NEW f \in Seq(S), NEW s \in Seq(S), NamesOnly(s), NEW u \in Nat, Led(f, s, u)
  PROVE  \E v \in Nat : Led(Enter(rooted, f, part), Enter(TRUE, s, part), v)
<1> DEFINE t == Enter(TRUE, s, part)
           e == Enter(rooted, f, part)
<1>0. /\ Len(s) \in Nat /\ Len(f) \in Nat /\ Len(f) = u + Len(s)
      /\ \A q \in 1 .. u : f[q] = ".."
      /\ \A q \in 1 .. Len(s) : f[u + q] = s[q]
  BY DEF Led
<1>1. /\ part \in Skipped => t = s
      /\ part = ".." /\ s = <<>> => t = <<>>
      /\ part = ".." /\ s # <<>> => t = Front(s)
      /\ part \notin NoName => t = Append(s, part)
  BY EnterRooted
<1> HIDE DEF t
<1>2. CASE part \in Skipped
  <2>1. e = f
    BY <1>2 DEF Enter, Skipped
  <2> HIDE DEF e
  <2>2. QED
    BY <1>1, <1>2, <2>1 DEF e, t
<1>3. CASE part \notin NoName
  <2>1. e = Append(f, part)
    BY <1>3 DEF Enter, NoName
  <2> HIDE DEF e
  <2>2. Led(Append(f, part), Append(s, part), u)
    <3>1. Len(Append(f, part)) = u + Len(Append(s, part))
      BY <1>0
    <3>2. \A q \in 1 .. u : Append(f, part)[q] = ".."
      BY <1>0
    <3>3. ASSUME NEW q \in 1 .. Len(Append(s, part))
          PROVE  Append(f, part)[u + q] = Append(s, part)[q]
      <4>1. CASE q \in 1 .. Len(s)
        <5>1. u + q \in 1 .. Len(f)
          BY <1>0, <4>1
        <5>2. QED
          BY <1>0, <4>1, <5>1
      <4>2. CASE q = Len(s) + 1
        <5>1. u + q = Len(f) + 1
          BY <1>0, <4>2
        <5>2. QED
          BY <4>2, <5>1
      <4>3. QED
        BY <1>0, <4>1, <4>2
    <3>4. QED
      BY <3>1, <3>2, <3>3 DEF Led
  <2>3. QED
    BY <1>1, <1>3, <2>1, <2>2 DEF e, t
<1>4. CASE part = ".." /\ s # <<>>
  <2>1. Len(s) \in 1 .. Len(s) /\ f # <<>> /\ Len(f) = u + Len(s) /\ Len(s) > 0
    BY <1>0, <1>4
  <2>2. f[Len(f)] = s[Len(s)] /\ s[Len(s)] # ".."
    BY <1>0, <2>1 DEF NamesOnly, NoName
  <2>3. e = Front(f)
    BY <1>4, <2>1, <2>2 DEF Enter
  <2> HIDE DEF e
  <2>4. /\ Len(Front(s)) = Len(s) - 1 /\ \A q \in 1 .. Len(s) - 1 : Front(s)[q] = s[q]
        /\ Len(Front(f)) = Len(f) - 1 /\ \A q \in 1 .. Len(f) - 1 : Front(f)[q] = f[q]
    BY <1>4, <2>1, FrontTyped
  <2>5. Led(Front(f), Front(s), u)
    <3>1. Len(Front(f)) = u + Len(Front(s))
      BY <1>0, <2>4
    <3>2. \A q \in 1 .. u : q \in 1 .. Len(f) - 1
      BY <1>0, <2>1
    <3>3. \A q \in 1 .. Len(Front(s)) : q \in 1 .. Len(s) - 1 /\ u + q \in 1 .. Len(f) - 1
                                       /\ q \in 1 .. Len(s)
      BY <1>0, <2>1, <2>4
    <3>4. QED
      BY <1>0, <2>4, <3>1, <3>2, <3>3 DEF Led
  <2>6. QED
    BY <1>1, <1>4, <2>3, <2>5 DEF e, t
<1>5. CASE part = ".." /\ s = <<>>
  <2>1. f # <<>> => f[Len(f)] = ".."
    BY <1>0, <1>5
  <2>2. e = f \/ e = Append(f, "..")
    BY <1>5, <2>1 DEF Enter
  <2>3. t = <<>>
    BY <1>1, <1>5
  <2> HIDE DEF e
  <2>4. CASE e = f
    <3>1. Led(f, <<>>, u)
      BY <1>5
    <3>2. QED
      BY <2>3, <2>4, <3>1 DEF e, t
  <2>5. CASE e = Append(f, "..")
    <3>1. Len(e) = u + 1 /\ \A q \in 1 .. u : e[q] = ".."
      BY <1>0, <1>5, <2>5
    <3>2. e[u + 1] = ".."
      BY <1>0, <1>5, <2>5
    <3>3. \A q \in 1 .. u + 1 : q \in 1 .. u \/ q = u + 1
      OBVIOUS
    <3>4. Led(e, <<>>, u + 1)
      BY <3>1, <3>2, <3>3 DEF Led
    <3>5. u + 1 \in Nat
      OBVIOUS
    <3>6. QED
      BY <2>3, <3>4, <3>5 DEF e, t
  <2>6. QED
    BY <2>2, <2>4, <2>5
<1>6. QED
  BY <1>2, <1>3, <1>4, <1>5 DEF NoName, Skipped

LEMMA KeptLed ==
  ASSUME NEW S, NEW parts \in Seq(S), NEW rooted \in BOOLEAN,
         NEW f, Keeping(rooted, parts, S, f), NEW g, Keeping(TRUE, parts, S, g)
  PROVE  \E u \in Nat : Led(f[Len(parts)], g[Len(parts)], u)
<1> DEFINE n == Len(parts)
           T == {i \in 0 .. n : \E u \in Nat : Led(f[i], g[i], u)}
<1>0. n \in Nat /\ \A i \in 1 .. n : parts[i] \in S
  OBVIOUS
<1>1. 0 \in T
  <2>1. f[0] = <<>> /\ g[0] = <<>>
    BY DEF Keeping
  <2>2. Led(<<>>, <<>>, 0)
    BY DEF Led
  <2>3. 0 \in 0 .. n /\ 0 \in Nat
    BY <1>0
  <2>4. QED
    BY <2>1, <2>2, <2>3
<1>2. \A i \in 0 .. n - 1 : i \in T => i + 1 \in T
  <2> SUFFICES ASSUME NEW i \in 0 .. n - 1, i \in T PROVE i + 1 \in T
    OBVIOUS
  <2>1. /\ i + 1 \in 1 .. n /\ (i + 1) - 1 = i /\ i \in 0 .. n /\ i + 1 \in 0 .. n
        /\ parts[i + 1] \in S
    BY <1>0
  <2>2. PICK u \in Nat : Led(f[i], g[i], u)
    OBVIOUS
  <2>3. f[i] \in Seq(S) /\ g[i] \in Seq(S) /\ NamesOnly(g[i])
    BY <2>1, KeptNames DEF Keeping
  <2>4. /\ f[i + 1] = Enter(rooted, f[i], parts[i + 1])
        /\ g[i + 1] = Enter(TRUE, g[i], parts[i + 1])
    BY <2>1 DEF Keeping
  <2>5. \E v \in Nat : Led(f[i + 1], g[i + 1], v)
    <3>1. \E v \in Nat : Led(Enter(rooted, f[i], parts[i + 1]),
                           Enter(TRUE, g[i], parts[i + 1]), v)
      BY <2>1, <2>2, <2>3, LedNext
    <3>2. QED
      BY <2>4, <3>1
  <2>6. QED
    BY <2>1, <2>5
<1>3. n \in T
  <2> HIDE DEF T, n
  <2>1. 0 .. n \subseteq T
    BY <1>0, <1>1, <1>2, UpTo
  <2>2. QED
    BY <1>0, <2>1
<1>4. QED
  BY <1>3

\* Cleaning what is rooted after it was cleaned takes away what leads up.
LEMMA LedCleaned ==
  ASSUME NEW S, NEW f \in Seq(S), NEW s \in Seq(S), NamesOnly(s),
         NEW u \in Nat, Led(f, s, u), NEW g, Keeping(TRUE, f, S, g)
  PROVE  g[Len(f)] = s
<1> DEFINE n == Len(f)
           Past(i) == IF i <= u THEN 0 ELSE i - u
           T == {i \in 0 .. n : Begins(g[i], s, Past(i))}
<1>0. /\ n \in Nat /\ Len(s) \in Nat /\ n = u + Len(s) /\ n \in 0 .. n
      /\ \A q \in 1 .. u : f[q] = ".."
      /\ \A q \in 1 .. Len(s) : f[u + q] = s[q]
  BY DEF Led
<1>1. \A i \in 0 .. n : g[i] \in Seq(S)
  BY KeptNames
<1>2. 0 \in T
  <2>1. g[0] = <<>> /\ 0 \in 0 .. n /\ Past(0) = 0
    BY <1>0 DEF Keeping
  <2>2. Begins(<<>>, s, 0)
    BY DEF Begins
  <2>3. QED
    BY <2>1, <2>2
<1>3. \A i \in 0 .. n - 1 : i \in T => i + 1 \in T
  <2> SUFFICES ASSUME NEW i \in 0 .. n - 1, i \in T PROVE i + 1 \in T
    OBVIOUS
  <2>1. /\ i + 1 \in 1 .. n /\ (i + 1) - 1 = i /\ i \in 0 .. n /\ i + 1 \in 0 .. n
    BY <1>0
  <2>2. Begins(g[i], s, Past(i))
    OBVIOUS
  <2>3. Moves(S, f[i + 1], g[i], g[i + 1])
    BY <2>1, KeptStep
  <2>4. g[i] \in Seq(S)
    BY <1>1, <2>1
  <2>5. CASE i + 1 <= u
    <3>1. f[i + 1] = ".." /\ Past(i) = 0 /\ Past(i + 1) = 0
      BY <1>0, <2>1, <2>5
    <3> HIDE DEF Past
    <3>2. g[i] = <<>>
      BY <2>2, <2>4, <3>1 DEF Begins
    <3>3. g[i + 1] = <<>>
      BY <2>3, <3>1, <3>2 DEF Moves
    <3>4. Begins(g[i + 1], s, 0)
      BY <3>3 DEF Begins
    <3>5. QED
      BY <2>1, <3>1, <3>4
  <2>6. CASE i >= u
    <3>1. Past(i) = i - u /\ Past(i + 1) = (i - u) + 1
      BY <1>0, <2>6
    <3>2. (i - u) + 1 \in 1 .. Len(s) /\ u + ((i - u) + 1) = i + 1
      BY <1>0, <2>6
    <3> HIDE DEF Past
    <3>3. f[i + 1] = s[(i - u) + 1]
      BY <1>0, <3>2
    <3>4. f[i + 1] \notin NoName
      BY <3>2, <3>3 DEF NamesOnly
    <3>5. g[i + 1] = Append(g[i], f[i + 1])
      BY <2>3, <3>4 DEF Moves
    <3>6. Len(g[i]) = i - u /\ \A q \in 1 .. i - u : g[i][q] = s[q]
      BY <2>2, <3>1 DEF Begins
    <3>7. /\ Len(g[i + 1]) = (i - u) + 1
          /\ \A q \in 1 .. i - u : g[i + 1][q] = g[i][q]
          /\ g[i + 1][(i - u) + 1] = f[i + 1]
      BY <2>4, <3>5, <3>6
    <3>8. \A q \in 1 .. (i - u) + 1 : q \in 1 .. i - u \/ q = (i - u) + 1
      BY <1>0, <2>6
    <3>9. Begins(g[i + 1], s, (i - u) + 1)
      BY <3>3, <3>6, <3>7, <3>8 DEF Begins
    <3>10. QED
      BY <2>1, <3>1, <3>9
  <2>7. QED
    BY <1>0, <2>5, <2>6
<1>4. n \in T
  <2> HIDE DEF T, n
  <2>1. 0 .. n \subseteq T
    BY <1>0, <1>2, <1>3, UpTo
  <2>2. QED
    BY <1>0, <2>1
<1>5. Past(n) = Len(s)
  BY <1>0
<1>6. Len(g[n]) = Len(s) /\ \A q \in 1 .. Len(s) : g[n][q] = s[q]
  BY <1>4, <1>5 DEF Begins
<1>7. g[n] \in Seq(S) /\ s \in Seq(S) /\ n = Len(f)
  BY <1>0, <1>1
<1> HIDE DEF n, T, Past
<1>8. g[n] = s
  BY <1>6, <1>7
<1>9. QED
  BY <1>7, <1>8

-----------------------------------------------------------------------------
(* The checks.                                                             *)

\* However a path is spelled, rooted or not, cleaning it, taking it from the
\* root and cleaning it again, as the controller and the helper do one after
\* the other, gives the names that the path denotes: those that no later ".."
\* takes back.
LEMMA CleanedIsDenoted ==
  ASSUME NEW S, NEW p \in PathsOver(S)
  PROVE  /\ CleanContainerPath(p) \in PathsOver(S)
         /\ CleanContainerPath(p).rooted = TRUE
         /\ Clean(CleanContainerPath(p)).parts = Denotes(p)
         /\ Denotes(p) \in Seq(S)
<1> DEFINE n == Len(p.parts)
           r == [rooted |-> TRUE, parts |-> p.parts]
           c == CleanContainerPath(p)
<1>0. n \in Nat /\ n \in 0 .. n /\ p.parts \in Seq(S) /\ p.rooted \in BOOLEAN
  BY DEF PathsOver
<1>1. PICK f : /\ Keeping(p.rooted, p.parts, S, f)
               /\ Clean(p) = [rooted |-> p.rooted, parts |-> f[n]]
  BY CleanKeeps
<1>2. PICK g : Keeping(TRUE, p.parts, S, g)
  <2>1. r \in PathsOver(S) /\ r.rooted = TRUE /\ r.parts = p.parts
    BY <1>0 DEF PathsOver
  <2>2. \E g : Keeping(r.rooted, r.parts, S, g)
    BY <2>1, CleanKeeps
  <2>3. QED
    BY <2>1, <2>2
<1>3. g[n] = Denotes(p)
  BY <1>2, KeptIsDenoted
<1>4. f[n] \in Seq(S)
  BY <1>0, <1>1 DEF Keeping
<1>5. g[n] \in Seq(S) /\ NamesOnly(g[n])
  BY <1>0, <1>2, KeptNames
<1>6. PICK u \in Nat : Led(f[n], g[n], u)
  BY <1>0, <1>1, <1>2, KeptLed
<1>7. Clean(p) \in PathsOver(S) /\ Clean(p).parts = f[n]
  BY <1>0, <1>1, <1>4 DEF PathsOver
<1>8. c \in PathsOver(S) /\ c.rooted = TRUE /\ c.parts = f[n]
  <2>1. ASSUME NEW a \in PathsOver(S)
        PROVE  LET b == [a EXCEPT !.rooted = TRUE] IN
               b \in PathsOver(S) /\ b.rooted = TRUE /\ b.parts = a.parts
    BY DEF PathsOver
  <2>2. QED
    BY <1>7, <2>1 DEF CleanContainerPath
<1> HIDE DEF c
<1>9. PICK k : /\ Keeping(c.rooted, c.parts, S, k)
               /\ Clean(c) = [rooted |-> c.rooted, parts |-> k[Len(c.parts)]]
  BY <1>8, CleanKeeps
<1>10. k[Len(f[n])] = g[n]
  <2>1. Keeping(TRUE, f[n], S, k)
    BY <1>8, <1>9
  <2>2. QED
    BY <1>4, <1>5, <1>6, <2>1, LedCleaned
<1>11. Clean(c).parts = g[n]
  BY <1>8, <1>9, <1>10
<1>12. QED
  BY <1>3, <1>5, <1>8, <1>11 DEF c

LEMMA Rooted ==
  ASSUME NEW S, NEW s \in Seq(S)
  PROVE  StartsWith(s, <<ScratchRoot>>) <=> s # <<>> /\ s[1] = ScratchRoot
<1>1. Len(<<ScratchRoot>>) = 1 /\ <<ScratchRoot>>[1] = ScratchRoot
  OBVIOUS
<1>2. s # <<>> <=> 1 <= Len(s)
  OBVIOUS
<1>3. ASSUME 1 <= Len(s) PROVE SubSeq(s, 1, 1) = <<s[1]>>
  <2>1. \A i \in 1 .. 1 : s[i] \in S
    BY <1>3
  <2>2. /\ SubSeq(s, 1, 1) \in Seq(S)
        /\ Len(SubSeq(s, 1, 1)) = IF 1 <= 1 THEN 1 - 1 + 1 ELSE 0
        /\ \A i \in 1 .. 1 - 1 + 1 : SubSeq(s, 1, 1)[i] = s[1 + i - 1]
    BY <2>1, SubSeqProperties
  <2>3. Len(SubSeq(s, 1, 1)) = 1 /\ SubSeq(s, 1, 1)[1] = s[1]
    BY <2>2
  <2>4. ASSUME NEW q \in Seq(S), Len(q) = 1 PROVE q = <<q[1]>>
    BY <2>4
  <2>5. QED
    BY <2>2, <2>3, <2>4
<1>4. QED
  BY <1>1, <1>2, <1>3 DEF StartsWith

\* The controller lets a path pass if and only if it is well formed and denotes
\* /scratch or something below it; the check of the helper, made by other
\* rules, then passes too, and what the helper looks up is what is denoted.
THEOREM ChecksAgree ==
  ASSUME NEW S, NEW p \in PathsOver(S)
  PROVE  /\ Accepted(p) <=> /\ ~ Malformed(p)
                            /\ StartsWith(Denotes(p), <<ScratchRoot>>)
         /\ Accepted(p) => /\ Strict(CleanContainerPath(p))
                           /\ RelativeParts(CleanContainerPath(p)) \in Seq(S)
                           /\ <<ScratchRoot>> \o RelativeParts(CleanContainerPath(p))
                                = Denotes(p)
<1> DEFINE c == CleanContainerPath(p)
           d == Denotes(p)
<1>1. c.rooted = TRUE /\ Clean(c).parts = d /\ d \in Seq(S)
  BY CleanedIsDenoted
<1> HIDE DEF c, d
<1>2. Accepted(p) <=> ~ Malformed(p) /\ StartsWith(d, <<ScratchRoot>>)
  BY <1>1 DEF Accepted, IsContainerSubpath, c
<1>3. ASSUME Accepted(p)
      PROVE  /\ Strict(c)
             /\ RelativeParts(c) \in Seq(S)
             /\ <<ScratchRoot>> \o RelativeParts(c) = d
  <2>1. d # <<>> /\ d[1] = ScratchRoot
    BY <1>1, <1>2, <1>3, Rooted
  <2>2. Strict(c)
    BY <1>1, <2>1 DEF Strict, ScratchRoot, ScratchLike
  <2>3. Tail(d) \in Seq(S) /\ <<d[1]>> \o Tail(d) = d
    BY <1>1, <2>1
  <2>4. QED
    BY <1>1, <2>1, <2>2, <2>3 DEF RelativeParts
<1>4. QED
  BY <1>2, <1>3 DEF c, d
=============================================================================
