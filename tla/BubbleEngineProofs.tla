------------------------- MODULE BubbleEngineProofs -------------------------
(***************************************************************************)
(* Proofs about BubbleEngine, for a board of any size, any colours and any *)
(* points.  The type of the board is its own inductive invariant; the      *)
(* action properties follow from it and from what the search in Reach and  *)
(* the push in Pushed compute, which is shown by induction on their waves  *)
(* and columns (module Recursion).                                         *)
(***************************************************************************)
EXTENDS BubbleEngine, Recursion, FiniteSetTheorems

\* Every set of cells can be counted.
LEMMA CellsFinite == IsFiniteSet(Cell)
<1>1. IsFiniteSet(Row) /\ IsFiniteSet(Col)
  BY FS_Interval, BoardAssumption DEF Row, Col
<1>2. QED
  BY <1>1, FS_Product DEF Cell

LEMMA CellSets ==
    ASSUME NEW S, S \subseteq Cell
    PROVE  IsFiniteSet(S) /\ Cardinality(S) \in Nat
BY CellsFinite, FS_Subset, FS_CardinalityType

-----------------------------------------------------------------------------
(* The breadth-first search *)

\* The waves of a search: each adds the cells of S next to the one before.
Waves(w, k, from, S) ==
    /\ k = Cardinality(S \ from)
    /\ w \in [0 .. k -> SUBSET (from \cup S)]
    /\ w[0] = from
    /\ \A n \in 1 .. k : w[n] = w[n - 1] \cup (S \cap UNION {neighbors[at] : at \in w[n - 1]})
    /\ Reach(from, S) = w[k]

LEMMA ReachWaves ==
    ASSUME NEW from, NEW S, from \subseteq Cell, S \subseteq Cell
    PROVE  \E k \in Nat : \E w : Waves(w, k, from, S)
<1>1. PICK k \in Nat : k = Cardinality(S \ from)
  BY CellSets
<1>2. PICK V : V = SUBSET (from \cup S)
  OBVIOUS
<1> DEFINE Wave(w) == w \cup (S \cap UNION {neighbors[at] : at \in w})
           wave[n \in 0 .. k] == IF n = 0 THEN from ELSE LET w == wave[n - 1] IN Wave(w)
<1>3. Reach(from, S) = wave[k]
  BY <1>1 DEF Reach
<1>4. \A w \in V : Wave(w) \in V
  BY <1>2
<1> HIDE DEF Wave
<1>5. PICK go : go = [w \in V |-> Wave(w)]
  OBVIOUS
<1>6. go \in [V -> V] /\ \A w \in V : go[w] = Wave(w)
  BY <1>4, <1>5
<1>7. PICK step : step = [n \in 1 .. k |-> go]
  OBVIOUS
<1>8. step \in Steps(k, V) /\ \A n \in 1 .. k : step[n] = go
  BY <1>6, <1>7 DEF Steps
<1>9. from \in V
  BY <1>2
<1>10. PICK f : Runs(f, k, V, from, step)
  BY <1>8, <1>9, RecursionExists
<1>11. f = [n \in 0 .. k |-> IF n = 0 THEN from ELSE Wave(f[n - 1])]
  <2>1. \A n \in 0 .. k : n # 0 => n \in 1 .. k /\ n - 1 \in 0 .. k
    OBVIOUS
  <2>2. \A n \in 0 .. k : f[n] = IF n = 0 THEN from ELSE Wave(f[n - 1])
    BY <1>6, <1>8, <1>10, <2>1 DEF Runs
  <2>3. QED
    BY <1>10, <2>2 DEF Runs
<1>12. wave = [n \in 0 .. k |-> IF n = 0 THEN from ELSE Wave(wave[n - 1])]
  BY <1>11
<1> HIDE DEF wave
<1>13. PICK g : g = wave
  OBVIOUS
<1>14. \A n \in 0 .. k : g[n] = IF n = 0 THEN from ELSE Wave(g[n - 1])
  BY <1>12, <1>13
<1>15. 0 \in 0 .. k /\ \A n \in 1 .. k : n \in 0 .. k /\ n # 0
  OBVIOUS
<1>16. g[0] = from /\ \A n \in 1 .. k : g[n - 1] \in V => g[n] = step[n][g[n - 1]]
  BY <1>6, <1>8, <1>14, <1>15
<1>17. \A n \in 0 .. k : g[n] = f[n]
  BY <1>10, <1>16, RecursionUnique
<1>18. \A n \in 0 .. k : f[n] \in V
  BY <1>10 DEF Runs
<1>19. g \in [0 .. k -> V]
  <2>1. g = [n \in 0 .. k |-> IF n = 0 THEN from ELSE Wave(g[n - 1])]
    BY <1>12, <1>13
  <2>2. QED
    BY <1>17, <1>18, <2>1
<1>20. Waves(g, k, from, S)
  <2>1. \A n \in 1 .. k : g[n] = g[n - 1] \cup (S \cap UNION {neighbors[at] : at \in g[n - 1]})
    BY <1>14, <1>15 DEF Wave
  <2>2. QED
    BY <1>1, <1>2, <1>3, <1>13, <1>16, <1>19, <2>1 DEF Waves
<1>21. QED
  BY <1>20

\* No wave loses a cell of the one before.
LEMMA WavesGrow ==
    ASSUME NEW from, NEW S, NEW k \in Nat, NEW w, Waves(w, k, from, S)
    PROVE  \A n \in 0 .. k : from \subseteq w[n]
<1> DEFINE T == {n \in 0 .. k : from \subseteq w[n]}
<1>1. 0 \in T
  BY DEF Waves
<1>2. ASSUME NEW n \in 0 .. k - 1, n \in T
      PROVE  n + 1 \in T
  <2>1. PICK m \in 1 .. k : m = n + 1 /\ m - 1 = n
    OBVIOUS
  <2>2. w[m] = w[n] \cup (S \cap UNION {neighbors[at] : at \in w[n]})
    BY <2>1 DEF Waves
  <2>3. QED
    BY <1>2, <2>1, <2>2
<1>3. 0 .. k \subseteq T
  BY <1>1, <1>2, Induction
<1>4. QED
  BY <1>3

\* A search reaches where it starts from, and nothing but that and S.
LEMMA ReachBounds ==
    ASSUME NEW from, NEW S, from \subseteq Cell, S \subseteq Cell
    PROVE  from \subseteq Reach(from, S) /\ Reach(from, S) \subseteq from \cup S
<1>a. PICK k \in Nat : \E w : Waves(w, k, from, S)
  BY ReachWaves
<1>1. PICK w : Waves(w, k, from, S)
  BY <1>a
<1>2. k \in 0 .. k
  OBVIOUS
<1>3. from \subseteq w[k]
  BY <1>1, <1>2, WavesGrow
<1>4. QED
  BY <1>1, <1>2, <1>3, ZenonT(60) DEF Waves

\* There are enough waves: no cell of S is next to one reached and is not.
LEMMA ReachClosed ==
    ASSUME NEW from, NEW S, from \subseteq Cell, S \subseteq Cell,
           NEW p \in Reach(from, S), NEW q \in S, q \in neighbors[p]
    PROVE  q \in Reach(from, S)
<1>a. PICK k \in Nat : \E w : Waves(w, k, from, S)
  BY ReachWaves
<1>1. PICK w : Waves(w, k, from, S)
  BY <1>a
<1> DEFINE Closed(u) == \A a \in u, b \in S : b \in neighbors[a] => b \in u
           T == {n \in 0 .. k : Closed(w[n]) \/ Cardinality(w[n] \ from) >= n}
<1>2. 0 \in T
  <2>1. w[0] \ from = {}
    BY <1>1 DEF Waves
  <2>2. QED
    BY <2>1, FS_EmptySet
<1>3. ASSUME NEW n \in 0 .. k - 1, n \in T
      PROVE  n + 1 \in T
  <2>1. PICK m \in 1 .. k : m = n + 1 /\ m - 1 = n /\ n \in 0 .. k /\ m \in 0 .. k
    OBVIOUS
  <2>2. w[m] = w[n] \cup (S \cap UNION {neighbors[at] : at \in w[n]})
    BY <1>1, <2>1 DEF Waves
  <2>3. CASE Closed(w[n])
    <3>1. w[m] = w[n]
      BY <2>2, <2>3
    <3>2. QED
      BY <2>1, <2>3, <3>1
  <2>4. CASE ~Closed(w[n])
    <3>1. PICK a \in w[n], b \in S : b \in neighbors[a] /\ b \notin w[n]
      BY <2>4
    <3>2. b \in w[m] /\ w[n] \subseteq w[m]
      BY <2>2, <3>1
    <3>3. b \notin from
      <4>1. from \subseteq w[n]
        BY <1>1, <2>1, WavesGrow
      <4>2. QED
        BY <3>1, <4>1
    <3>4. w[n] \subseteq Cell /\ w[m] \subseteq Cell
      BY <1>1, <2>1 DEF Waves
    <3>5. PICK A : A = w[n] \ from
      OBVIOUS
    <3>6. PICK B : B = w[m] \ from
      OBVIOUS
    <3>7. A \subseteq Cell /\ B \subseteq Cell /\ A \cup {b} \subseteq B /\ b \notin A
      BY <3>1, <3>2, <3>3, <3>4, <3>5, <3>6
    <3>8. Cardinality(A \cup {b}) = Cardinality(A) + 1
      BY <3>7, CellSets, FS_AddElement
    <3>9. Cardinality(A \cup {b}) <= Cardinality(B)
      <4>1. IsFiniteSet(B) /\ A \cup {b} \in SUBSET B
        BY <3>7, CellSets
      <4>2. QED
        BY <4>1, FS_Subset
    <3>10. Cardinality(A) >= n /\ Cardinality(A) \in Nat /\ Cardinality(B) \in Nat
      BY <1>3, <2>4, <3>5, <3>7, CellSets
    <3>11. Cardinality(B) >= m
      BY <2>1, <3>8, <3>9, <3>10
    <3>12. QED
      BY <2>1, <3>6, <3>11
  <2>5. QED
    BY <2>3, <2>4
<1> HIDE DEF Closed
<1>4. 0 .. k \subseteq T
  BY <1>2, <1>3, Induction
<1>5. Closed(w[k])
  <2>1. CASE Cardinality(w[k] \ from) >= k
    <3>1. PICK A : A = S \ from
      OBVIOUS
    <3>2. PICK B : B = w[k] \ from
      OBVIOUS
    <3>3. A \subseteq Cell /\ B \subseteq A
      <4>1. k \in 0 .. k
        OBVIOUS
      <4>2. w[k] \subseteq from \cup S
        BY <1>1, <4>1 DEF Waves
      <4>3. QED
        BY <3>1, <3>2, <4>2
    <3>4. Cardinality(A) = k /\ Cardinality(B) >= k
      <4>1. k = Cardinality(S \ from)
        BY <1>1 DEF Waves
      <4>2. QED
        BY <2>1, <3>1, <3>2, <4>1
    <3>5. Cardinality(B) <= Cardinality(A) /\ (Cardinality(A) = Cardinality(B) => A = B)
      <4>1. IsFiniteSet(A) /\ B \in SUBSET A
        BY <3>3, CellSets
      <4>2. QED
        BY <4>1, FS_Subset
    <3>6. Cardinality(B) \in Nat
      BY <3>3, CellSets
    <3>7. A = B
      BY <3>4, <3>5, <3>6
    <3>8. from \subseteq w[k]
      <4>1. k \in 0 .. k
        OBVIOUS
      <4>2. QED
        BY <1>1, <4>1, WavesGrow
    <3>9. S \subseteq w[k]
      BY <3>1, <3>2, <3>7, <3>8
    <3>10. QED
      BY <3>9 DEF Closed
  <2>2. QED
    BY <1>4, <2>1
<1>6. Reach(from, S) = w[k]
  BY <1>1 DEF Waves
<1>7. QED
  BY <1>5, <1>6 DEF Closed

-----------------------------------------------------------------------------
(* Where a landing bubble comes to rest, and the type of the board *)

LEMMA RoundInt ==
    ASSUME NEW n \in Int, NEW d \in Int, d > 0
    PROVE  Round(n, d) \in Int
BY DEF Round

LEMMA ClampRange ==
    ASSUME NEW n \in Int, NEW lo \in Int, NEW hi \in Int, lo <= hi
    PROVE  Clamp(n, lo, hi) \in lo .. hi
BY DEF Clamp

LEMMA ColumnRange ==
    ASSUME NEW row \in Int, NEW x \in Int
    PROVE  nearestColForRowX(row, x) \in Col
<1>1. PICK n \in Int : n = x - gbRadius - Shift(row)
  BY DEF gbRadius, Shift
<1>2. Round(n, gbDiam) \in Int
  BY RoundInt DEF gbDiam
<1>3. gbCols - 1 \in Int /\ 0 <= gbCols - 1
  BY BoardAssumption
<1>4. Clamp(Round(n, gbDiam), 0, gbCols - 1) \in 0 .. gbCols - 1
  BY <1>2, <1>3, ClampRange
<1>5. QED
  BY <1>1, <1>4 DEF nearestColForRowX, Col

\* Every point has a nearest cell on the board, off the field or not.
LEMMA NearestIsCell ==
    ASSUME NEW x \in Int, NEW y \in Int
    PROVE  nearestCell(x, y) \in Cell
<1>1. PICK row : row = Clamp(Round(y - gbRadius, gbRowGap), 0, gbRows - 1)
  OBVIOUS
<1>2. y - gbRadius \in Int /\ gbRowGap \in Int /\ gbRowGap > 0
  BY DEF gbRadius, gbRowGap
<1>3. Round(y - gbRadius, gbRowGap) \in Int
  BY <1>2, RoundInt
<1>4. gbRows - 1 \in Int /\ 0 <= gbRows - 1
  BY BoardAssumption
<1>5. row \in Row
  BY <1>1, <1>3, <1>4, ClampRange DEF Row
<1>6. nearestColForRowX(row, x) \in Col
  BY <1>4, <1>5, ColumnRange DEF Row
<1>7. nearestCell(x, y) = <<row, nearestColForRowX(row, x)>>
  BY <1>1 DEF nearestCell
<1>8. QED
  BY <1>5, <1>6, <1>7 DEF Cell

\* The least number of a set.
LEMMA LeastNat ==
    ASSUME NEW T, T \subseteq Nat, T # {}
    PROVE  Min(T) \in T
<1>1. \E n \in T : \A m \in T : n <= m
  BY NatMin
<1>2. QED
  BY <1>1 DEF Min

LEMMA CenterInt ==
    ASSUME NEW at \in Cell
    PROVE  cellCenter[at][1] \in Int /\ cellCenter[at][2] \in Int
<1>1. at[1] \in Int /\ at[2] \in Int
  BY BoardAssumption DEF Cell, Row, Col
<1>2. cellCenter[at] = <<gbRadius + Shift(at[1]) + at[2] * gbDiam, gbRadius + at[1] * gbRowGap>>
  BY DEF cellCenter
<1>3. QED
  BY <1>1, <1>2 DEF gbRadius, gbDiam, gbRowGap, Shift

LEMMA SquareNat ==
    ASSUME NEW n \in Int
    PROVE  n * n \in Nat
<1>1. CASE n >= 0
  BY <1>1
<1>2. CASE n < 0
  <2>1. PICK m \in Nat : n = -m
    <3>1. -n \in Nat /\ n = -(-n)
      BY <1>2
    <3>2. QED
      BY <3>1
  <2>2. n * n = m * m
    BY <2>1
  <2>3. QED
    BY <2>1, <2>2
<1>3. QED
  BY <1>1, <1>2

\* The scan finds a free cell, if there is one near.
LEMMA NearestEmptyIsNearby ==
    ASSUME NEW b, NEW base, NEW x \in Int, NEW y \in Int, Nearby(b, base) # {}
    PROVE  findNearestEmpty(b, base, x, y) \in Nearby(b, base)
<1>1. PICK free : free = Nearby(b, base)
  OBVIOUS
<1>2. free \subseteq Cell /\ free # {}
  BY <1>1 DEF Nearby
<1>3. PICK dist : dist = [at \in free |-> Dist2(cellCenter[at], <<x, y>>)]
  OBVIOUS
<1>4. \A at \in free : dist[at] \in Nat
  <2>1. TAKE at \in free
  <2>2. PICK n \in Int, m \in Int : n = cellCenter[at][1] - x /\ m = cellCenter[at][2] - y
    BY <1>2, CenterInt
  <2>3. dist[at] = n * n + m * m
    BY <1>3, <2>2 DEF Dist2
  <2>4. QED
    BY <2>2, <2>3, SquareNat
<1>5. PICK best : best = Min({dist[at] : at \in DOMAIN dist})
  OBVIOUS
<1>6. PICK closest : closest = {at \in DOMAIN dist : dist[at] = best}
  OBVIOUS
<1>7. closest # {} /\ closest \subseteq free
  <2>1. DOMAIN dist = free
    BY <1>3
  <2>2. PICK T : T = {dist[at] : at \in free}
    OBVIOUS
  <2>3. T \subseteq Nat /\ T # {}
    BY <1>2, <1>4, <2>2
  <2>4. best \in T
    BY <1>5, <2>1, <2>2, <2>3, LeastNat
  <2>5. QED
    BY <1>6, <2>1, <2>2, <2>4
<1>8. PICK order : order = [at \in Cell |-> at[1] * gbCols + at[2]]
  OBVIOUS
<1>9. \A at \in Cell : order[at] \in Nat /\ order[at] = at[1] * gbCols + at[2]
  BY <1>8, BoardAssumption DEF Cell, Row, Col
<1>10. \E at \in closest : \A o \in closest : at[1] * gbCols + at[2] <= o[1] * gbCols + o[2]
  <2>1. PICK T : T = {order[at] : at \in closest}
    OBVIOUS
  <2>2. T \subseteq Nat /\ T # {}
    BY <1>2, <1>7, <1>9, <2>1
  <2>3. PICK n \in T : \A m \in T : n <= m
    BY <2>2, NatMin
  <2>4. PICK at \in closest : order[at] = n
    BY <2>1, <2>3
  <2>5. \A o \in closest : order[at] <= order[o]
    BY <2>1, <2>3, <2>4
  <2>6. closest \subseteq Cell
    BY <1>2, <1>7
  <2>7. QED
    BY <1>9, <2>5, <2>6
<1>11. findNearestEmpty(b, base, x, y) =
           CHOOSE at \in closest : \A o \in closest : at[1] * gbCols + at[2] <= o[1] * gbCols + o[2]
  BY <1>1, <1>3, <1>5, <1>6 DEF findNearestEmpty
<1>12. findNearestEmpty(b, base, x, y) \in closest
  BY <1>10, <1>11
<1>13. QED
  BY <1>1, <1>7, <1>12

\* A bubble comes to rest in a free cell of the board.
LEMMA RestingCells ==
    ASSUME NEW b, NEW x \in Int, NEW y \in Int
    PROVE  \A at \in RestingCell(b, x, y) : at \in Cell /\ b[at] = Empty
<1>1. PICK near : near = nearestCell(x, y)
  OBVIOUS
<1>2. near \in Cell
  BY <1>1, NearestIsCell
<1>3. CASE b[near] = Empty
  BY <1>1, <1>2, <1>3 DEF RestingCell
<1>4. CASE b[near] # Empty /\ Nearby(b, near) = {}
  BY <1>1, <1>4 DEF RestingCell
<1>5. CASE b[near] # Empty /\ Nearby(b, near) # {}
  <2>1. PICK at : at = findNearestEmpty(b, near, x, y)
    OBVIOUS
  <2>2. at \in Nearby(b, near)
    BY <1>5, <2>1, NearestEmptyIsNearby
  <2>3. RestingCell(b, x, y) = {at}
    BY <1>1, <1>5, <2>1 DEF RestingCell
  <2>4. QED
    BY <2>2, <2>3 DEF Nearby
<1>6. QED
  BY <1>3, <1>4, <1>5

Boards == [Cell -> Color \cup {Empty}]

\* What goes are cells of the board, and they are worth points.
LEMMA MatchedCells ==
    ASSUME NEW b \in Boards, NEW at \in Cell
    PROVE  clearMatches(b, at) \subseteq Cell
<1>1. PICK S : S = {o \in Cell : b[o] = b[at]}
  OBVIOUS
<1>2. Reach({at}, S) \subseteq Cell
  BY <1>1, ReachBounds
<1>3. QED
  BY <1>1, <1>2 DEF clearMatches

LEMMA DroppedCells ==
    ASSUME NEW b \in Boards
    PROVE  dropFloating(b) \subseteq Cell
BY DEF dropFloating, Occupied

LEMMA EraseTyped ==
    ASSUME NEW b \in Boards, NEW S
    PROVE  Erase(b, S) \in Boards
BY DEF Erase, Boards

LEMMA PointsNat ==
    ASSUME NEW M, NEW D, M \subseteq Cell, D \subseteq Cell
    PROVE  PointsFor(M, D) \in Nat
<1>1. Cardinality(M) \in Nat /\ Cardinality(D) \in Nat
  BY CellSets
<1>2. QED
  BY <1>1 DEF PointsFor

RowsOf == [Col -> Color \cup {Empty}]

\* The row into which row r is pushed, after each of its columns.
Pushes(upto, r) ==
    /\ upto \in [0 .. gbCols -> RowsOf]
    /\ upto[0] = [c \in Col |-> Empty]
    /\ \A n \in 1 .. gbCols :
          upto[n] = IF board[<<r, n - 1>>] = Empty THEN upto[n - 1]
                    ELSE [upto[n - 1] EXCEPT
                             ![Slot(upto[n - 1], nearestColForRowX(r + 1, cellCenter[<<r, n - 1>>][1]))] =
                                 board[<<r, n - 1>>]]
    /\ Pushed(r) = upto[gbCols]

\* Wherever its bubbles fall, a pushed row is a row of bubbles.
LEMMA PushedByColumn ==
    ASSUME NEW r \in Row, board \in Boards
    PROVE  \E upto : Pushes(upto, r)
<1>1. PICK k \in Nat : k = gbCols
  BY BoardAssumption
<1>2. PICK V : V = RowsOf
  OBVIOUS
<1>3. PICK clear : clear = [c \in Col |-> Empty]
  OBVIOUS
<1> DEFINE Drop(row, at) ==
               IF board[at] = Empty THEN row
               ELSE [row EXCEPT ![Slot(row, nearestColForRowX(r + 1, cellCenter[at][1]))] = board[at]]
           upto[n \in 0 .. k] ==
               IF n = 0 THEN clear ELSE LET row == upto[n - 1]
                                            at == <<r, n - 1>>
                                        IN  Drop(row, at)
<1>4. Pushed(r) = upto[k]
  BY <1>1, <1>3 DEF Pushed
<1>5. \A at \in Cell, row \in V : Drop(row, at) \in V
  <2>1. TAKE at \in Cell, row \in V
  <2>2. PICK s : s = Slot(row, nearestColForRowX(r + 1, cellCenter[at][1]))
    OBVIOUS
  <2>3. board[at] \in Color \cup {Empty} /\ row \in [Col -> Color \cup {Empty}]
    BY <1>2 DEF Boards, RowsOf
  <2>4. [row EXCEPT ![s] = board[at]] \in [Col -> Color \cup {Empty}]
    BY <2>3
  <2>5. QED
    BY <1>2, <2>2, <2>3, <2>4 DEF RowsOf
<1>6. \A n \in 1 .. k : <<r, n - 1>> \in Cell
  BY <1>1 DEF Cell, Col
<1> HIDE DEF Drop
<1>7. PICK step : step = [n \in 1 .. k |-> [row \in V |-> Drop(row, <<r, n - 1>>)]]
  OBVIOUS
<1>8. \A n \in 1 .. k : /\ step[n] \in [V -> V]
                        /\ \A row \in V : step[n][row] = Drop(row, <<r, n - 1>>)
  BY <1>5, <1>6, <1>7
<1>9. step \in Steps(k, V)
  BY <1>7, <1>8 DEF Steps
<1>10. clear \in V
  BY <1>2, <1>3 DEF RowsOf
<1>11. PICK f : Runs(f, k, V, clear, step)
  BY <1>9, <1>10, RecursionExists
<1>12. f = [n \in 0 .. k |-> IF n = 0 THEN clear ELSE Drop(f[n - 1], <<r, n - 1>>)]
  <2>1. \A n \in 0 .. k : n # 0 => n \in 1 .. k /\ n - 1 \in 0 .. k
    OBVIOUS
  <2>2. \A n \in 0 .. k : f[n] = IF n = 0 THEN clear ELSE Drop(f[n - 1], <<r, n - 1>>)
    BY <1>8, <1>11, <2>1 DEF Runs
  <2>3. QED
    BY <1>11, <2>2 DEF Runs
<1>13. upto = [n \in 0 .. k |-> IF n = 0 THEN clear ELSE Drop(upto[n - 1], <<r, n - 1>>)]
  BY <1>12
<1> HIDE DEF upto
<1>14. PICK g : g = upto
  OBVIOUS
<1>15. \A n \in 0 .. k : g[n] = IF n = 0 THEN clear ELSE Drop(g[n - 1], <<r, n - 1>>)
  BY <1>13, <1>14
<1>16. 0 \in 0 .. k /\ \A n \in 1 .. k : n \in 0 .. k /\ n # 0
  OBVIOUS
<1>17. g[0] = clear /\ \A n \in 1 .. k : g[n - 1] \in V => g[n] = step[n][g[n - 1]]
  BY <1>8, <1>15, <1>16
<1>18. \A n \in 0 .. k : g[n] = f[n]
  BY <1>11, <1>17, RecursionUnique
<1>19. \A n \in 0 .. k : f[n] \in V
  BY <1>11 DEF Runs
<1>20. g \in [0 .. k -> V]
  <2>1. g = [n \in 0 .. k |-> IF n = 0 THEN clear ELSE Drop(g[n - 1], <<r, n - 1>>)]
    BY <1>13, <1>14
  <2>2. QED
    BY <1>18, <1>19, <2>1
<1>21. Pushes(g, r)
  <2>1. \A n \in 1 .. k : g[n] = Drop(g[n - 1], <<r, n - 1>>)
    BY <1>15, <1>16
  <2>2. QED
    BY <1>1, <1>2, <1>3, <1>4, <1>14, <1>17, <1>20, <2>1 DEF Pushes, Drop
<1>22. QED
  BY <1>21

LEMMA PushedTyped ==
    ASSUME NEW r \in Row, board \in Boards
    PROVE  Pushed(r) \in RowsOf
<1>1. PICK upto : Pushes(upto, r)
  BY PushedByColumn
<1>2. gbCols \in 0 .. gbCols
  BY BoardAssumption
<1>3. QED
  BY <1>1, <1>2 DEF Pushes

\* checkState gives a board the status that StatusMatchesBoard asks for.
LEMMA CheckedStatus ==
    ASSUME NEW b
    PROVE  /\ checkState(b) \in {"playing", "win", "lose"}
           /\ checkState(b) = "lose" <=> \E at \in Occupied(b) : at[1] = gbRows - 1
           /\ checkState(b) = "win" <=> Occupied(b) = {}
<1>1. CASE Occupied(b) = {}
  BY <1>1 DEF checkState
<1>2. CASE Occupied(b) # {} /\ \E at \in Occupied(b) : at[1] = gbRows - 1
  BY <1>2 DEF checkState
<1>3. CASE Occupied(b) # {} /\ ~\E at \in Occupied(b) : at[1] = gbRows - 1
  BY <1>3 DEF checkState
<1>4. QED
  BY <1>1, <1>2, <1>3

\* A landing leaves a well-formed board, with its status.
LEMMA LandingTyped ==
    ASSUME BubbleTypeOK, NEW k \in Color, NEW x \in Int, NEW y \in Int, placeAndResolve(k, x, y)
    PROVE  /\ board' \in Boards
           /\ current' \in Color /\ next' \in Color
           /\ score' \in Nat
           /\ status' \in {"playing", "win", "lose"}
           /\ StatusMatchesBoard'
<1>1. CASE UNCHANGED <<board, score, current, next, status>>
  BY <1>1 DEF BubbleTypeOK, StatusMatchesBoard, Boards
<1>2. CASE /\ \E at \in RestingCell(board, x, y) :
                 LET placed == [board EXCEPT ![at] = k]
                 IN  \E matched \in {clearMatches(placed, at)} :
                     \E dropped \in {dropFloating(Erase(placed, matched))} :
                        /\ board' = Erase(placed, matched \cup dropped)
                        /\ score' = score + PointsFor(matched, dropped)
           /\ status' = checkState(board')
           /\ current' = next
           /\ next' \in Color
  <2>1. PICK at \in RestingCell(board, x, y) :
                 LET placed == [board EXCEPT ![at] = k]
                 IN  \E matched \in {clearMatches(placed, at)} :
                     \E dropped \in {dropFloating(Erase(placed, matched))} :
                        /\ board' = Erase(placed, matched \cup dropped)
                        /\ score' = score + PointsFor(matched, dropped)
    BY <1>2
  <2>2. PICK placed : placed = [board EXCEPT ![at] = k]
    OBVIOUS
  <2>3. PICK matched : matched = clearMatches(placed, at)
    OBVIOUS
  <2>4. PICK dropped : dropped = dropFloating(Erase(placed, matched))
    OBVIOUS
  <2>5. /\ board' = Erase(placed, matched \cup dropped)
        /\ score' = score + PointsFor(matched, dropped)
    BY <2>1, <2>2, <2>3, <2>4
  <2>6. at \in Cell
    BY RestingCells
  <2>7. placed \in Boards
    BY <2>2 DEF BubbleTypeOK, Boards
  <2>8. matched \subseteq Cell
    BY <2>3, <2>6, <2>7, MatchedCells
  <2>9. dropped \subseteq Cell
    BY <2>4, <2>7, EraseTyped, DroppedCells
  <2>10. board' \in Boards
    BY <2>5, <2>7, EraseTyped
  <2>11. PointsFor(matched, dropped) \in Nat
    BY <2>8, <2>9, PointsNat
  <2>12. score' \in Nat
    BY <2>5, <2>11 DEF BubbleTypeOK
  <2>13. status' \in {"playing", "win", "lose"} /\ StatusMatchesBoard'
    BY <1>2, CheckedStatus DEF StatusMatchesBoard
  <2>14. QED
    BY <1>2, <2>10, <2>12, <2>13 DEF BubbleTypeOK
<1>3. QED
  BY <1>1, <1>2 DEF placeAndResolve

LEMMA BubbleInit == NewInitialState => BubbleTypeOK
<1> SUFFICES ASSUME NewInitialState PROVE BubbleTypeOK
  OBVIOUS
<1>1. PICK top \in [{at \in Cell : at[1] < InitRows} -> Color \cup {Empty}] :
          board = [at \in Cell |-> IF at[1] < InitRows THEN top[at] ELSE Empty]
  BY DEF NewInitialState
<1>2. board \in [Cell -> Color \cup {Empty}]
  BY <1>1
<1>3. ~\E at \in Occupied(board) : at[1] = gbRows - 1
  <2>1. ~(gbRows - 1 < InitRows)
    BY BoardAssumption
  <2>2. QED
    BY <1>1, <2>1 DEF Occupied
<1>4. StatusMatchesBoard
  BY <1>3 DEF StatusMatchesBoard, NewInitialState
<1>5. QED
  BY <1>2, <1>4, ShotsAssumption DEF BubbleTypeOK, NewInitialState

LEMMA BubbleStep == BubbleTypeOK /\ [BubbleNext]_bvars => BubbleTypeOK'
<1> SUFFICES ASSUME BubbleTypeOK, [BubbleNext]_bvars PROVE BubbleTypeOK'
  OBVIOUS
<1>1. CASE BeginClientShot
  BY <1>1, ShotsAssumption DEF BubbleTypeOK, StatusMatchesBoard, BeginClientShot
<1>2. CASE \E p \in Points : CommitLanding(p[1], p[2])
  <2>1. PICK p \in Points : CommitLanding(p[1], p[2])
    BY <1>2
  <2>2. p[1] \in Int /\ p[2] \in Int
    BY PointsAssumption
  <2>3. shot \in Color /\ placeAndResolve(shot, p[1], p[2])
    BY <2>1 DEF CommitLanding, BubbleTypeOK
  <2>4. /\ board' \in Boards
        /\ current' \in Color /\ next' \in Color
        /\ score' \in Nat
        /\ status' \in {"playing", "win", "lose"}
        /\ StatusMatchesBoard'
    BY <2>2, <2>3, LandingTyped
  <2>5. shot' = Empty /\ moving' = moving /\ moving = NotMoving /\ UNCHANGED <<shots, layers>>
    BY <2>1 DEF CommitLanding
  <2>6. QED
    BY <2>4, <2>5 DEF BubbleTypeOK, Boards, NotMoving
<1>3. CASE Fire
  <2>1. gbBoardW \div 2 \in gbRadius .. gbBoardW - gbRadius
    BY BoardAssumption DEF gbBoardW, gbRadius, gbDiam
  <2>2. gbShooterY \in gbRadius + 1 .. gbShooterY
    BY PointsAssumption DEF gbRadius
  <2>3. QED
    BY <1>3, <2>1, <2>2, ShotsAssumption DEF BubbleTypeOK, StatusMatchesBoard, Fire
<1>4. CASE \E p \in Points : TickState(p[1], p[2])
  <2>1. PICK p \in Points : TickState(p[1], p[2])
    BY <1>4
  <2>2. PICK x \in Int, y \in Int : x = p[1] /\ y = p[2]
    BY PointsAssumption
  <2>3. PICK bx : bx = Bounce(x)
    OBVIOUS
  <2>4. bx \in gbRadius .. gbBoardW - gbRadius
    <3>1. gbRadius \in Int /\ gbBoardW - gbRadius \in Int /\ gbRadius <= gbBoardW - gbRadius
      BY BoardAssumption DEF gbBoardW, gbRadius, gbDiam
    <3>2. QED
      BY <2>3, <3>1, ClampRange DEF Bounce
  <2>5. bx \in Int
    BY <2>4, BoardAssumption DEF gbBoardW, gbRadius, gbDiam
  <2>6. /\ moving \in [x : gbRadius .. gbBoardW - gbRadius, y : gbRadius + 1 .. gbShooterY, color : Color]
        /\ y <= moving.y
    BY <2>1, <2>2 DEF TickState, BubbleTypeOK
  <2>7. CASE placeAndResolve(moving.color, bx, y) /\ moving' = NotMoving
    <3>1. /\ board' \in Boards
          /\ current' \in Color /\ next' \in Color
          /\ score' \in Nat
          /\ status' \in {"playing", "win", "lose"}
          /\ StatusMatchesBoard'
      BY <2>5, <2>6, <2>7, LandingTyped
    <3>2. shot' = shot /\ UNCHANGED <<shots, layers>>
      BY <2>1 DEF TickState
    <3>3. QED
      BY <2>7, <3>1, <3>2 DEF BubbleTypeOK, Boards
  <2>8. CASE /\ ~(y <= gbRadius \/ collideBoard(board, bx, y))
             /\ moving' = [moving EXCEPT !.x = bx, !.y = y]
             /\ UNCHANGED <<board, current, next, score, status>>
    <3>1. y \in gbRadius + 1 .. gbShooterY
      BY <2>6, <2>8, PointsAssumption DEF gbRadius
    <3>2. moving' \in [x : gbRadius .. gbBoardW - gbRadius, y : gbRadius + 1 .. gbShooterY, color : Color]
      BY <2>4, <2>6, <2>8, <3>1
    <3>3. shot' = shot /\ UNCHANGED <<shots, layers>>
      BY <2>1 DEF TickState
    <3>4. QED
      BY <2>8, <3>2, <3>3 DEF BubbleTypeOK, StatusMatchesBoard
  <2>9. QED
    BY <2>1, <2>2, <2>3, <2>7, <2>8 DEF TickState
<1>5. CASE AddTopLayer
  <2>1. PICK pushed : pushed = [r \in 0 .. gbRows - 2 |-> Pushed(r)]
    OBVIOUS
  <2>2. PICK top \in [Col -> Color] :
            board' = [at \in Cell |-> IF at[1] = 0 THEN top[at[2]] ELSE pushed[at[1] - 1][at[2]]]
    BY <1>5, <2>1 DEF AddTopLayer
  <2>3. board \in Boards
    BY DEF BubbleTypeOK, Boards
  <2>4. ASSUME NEW at \in Cell
        PROVE  board'[at] \in Color \cup {Empty}
    <3>1. at[1] \in Row /\ at[2] \in Col
      BY DEF Cell
    <3>2. CASE at[1] = 0
      BY <2>2, <3>1, <3>2
    <3>3. CASE at[1] # 0
      <4>1. PICK r : r = at[1] - 1
        OBVIOUS
      <4>2. r \in 0 .. gbRows - 2 /\ r \in Row
        BY <3>1, <3>3, <4>1, BoardAssumption DEF Row
      <4>3. pushed[r] \in RowsOf
        BY <2>1, <2>3, <4>2, PushedTyped
      <4>4. board'[at] = pushed[r][at[2]]
        BY <2>2, <3>3, <4>1
      <4>5. QED
        BY <3>1, <4>3, <4>4 DEF RowsOf
    <3>4. QED
      BY <3>2, <3>3
  <2>5. board' \in [Cell -> Color \cup {Empty}]
    BY <2>2, <2>4
  <2>6. status' \in {"playing", "win", "lose"} /\ StatusMatchesBoard'
    <3>1. status' = checkState(board')
      BY <1>5 DEF AddTopLayer
    <3>2. QED
      BY <3>1, CheckedStatus DEF StatusMatchesBoard
  <2>7. UNCHANGED <<current, next, moving, shot, score, shots>> /\ layers' \in 0 .. MaxLayers
    BY <1>5, ShotsAssumption DEF AddTopLayer, BubbleTypeOK
  <2>8. QED
    BY <2>5, <2>6, <2>7 DEF BubbleTypeOK
<1>6. CASE UNCHANGED bvars
  BY <1>6 DEF BubbleTypeOK, StatusMatchesBoard, bvars
<1>7. QED
  BY <1>1, <1>2, <1>3, <1>4, <1>5, <1>6 DEF BubbleNext

\* The board stays well formed and the status is the board's: lost exactly when
\* a bubble is in the last row, won when a step took the last one; a bubble in
\* flight stays between the walls and above the launcher (checkState,
\* placeAndResolve, AddTopLayer, TickState).
THEOREM BubbleTypeCorrect == BubbleSpec => []BubbleTypeOK
<1>1. QED
  BY BubbleInit, BubbleStep, PTL DEF BubbleSpec

-----------------------------------------------------------------------------
(* Geometry: the neighbours of a cell are the cells that touch it. *)

LEMMA SquareGrows ==
    ASSUME NEW n \in Int, NEW m \in Nat, n > m \/ n < -m
    PROVE  n * n >= (m + 1) * (m + 1)
<1>1. CASE n > m
  <2>1. PICK d \in Nat : n = m + 1 + d
    <3>1. n - m - 1 \in Nat /\ n = m + 1 + (n - m - 1)
      BY <1>1
    <3>2. QED
      BY <3>1
  <2>2. n * n = (m + 1) * (m + 1) + 2 * ((m + 1) * d) + d * d
    BY <2>1
  <2>3. (m + 1) * d \in Nat /\ d * d \in Nat
    OBVIOUS
  <2>4. QED
    BY <2>2, <2>3
<1>2. CASE n < -m
  <2>1. PICK d \in Nat : n = -(m + 1 + d)
    <3>1. -n - m - 1 \in Nat /\ n = -(m + 1 + (-n - m - 1))
      BY <1>2
    <3>2. QED
      BY <3>1
  <2>2. n * n = (m + 1) * (m + 1) + 2 * ((m + 1) * d) + d * d
    BY <2>1
  <2>3. (m + 1) * d \in Nat /\ d * d \in Nat
    OBVIOUS
  <2>4. QED
    BY <2>2, <2>3
<1>3. QED
  BY <1>1, <1>2

LEMMA TouchingCells ==
    ASSUME NEW r \in Row, NEW c \in Col, NEW s \in Row, NEW d \in Col
    PROVE  <<s, d>> \in Touching[<<r, c>>] <=>
              \/ s = r /\ (d = c - 1 \/ d = c + 1)
              \/ (s = r - 1 \/ s = r + 1) /\ (IF r % 2 = 1 THEN d = c \/ d = c + 1 ELSE d = c \/ d = c - 1)
<1>1. r \in Nat /\ c \in Nat /\ s \in Nat /\ d \in Nat
  BY BoardAssumption DEF Row, Col
<1>2. PICK x \in Int : x = (Shift(r) + 32 * c) - (Shift(s) + 32 * d)
  <2>1. Shift(r) \in Int /\ Shift(s) \in Int
    BY DEF Shift, gbRadius
  <2>2. (Shift(r) + 32 * c) - (Shift(s) + 32 * d) \in Int
    BY <1>1, <2>1
  <2>3. QED
    BY <2>2
<1>3. PICK y \in Int : y = 28 * r - 28 * s
  <2>1. 28 * r - 28 * s \in Int
    BY <1>1
  <2>2. QED
    BY <2>1
<1>4. <<s, d>> \in Touching[<<r, c>>] <=> (s # r \/ d # c) /\ x * x + y * y <= 1089
  <2>1. <<r, c>> \in Cell /\ <<s, d>> \in Cell
    BY DEF Cell
  <2>2. /\ cellCenter[<<r, c>>][1] = 16 + Shift(r) + c * 32 /\ cellCenter[<<r, c>>][2] = 16 + r * 28
        /\ cellCenter[<<s, d>>][1] = 16 + Shift(s) + d * 32 /\ cellCenter[<<s, d>>][2] = 16 + s * 28
    BY <2>1 DEF cellCenter, gbRadius, gbDiam, gbRowGap
  <2>3. Dist2(cellCenter[<<r, c>>], cellCenter[<<s, d>>]) = x * x + y * y
    <3>1. /\ cellCenter[<<r, c>>][1] - cellCenter[<<s, d>>][1] = x
          /\ cellCenter[<<r, c>>][2] - cellCenter[<<s, d>>][2] = y
      BY <1>1, <1>2, <1>3, <2>2 DEF Shift, gbRadius
    <3>2. QED
      BY <3>1 DEF Dist2
  <2>4. QED
    BY <2>1, <2>3 DEF Touching, gbDiam
<1>5. CASE s = r
  <2>1. x = 32 * (c - d) /\ y * y = 0
    BY <1>1, <1>2, <1>3, <1>5 DEF Shift, gbRadius
  <2>2. CASE c - d > 1 \/ c - d < -1
    <3>1. (c - d) * (c - d) >= 4
      BY <1>1, <2>2, SquareGrows
    <3>2. x * x = 1024 * ((c - d) * (c - d))
      BY <1>1, <2>1
    <3>3. ~(x * x + y * y <= 1089)
      BY <2>1, <3>1, <3>2, <1>1
    <3>4. QED
      BY <1>1, <1>4, <1>5, <2>2, <3>3
  <2>3. CASE c - d \in {-1, 0, 1}
    <3>1. x \in {-32, 0, 32}
      BY <2>1, <2>3
    <3>2. x * x + y * y <= 1089
      BY <2>1, <3>1
    <3>3. QED
      BY <1>1, <1>4, <1>5, <2>3, <3>2
  <2>4. QED
    BY <1>1, <2>2, <2>3
<1>6. CASE s = r - 1 \/ s = r + 1
  <2>1. y * y = 784
    <3>1. y = 28 \/ y = -28
      BY <1>1, <1>3, <1>6
    <3>2. QED
      BY <3>1
  <2>2. PICK h \in {-16, 16} : h = (IF r % 2 = 1 THEN 16 ELSE -16) /\ x = 32 * (c - d) + h
    <3>1. CASE r % 2 = 1
      <4>1. s % 2 = 0
        BY <1>1, <1>6, <3>1
      <4>2. QED
        BY <1>1, <1>2, <3>1, <4>1 DEF Shift, gbRadius
    <3>2. CASE r % 2 # 1
      <4>1. s % 2 = 1
        BY <1>1, <1>6, <3>2
      <4>2. QED
        BY <1>1, <1>2, <3>2, <4>1 DEF Shift, gbRadius
    <3>3. QED
      BY <3>1, <3>2
  <2>3. CASE x > 17 \/ x < -17
    <3>1. x * x >= 324
      BY <2>3, SquareGrows
    <3>2. ~(x * x + y * y <= 1089)
      BY <2>1, <3>1
    <3>3. ~(IF r % 2 = 1 THEN d = c \/ d = c + 1 ELSE d = c \/ d = c - 1)
      BY <1>1, <2>2, <2>3
    <3>4. QED
      BY <1>1, <1>4, <1>6, <3>2, <3>3
  <2>4. CASE x \in -17 .. 17
    <3>1. x = 16 \/ x = -16
      BY <1>1, <2>2, <2>4
    <3>2. x * x + y * y <= 1089
      BY <2>1, <3>1
    <3>3. IF r % 2 = 1 THEN d = c \/ d = c + 1 ELSE d = c \/ d = c - 1
      BY <1>1, <2>2, <3>1
    <3>4. QED
      BY <1>1, <1>4, <1>6, <3>2, <3>3
  <2>5. QED
    BY <2>3, <2>4
<1>7. CASE s # r /\ s # r - 1 /\ s # r + 1
  <2>1. y > 55 \/ y < -55
    BY <1>1, <1>3, <1>7
  <2>2. y * y >= 3136
    BY <2>1, SquareGrows
  <2>3. x * x \in Nat
    BY SquareNat
  <2>4. ~(x * x + y * y <= 1089)
    BY <2>2, <2>3
  <2>5. QED
    BY <1>4, <1>7, <2>4
<1>8. QED
  BY <1>5, <1>6, <1>7

\* The breadth-first searches go on to the cells that touch.
LEMMA NeighborsTouch ==
    ASSUME NEW p \in Cell, NEW q \in Cell
    PROVE  q \in neighbors[p] <=> q \in Touching[p]
<1>1. PICK r \in Row, c \in Col : p = <<r, c>>
  BY DEF Cell
<1>2. PICK s \in Row, d \in Col : q = <<s, d>>
  BY DEF Cell
<1>3. r \in Nat /\ c \in Nat /\ s \in Nat /\ d \in Nat
  BY BoardAssumption DEF Row, Col
<1>4. q \in neighbors[p] <=>
         \/ s = r /\ (d = c - 1 \/ d = c + 1)
         \/ (s = r - 1 \/ s = r + 1) /\ (IF r % 2 = 1 THEN d = c \/ d = c + 1 ELSE d = c \/ d = c - 1)
  <2>1. PICK e \in {0, -1} : e = IF r % 2 = 1 THEN 0 ELSE -1
    OBVIOUS
  <2>2. neighbors[<<r, c>>] = {<<r - 1, c + e>>, <<r - 1, c + e + 1>>, <<r, c - 1>>, <<r, c + 1>>,
                               <<r + 1, c + e>>, <<r + 1, c + e + 1>>} \cap Cell
    BY <1>1, <2>1 DEF neighbors
  <2>3. q \in neighbors[p] <=>
           \/ <<s, d>> = <<r - 1, c + e>> \/ <<s, d>> = <<r - 1, c + e + 1>>
           \/ <<s, d>> = <<r, c - 1>> \/ <<s, d>> = <<r, c + 1>>
           \/ <<s, d>> = <<r + 1, c + e>> \/ <<s, d>> = <<r + 1, c + e + 1>>
    BY <1>1, <1>2, <2>2
  <2>4. QED
    BY <1>3, <2>1, <2>3
<1>5. QED
  BY <1>1, <1>2, <1>4, TouchingCells

LEMMA TouchingSymmetric ==
    ASSUME NEW p \in Cell, NEW q \in Cell, q \in Touching[p]
    PROVE  p \in Touching[q]
<1>1. PICK r \in Row, c \in Col : p = <<r, c>>
  BY DEF Cell
<1>2. PICK s \in Row, d \in Col : q = <<s, d>>
  BY DEF Cell
<1>3. r \in Nat /\ c \in Nat /\ s \in Nat /\ d \in Nat
  BY BoardAssumption DEF Row, Col
<1>4. \/ s = r /\ (d = c - 1 \/ d = c + 1)
      \/ (s = r - 1 \/ s = r + 1) /\ (IF r % 2 = 1 THEN d = c \/ d = c + 1 ELSE d = c \/ d = c - 1)
  BY <1>1, <1>2, TouchingCells
<1>5. \/ r = s /\ (c = d - 1 \/ c = d + 1)
      \/ (r = s - 1 \/ r = s + 1) /\ (IF s % 2 = 1 THEN c = d \/ c = d + 1 ELSE c = d \/ c = d - 1)
  BY <1>3, <1>4
<1>6. QED
  BY <1>1, <1>2, <1>5, TouchingCells

-----------------------------------------------------------------------------
(* What a landing does to the board. *)

LEMMA WavesAreReached ==
    ASSUME NEW from, NEW S, NEW k \in Nat, NEW w, Waves(w, k, from, S), NEW m \in 0 .. k
    PROVE  w[m] \subseteq Reach(from, S)
<1> DEFINE T == {n \in 0 .. k : n >= m => w[m] \subseteq w[n]}
<1>1. 0 \in T
  OBVIOUS
<1>2. ASSUME NEW n \in 0 .. k - 1, n \in T
      PROVE  n + 1 \in T
  <2>1. PICK o \in 1 .. k : o = n + 1 /\ o - 1 = n /\ o \in 0 .. k
    OBVIOUS
  <2>2. w[n] \subseteq w[o]
    BY <2>1 DEF Waves
  <2>3. CASE n >= m
    BY <1>2, <2>1, <2>2, <2>3
  <2>4. CASE ~(n >= m)
    <3>1. o >= m => o = m
      BY <2>1, <2>4
    <3>2. QED
      BY <2>1, <3>1
  <2>5. QED
    BY <2>3, <2>4
<1>3. 0 .. k \subseteq T
  BY <1>1, <1>2, Induction
<1>4. k \in T /\ k >= m
  BY <1>3
<1>5. QED
  BY <1>4 DEF Waves

\* No group of the cells reached hangs together without the others, unless the
\* search starts in it.
LEMMA ReachLinks ==
    ASSUME NEW from, NEW S, from \subseteq Cell, S \subseteq Cell,
           NEW G, G # {}, G \subseteq Reach(from, S), G \cap from = {}
    PROVE  \E p \in G, q \in Reach(from, S) : q \notin G /\ p \in neighbors[q]
<1>a. PICK k \in Nat : \E w : Waves(w, k, from, S)
  BY ReachWaves
<1>1. PICK w : Waves(w, k, from, S)
  BY <1>a
<1>2. PICK T : T = {n \in 0 .. k : w[n] \cap G # {}}
  OBVIOUS
<1>3. T \subseteq Nat /\ T # {}
  <2>1. k \in 0 .. k /\ Reach(from, S) = w[k]
    BY <1>1 DEF Waves
  <2>2. QED
    BY <1>2, <2>1
<1>4. PICK n \in T : \A m \in T : n <= m
  BY <1>3, NatMin
<1>5. n # 0
  BY <1>1, <1>2 DEF Waves
<1>6. n \in 1 .. k /\ n - 1 \in 0 .. k /\ n - 1 \notin T
  BY <1>2, <1>4, <1>5
<1>7. w[n] = w[n - 1] \cup (S \cap UNION {neighbors[at] : at \in w[n - 1]})
  BY <1>1, <1>6 DEF Waves
<1>8. w[n - 1] \cap G = {}
  BY <1>2, <1>6
<1>9. PICK p \in G : p \in w[n]
  BY <1>2
<1>10. PICK q \in w[n - 1] : p \in neighbors[q]
  BY <1>7, <1>8, <1>9
<1>11. q \in Reach(from, S) /\ q \notin G
  BY <1>1, <1>6, <1>8, <1>10, WavesAreReached
<1>12. QED
  BY <1>10, <1>11

\* A bubble of colour k comes to rest at the cell at.
Landing(k, at, placed, matched, dropped) ==
    /\ at \in Cell /\ board[at] = Empty
    /\ placed = [board EXCEPT ![at] = k]
    /\ matched = clearMatches(placed, at)
    /\ dropped = dropFloating(Erase(placed, matched))
    /\ board' = Erase(placed, matched \cup dropped)
    /\ score' = score + PointsFor(matched, dropped)

LEMMA PlacedLands ==
    ASSUME NEW k, NEW x \in Int, NEW y \in Int, placeAndResolve(k, x, y), board' # board
    PROVE  \E at, placed, matched, dropped : Landing(k, at, placed, matched, dropped)
<1>1. PICK at \in RestingCell(board, x, y) :
          LET placed == [board EXCEPT ![at] = k]
          IN  \E matched \in {clearMatches(placed, at)} :
              \E dropped \in {dropFloating(Erase(placed, matched))} :
                 /\ board' = Erase(placed, matched \cup dropped)
                 /\ score' = score + PointsFor(matched, dropped)
  BY DEF placeAndResolve
<1>2. at \in Cell /\ board[at] = Empty
  BY RestingCells
<1>3. QED
  BY <1>1, <1>2 DEF Landing

\* Every step that puts a bubble to rest is such a landing, of the colour that
\* was shot.
LEMMA LandsResolves ==
    ASSUME BubbleTypeOK, [BubbleNext]_bvars, Lands
    PROVE  \E k \in Color : /\ k = IF shot' # shot THEN shot ELSE moving.color
                            /\ \E at, placed, matched, dropped : Landing(k, at, placed, matched, dropped)
<1>1. CASE BeginClientShot \/ Fire \/ UNCHANGED bvars
  BY <1>1 DEF Lands, BeginClientShot, Fire, bvars
<1>2. CASE AddTopLayer
  <2>1. layers' = layers + 1 /\ layers' = layers /\ layers < MaxLayers
    BY <1>2 DEF Lands, AddTopLayer
  <2>2. QED
    BY <2>1 DEF BubbleTypeOK
<1>3. CASE \E p \in Points : CommitLanding(p[1], p[2])
  <2>1. PICK p \in Points : CommitLanding(p[1], p[2])
    BY <1>3
  <2>2. p[1] \in Int /\ p[2] \in Int
    BY PointsAssumption
  <2>3. shot \in Color /\ shot' # shot /\ placeAndResolve(shot, p[1], p[2])
    BY <2>1 DEF CommitLanding, BubbleTypeOK
  <2>4. \E at, placed, matched, dropped : Landing(shot, at, placed, matched, dropped)
    BY <2>2, <2>3, PlacedLands DEF Lands
  <2>5. QED
    BY <2>3, <2>4
<1>4. CASE \E p \in Points : TickState(p[1], p[2])
  <2>1. PICK p \in Points : TickState(p[1], p[2])
    BY <1>4
  <2>2. PICK x \in Int, y \in Int : x = p[1] /\ y = p[2]
    BY PointsAssumption
  <2>3. PICK bx : bx = Bounce(x)
    OBVIOUS
  <2>4. bx \in Int
    <3>1. gbRadius \in Int /\ gbBoardW - gbRadius \in Int /\ gbRadius <= gbBoardW - gbRadius
      BY BoardAssumption DEF gbBoardW, gbRadius, gbDiam
    <3>2. QED
      BY <2>3, <3>1, ClampRange DEF Bounce
  <2>5. placeAndResolve(moving.color, bx, y)
    BY <2>1, <2>2, <2>3 DEF TickState, Lands
  <2>6. moving.color \in Color /\ shot' = shot
    BY <2>1 DEF TickState, BubbleTypeOK
  <2>7. \E at, placed, matched, dropped : Landing(moving.color, at, placed, matched, dropped)
    BY <2>4, <2>5, PlacedLands DEF Lands
  <2>8. QED
    BY <2>6, <2>7
<1>5. QED
  BY <1>1, <1>2, <1>3, <1>4 DEF BubbleNext

\* The group that clearMatches searches: the bubbles of the colour that landed.
SameColor(b, at) == {o \in Cell : b[o] = b[at]}

LEMMA GroupCells ==
    ASSUME NEW b, NEW at \in Cell
    PROVE  /\ at \in Reach({at}, SameColor(b, at))
           /\ Reach({at}, SameColor(b, at)) \subseteq SameColor(b, at)
           /\ Reach({at}, SameColor(b, at)) \subseteq Cell
<1>1. {at} \subseteq Cell /\ SameColor(b, at) \subseteq Cell /\ at \in SameColor(b, at)
  BY DEF SameColor
<1>2. QED
  BY <1>1, ReachBounds

LEMMA TripleSize ==
    ASSUME NEW T, T \subseteq Cell, NEW p \in T, NEW q \in T, NEW o \in T, p # q, p # o, q # o
    PROVE  Cardinality(T) >= 3
<1>1. PICK A, B, C : A = {p} /\ B = A \cup {q} /\ C = B \cup {o}
  OBVIOUS
<1>2. IsFiniteSet(A) /\ Cardinality(A) = 1
  BY <1>1, FS_Singleton
<1>3. q \notin A /\ o \notin B
  BY <1>1
<1>4. IsFiniteSet(B) /\ Cardinality(B) = Cardinality(A) + 1
  BY <1>1, <1>2, <1>3, FS_AddElement
<1>5. Cardinality(C) = Cardinality(B) + 1
  BY <1>1, <1>3, <1>4, FS_AddElement
<1>6. C \in SUBSET T /\ IsFiniteSet(T) /\ Cardinality(T) \in Nat
  BY <1>1, CellSets
<1>7. Cardinality(C) <= Cardinality(T)
  BY <1>6, FS_Subset
<1>8. QED
  BY <1>2, <1>4, <1>5, <1>6, <1>7

\* Three of a colour that touch one another do not outlast the landing of one
\* of them.
LEMMA LandingClearsMatches ==
    ASSUME NEW k, k # Empty, board \in Boards,
           NEW at, NEW placed, NEW matched, NEW dropped, Landing(k, at, placed, matched, dropped),
           NEW p \in Occupied(board') \ Occupied(board),
           NEW q \in Occupied(board'), NEW o \in Occupied(board'),
           board'[q] = board'[p], board'[o] = board'[p], q # p, o # p, q # o,
           q \in Touching[p], o \in Touching[p] \cup Touching[q]
    PROVE  FALSE
<1>1. /\ at \in Cell /\ placed = [board EXCEPT ![at] = k] /\ matched = clearMatches(placed, at)
      /\ board' = Erase(placed, matched \cup dropped)
  BY DEF Landing
<1>2. \A c \in Occupied(board') : c \in Cell /\ c \notin matched /\ board'[c] = placed[c]
  BY <1>1 DEF Occupied, Erase
<1>3. p = at
  BY <1>1, <1>2 DEF Occupied, Boards
<1>4. PICK S : S = SameColor(placed, at)
  OBVIOUS
<1>5. PICK group : group = Reach({at}, S)
  OBVIOUS
<1>6. at \in group /\ group \subseteq Cell
  BY <1>1, <1>4, <1>5, GroupCells
<1>7. q \in Cell /\ o \in Cell /\ q \in S /\ o \in S /\ {at} \subseteq Cell /\ S \subseteq Cell
  BY <1>1, <1>2, <1>3, <1>4 DEF SameColor
<1>8. q \in group
  <2>1. q \in neighbors[at]
    BY <1>1, <1>3, <1>7, NeighborsTouch
  <2>2. QED
    BY <1>5, <1>6, <1>7, <2>1, ReachClosed
<1>9. o \in group
  <2>1. CASE o \in Touching[p]
    <3>1. o \in neighbors[at]
      BY <1>1, <1>3, <1>7, <2>1, NeighborsTouch
    <3>2. QED
      BY <1>5, <1>6, <1>7, <3>1, ReachClosed
  <2>2. CASE o \in Touching[q]
    <3>1. o \in neighbors[q]
      BY <1>7, <2>2, NeighborsTouch
    <3>2. QED
      BY <1>5, <1>7, <1>8, <3>1, ReachClosed
  <2>3. QED
    BY <2>1, <2>2
<1>10. Cardinality(group) >= 3
  BY <1>3, <1>6, <1>8, <1>9, TripleSize
<1>11. matched = IF Cardinality(group) < 3 THEN {} ELSE group
  BY <1>1, <1>4, <1>5 DEF clearMatches, SameColor
<1>12. Cardinality(group) \in Nat
  BY <1>6, CellSets
<1>13. at \in matched
  BY <1>6, <1>10, <1>11, <1>12
<1>14. QED
  BY <1>2, <1>3, <1>13

\* The bubbles of b that hang from its top row.
Held(b) == Reach({at \in Occupied(b) : at[1] = 0}, Occupied(b))

LEMMA HeldCells ==
    ASSUME NEW b
    PROVE  /\ {at \in Occupied(b) : at[1] = 0} \subseteq Cell /\ Occupied(b) \subseteq Cell
           /\ {at \in Occupied(b) : at[1] = 0} \subseteq Held(b)
           /\ Held(b) \subseteq Occupied(b)
<1>1. {at \in Occupied(b) : at[1] = 0} \subseteq Cell /\ Occupied(b) \subseteq Cell
  BY DEF Occupied
<1>2. QED
  BY <1>1, ReachBounds DEF Held

\* What stays is what hangs from the top row.
LEMMA LandingKeepsHeld ==
    ASSUME NEW k, board \in Boards,
           NEW at, NEW placed, NEW matched, NEW dropped, Landing(k, at, placed, matched, dropped)
    PROVE  /\ Occupied(board') = Held(Erase(placed, matched))
           /\ dropped = Occupied(Erase(placed, matched)) \ Held(Erase(placed, matched))
           /\ Occupied(Erase(placed, matched)) = Occupied(placed) \ matched
<1>1. PICK e : e = Erase(placed, matched)
  OBVIOUS
<1>2. dropped = Occupied(e) \ Held(e)
  BY <1>1 DEF Landing, dropFloating, Held
<1>3. Occupied(e) = Occupied(placed) \ matched
  BY <1>1 DEF Occupied, Erase
<1>4. Occupied(board') = Occupied(placed) \ (matched \cup dropped)
  BY DEF Landing, Occupied, Erase
<1>5. Held(e) \subseteq Occupied(e)
  BY HeldCells
<1>6. QED
  BY <1>1, <1>2, <1>3, <1>4, <1>5

\* So nothing hangs in the air after a landing.
LEMMA LandingAnchors ==
    ASSUME NEW k, board \in Boards,
           NEW at, NEW placed, NEW matched, NEW dropped, Landing(k, at, placed, matched, dropped)
    PROVE  Anchored(board')
<1>1. PICK e : e = Erase(placed, matched)
  OBVIOUS
<1>2. PICK occ : occ = Occupied(board')
  OBVIOUS
<1>3. PICK top : top = {c \in Occupied(e) : c[1] = 0}
  OBVIOUS
<1>4. occ = Reach(top, Occupied(e)) /\ top \subseteq Cell /\ Occupied(e) \subseteq Cell /\ occ \subseteq Occupied(e)
  BY <1>1, <1>2, <1>3, LandingKeepsHeld, HeldCells DEF Held
<1>5. SUFFICES ASSUME NEW S \in SUBSET {c \in occ : c[1] > 0}, S # {}
               PROVE  \E p \in S : \E q \in Touching[p] : q \in occ /\ q \notin S
  BY <1>2 DEF Anchored
<1>6. S \subseteq occ /\ S \cap top = {}
  BY <1>3
<1>7. PICK p \in S, q \in occ : q \notin S /\ p \in neighbors[q]
  BY <1>4, <1>5, <1>6, ReachLinks
<1>8. p \in Cell /\ q \in Cell
  BY <1>4, <1>6, <1>7
<1>9. q \in Touching[p]
  BY <1>7, <1>8, NeighborsTouch, TouchingSymmetric
<1>10. QED
  BY <1>7, <1>9

LEMMA DisjointUnion ==
    ASSUME NEW M, NEW D, M \subseteq Cell, D \subseteq Cell, M \cap D = {}
    PROVE  Cardinality(M \cup D) = Cardinality(M) + Cardinality(D)
<1>1. IsFiniteSet(M) /\ IsFiniteSet(D) /\ Cardinality(M) \in Nat /\ Cardinality(D) \in Nat
  BY CellSets
<1>2. Cardinality(M \cup D) = Cardinality(M) + Cardinality(D) - Cardinality(M \cap D)
  BY <1>1, FS_Union
<1>3. Cardinality(M \cap D) = 0
  BY FS_EmptySet
<1>4. QED
  BY <1>1, <1>2, <1>3

\* Of what goes, only bubbles that are not held have another colour, and the
\* score is that of the bubbles that are gone.
LEMMA LandingPays ==
    ASSUME NEW k, k # Empty, board \in Boards, score \in Nat,
           NEW at, NEW placed, NEW matched, NEW dropped, Landing(k, at, placed, matched, dropped)
    PROVE  LET gone == Occupied(board) \ Occupied(board')
               matching == {p \in gone : board[p] = k}
               paid == Cardinality(Occupied(board)) + 1 - Cardinality(Occupied(board'))
           IN  /\ \A p \in gone \ matching :
                     p[1] > 0 /\ Touching[p] \cap Occupied(board') = {}
               /\ \E m \in {0} \cup 3..(Cardinality(matching) + 1) :
                     score' = score + 10 * m + 15 * (paid - m)
<1>1. PICK occ, left, e : occ = Occupied(board) /\ left = Occupied(board') /\ e = Erase(placed, matched)
  OBVIOUS
<1>2. PICK gone : gone = occ \ left
  OBVIOUS
<1>3. PICK matching : matching = {p \in gone : board[p] = k}
  OBVIOUS
<1>4. /\ at \in Cell /\ board[at] = Empty /\ placed = [board EXCEPT ![at] = k]
      /\ matched = clearMatches(placed, at)
      /\ score' = score + PointsFor(matched, dropped)
  BY DEF Landing
<1>5. Occupied(placed) = occ \cup {at} /\ at \notin occ /\ occ \subseteq Cell
  BY <1>1, <1>4 DEF Occupied, Boards
<1>6. left = Held(e) /\ dropped = Occupied(e) \ Held(e) /\ Occupied(e) = (occ \cup {at}) \ matched
  BY <1>1, <1>5, LandingKeepsHeld
<1>7. /\ matched \subseteq SameColor(placed, at)
      /\ matched = {} \/ Cardinality(matched) >= 3
  <2>1. PICK group : group = Reach({at}, SameColor(placed, at))
    OBVIOUS
  <2>2. group \subseteq SameColor(placed, at) /\ Cardinality(group) \in Nat
    BY <1>4, <2>1, GroupCells, CellSets
  <2>3. matched = IF Cardinality(group) < 3 THEN {} ELSE group
    BY <1>4, <2>1 DEF clearMatches, SameColor
  <2>4. QED
    BY <2>2, <2>3
<1>8. \A p \in matched : p \in Cell /\ placed[p] = k
  BY <1>4, <1>7 DEF SameColor, Boards
<1>9. matched \subseteq occ \cup {at} /\ \A p \in matched : p # at => p \in occ /\ board[p] = k
  <2>1. ASSUME NEW p \in matched, p # at
        PROVE  p \in occ /\ board[p] = k
    <3>1. placed[p] = board[p]
      BY <1>4, <1>8, <2>1 DEF Boards
    <3>2. QED
      BY <1>1, <1>8, <2>1, <3>1 DEF Occupied
  <2>2. QED
    BY <2>1
<1>10. Held(e) \subseteq Occupied(e) /\ {c \in Occupied(e) : c[1] = 0} \subseteq Held(e)
  BY HeldCells
<1>11. ASSUME NEW p \in gone \ matching
       PROVE  p[1] > 0 /\ Touching[p] \cap left = {}
  <2>1. p \in occ /\ p \in Cell /\ p \notin left /\ board[p] # k
    BY <1>2, <1>3, <1>5, <1>11
  <2>2. p \notin matched
    BY <1>5, <1>9, <2>1
  <2>3. p \in Occupied(e) /\ p \notin Held(e)
    BY <1>6, <2>1, <2>2
  <2>4. p[1] > 0
    <3>1. p[1] \in Nat /\ p[1] # 0
      BY <1>10, <2>1, <2>3, BoardAssumption DEF Cell, Row
    <3>2. QED
      BY <3>1
  <2>5. ASSUME NEW q \in Touching[p], q \in left
        PROVE  FALSE
    <3>1. q \in Held(e) /\ q \in Cell
      BY <1>1, <1>6, <2>5 DEF Occupied
    <3>2. p \in neighbors[q]
      BY <2>1, <2>5, <3>1, NeighborsTouch, TouchingSymmetric
    <3>3. {c \in Occupied(e) : c[1] = 0} \subseteq Cell /\ Occupied(e) \subseteq Cell
      BY HeldCells
    <3>4. p \in Held(e)
      BY <2>3, <3>1, <3>2, <3>3, ReachClosed DEF Held
    <3>5. QED
      BY <2>3, <3>4
  <2>6. QED
    BY <2>4, <2>5
<1>12. PICK m, d, n, j : /\ m = Cardinality(matched) /\ d = Cardinality(dropped)
                         /\ n = Cardinality(occ) /\ j = Cardinality(left)
  OBVIOUS
<1>13. /\ matched \subseteq Cell /\ dropped \subseteq Cell /\ left \subseteq Cell
       /\ matched \cap dropped = {} /\ (matched \cup dropped) \cap left = {}
       /\ (matched \cup dropped) \cup left = occ \cup {at}
  <2>1. matched \subseteq Cell /\ dropped \subseteq (occ \cup {at}) \ matched /\ left \subseteq occ \cup {at}
    BY <1>6, <1>8, <1>10
  <2>2. occ \cup {at} \subseteq Cell
    BY <1>4, <1>5
  <2>3. dropped \cup left = (occ \cup {at}) \ matched /\ dropped \cap left = {}
    BY <1>6, <1>10
  <2>4. QED
    BY <1>9, <2>1, <2>2, <2>3
<1>14. m \in Nat /\ d \in Nat /\ n \in Nat /\ j \in Nat
  BY <1>5, <1>12, <1>13, CellSets
<1>15. m + d + j = n + 1
  <2>1. Cardinality(matched \cup dropped) = m + d
    BY <1>12, <1>13, DisjointUnion
  <2>2. matched \cup dropped \subseteq Cell
    BY <1>13
  <2>3. Cardinality((matched \cup dropped) \cup left) = Cardinality(matched \cup dropped) + j
    BY <1>12, <1>13, <2>2, DisjointUnion
  <2>4. Cardinality(occ \cup {at}) = n + 1
    BY <1>5, <1>12, CellSets, FS_AddElement
  <2>5. QED
    BY <1>13, <2>1, <2>3, <2>4
<1>16. PICK c : c = Cardinality(matching)
  OBVIOUS
<1>17. c \in Nat /\ m <= c + 1
  <2>1. PICK rest : rest = matched \ {at}
    OBVIOUS
  <2>2. rest \subseteq matching /\ matching \subseteq Cell /\ IsFiniteSet(matching)
    BY <1>2, <1>3, <1>5, <1>9, <1>13, <2>1, CellSets
  <2>3. Cardinality(rest) <= c /\ c \in Nat
    BY <1>16, <2>2, CellSets, FS_Subset
  <2>4. IsFiniteSet(matched)
    BY <1>13, CellSets
  <2>5. Cardinality(rest) = IF at \in matched THEN m - 1 ELSE m
    BY <1>12, <2>1, <2>4, FS_RemoveElement
  <2>6. QED
    BY <1>14, <2>3, <2>5
<1>18. m \in {0} \cup 3 .. (c + 1)
  BY <1>7, <1>12, <1>14, <1>17, FS_EmptySet
<1>19. score' = score + 10 * m + 15 * ((n + 1 - j) - m)
  <2>1. (n + 1 - j) - m = d
    BY <1>14, <1>15
  <2>2. score' = score + (10 * m + 15 * d)
    BY <1>4, <1>12 DEF PointsFor
  <2>3. QED
    BY <1>14, <2>1, <2>2
<1>20. \E i \in {0} \cup 3 .. (c + 1) : score' = score + 10 * i + 15 * ((n + 1 - j) - i)
  BY <1>18, <1>19
<1>21. QED
  BY <1>1, <1>2, <1>3, <1>11, <1>12, <1>16, <1>20

-----------------------------------------------------------------------------
(* What a new layer does to the board. *)

\* The column below a bubble's place, in the row it is pushed to: an odd row's
\* bubbles go one to the right, its last one and those of an even row straight.
LEMMA PushColumn ==
    ASSUME NEW r \in Row, NEW c \in Col
    PROVE  nearestColForRowX(r + 1, cellCenter[<<r, c>>][1]) =
               IF r % 2 = 1 /\ c < gbCols - 1 THEN c + 1 ELSE c
<1>1. r \in Nat /\ c \in Nat /\ gbCols \in Nat /\ c <= gbCols - 1 /\ <<r, c>> \in Cell
  BY BoardAssumption DEF Row, Col, Cell
<1>2. PICK x \in Int : x = cellCenter[<<r, c>>][1]
  BY <1>1, CenterInt
<1>3. x = 16 + Shift(r) + c * 32
  BY <1>1, <1>2 DEF cellCenter, gbRadius, gbDiam
<1>4. nearestColForRowX(r + 1, x) = Clamp(Round(x - 16 - Shift(r + 1), 32), 0, gbCols - 1)
  BY DEF nearestColForRowX, gbRadius, gbDiam
<1>5. CASE r % 2 = 1
  <2>1. Shift(r) = 16 /\ Shift(r + 1) = 0
    BY <1>1, <1>5 DEF Shift, gbRadius
  <2>2. x - 16 - Shift(r + 1) = 32 * c + 16
    BY <1>1, <1>3, <2>1
  <2>3. Round(32 * c + 16, 32) = c + 1
    BY <1>1 DEF Round
  <2>4. QED
    BY <1>1, <1>2, <1>4, <1>5, <2>2, <2>3 DEF Clamp
<1>6. CASE r % 2 # 1
  <2>1. Shift(r) = 0 /\ Shift(r + 1) = 16
    BY <1>1, <1>6 DEF Shift, gbRadius
  <2>2. x - 16 - Shift(r + 1) = 32 * c - 16
    BY <1>1, <1>3, <2>1
  <2>3. CASE c = 0
    <3>1. Round(-16, 32) = -1
      BY DEF Round
    <3>2. QED
      BY <1>1, <1>2, <1>4, <1>6, <2>2, <2>3, <3>1 DEF Clamp
  <2>4. CASE c # 0
    <3>1. Round(32 * c - 16, 32) = c
      BY <1>1, <2>4 DEF Round
    <3>2. QED
      BY <1>1, <1>2, <1>4, <1>6, <2>2, <3>1 DEF Clamp
  <2>5. QED
    BY <2>3, <2>4
<1>7. QED
  BY <1>5, <1>6

\* nearestEmptyInRow finds the closest free column.
LEMMA SlotIsNearest ==
    ASSUME NEW row, NEW c \in Col, NEW free, free = {o \in Col : row[o] = Empty}, free # {}
    PROVE  /\ Slot(row, c) \in free
           /\ c \in free => Slot(row, c) = c
           /\ \A o \in free : o <= c => c - o >= Slot(row, c) - c /\ c - o >= c - Slot(row, c)
<1>1. c \in Nat /\ free \subseteq Nat
  BY BoardAssumption DEF Col
<1> DEFINE away(o) == IF o <= c THEN c - o ELSE o - c
<1>2. \A o \in free : Max({c - o, o - c}) = away(o) /\ away(o) \in Nat
  <2>1. TAKE o \in free
  <2>2. PICK m \in Int : m = c - o /\ o - c = -m
    BY <1>1
  <2>3. CASE m >= 0
    <3>1. Max({m, -m}) = m
      BY <2>3 DEF Max
    <3>2. QED
      BY <1>1, <2>2, <2>3, <3>1
  <2>4. CASE m < 0
    <3>1. Max({m, -m}) = -m
      BY <2>4 DEF Max
    <3>2. {c - o, o - c} = {m, -m}
      BY <2>2
    <3>3. -m = away(o) /\ -m \in Nat
      BY <1>1, <2>2, <2>4
    <3>4. QED
      BY <3>1, <3>2, <3>3
  <2>5. QED
    BY <2>2, <2>3, <2>4
<1>3. PICK T : T = {Max({c - o, o - c}) : o \in free}
  OBVIOUS
<1>4. T \subseteq Nat /\ T # {}
  BY <1>2, <1>3
<1>5. PICK d : d = Min(T)
  OBVIOUS
<1>6. d \in T /\ \A m \in T : d <= m
  <2>1. \E n \in T : \A m \in T : n <= m
    BY <1>4, NatMin
  <2>2. QED
    BY <1>5, <2>1 DEF Min
<1>7. \A o \in free : d <= away(o)
  <2>1. TAKE o \in free
  <2>2. Max({c - o, o - c}) \in T
    BY <1>3
  <2>3. QED
    BY <1>2, <1>6, <2>2
<1>8. PICK o \in free : d = away(o)
  <2>1. PICK o \in free : d = Max({c - o, o - c})
    BY <1>3, <1>6
  <2>2. QED
    BY <1>2, <2>1
<1>9. o = c - d \/ o = c + d
  BY <1>1, <1>8
<1>10. Slot(row, c) = IF c - d \in free THEN c - d ELSE c + d
  BY <1>3, <1>5 DEF Slot
<1>11. d \in Nat /\ Slot(row, c) \in free /\ (Slot(row, c) = c - d \/ Slot(row, c) = c + d)
  BY <1>4, <1>6, <1>8, <1>9, <1>10
<1>12. c \in free => d = 0
  BY <1>1, <1>7, <1>11
<1>13. ASSUME NEW q \in free, q <= c
       PROVE  c - q >= Slot(row, c) - c /\ c - q >= c - Slot(row, c)
  <2>1. d <= c - q
    BY <1>7, <1>13
  <2>2. PICK s \in Nat : s = Slot(row, c) /\ (s = c - d \/ s = c + d)
    BY <1>1, <1>11
  <2>3. QED
    BY <1>1, <1>11, <2>1, <2>2
<1>14. c \in free => Slot(row, c) = c
  BY <1>1, <1>11, <1>12
<1>15. QED
  BY <1>11, <1>13, <1>14

\* The column to which PushColumn sends the bubble of column n.
Below(r, n) == IF r % 2 = 1 /\ n < gbCols - 1 THEN n + 1 ELSE n

LEMMA PushOne ==
    ASSUME NEW r \in Row, NEW upto, Pushes(upto, r), NEW n \in Col
    PROVE  /\ upto[n] \in RowsOf /\ upto[n + 1] \in RowsOf
           /\ upto[n + 1] = IF board[<<r, n>>] = Empty THEN upto[n]
                            ELSE [upto[n] EXCEPT ![Slot(upto[n], Below(r, n))] = board[<<r, n>>]]
<1>1. PICK m \in 1 .. gbCols : m = n + 1 /\ m - 1 = n /\ m \in 0 .. gbCols /\ n \in 0 .. gbCols
  BY BoardAssumption DEF Col
<1>2. upto[n] \in RowsOf /\ upto[m] \in RowsOf
  BY <1>1 DEF Pushes
<1>3. upto[m] = IF board[<<r, n>>] = Empty THEN upto[n]
                ELSE [upto[n] EXCEPT ![Slot(upto[n], Below(r, n))] = board[<<r, n>>]]
  BY <1>1, PushColumn DEF Pushes, Below
<1>4. QED
  BY <1>1, <1>2, <1>3

\* If that is free, the bubble stays there.
LEMMA PushFree ==
    ASSUME NEW r \in Row, NEW upto, Pushes(upto, r), NEW n \in Col, NEW t \in Col,
           t = Below(r, n), upto[n][t] = Empty, NEW c \in Col
    PROVE  upto[n + 1][c] = IF c = t THEN board[<<r, n>>] ELSE upto[n][c]
<1>1. PICK row, after, b : row = upto[n] /\ after = upto[n + 1] /\ b = board[<<r, n>>]
  OBVIOUS
<1>2. row \in RowsOf /\ after = IF b = Empty THEN row ELSE [row EXCEPT ![Slot(row, t)] = b]
  BY <1>1, PushOne
<1>3. Slot(row, t) = t
  <2>1. PICK free : free = {o \in Col : row[o] = Empty}
    OBVIOUS
  <2>2. t \in free
    BY <1>1, <2>1
  <2>3. QED
    BY <2>1, <2>2, SlotIsNearest
<1>4. QED
  BY <1>1, <1>2, <1>3 DEF RowsOf

\* An even row goes straight down.
LEMMA PushedEven ==
    ASSUME NEW r \in Row, r % 2 # 1, board \in Boards
    PROVE  \A c \in Col : Pushed(r)[c] = board[<<r, c>>]
<1>1. PICK upto : Pushes(upto, r)
  BY PushedByColumn
<1>2. PICK k \in Nat : k = gbCols
  BY BoardAssumption
<1> DEFINE T == {n \in 0 .. k : \A c \in Col : upto[n][c] = IF c < n THEN board[<<r, c>>] ELSE Empty}
<1>3. 0 \in T
  <2>1. \A c \in Col : ~(c < 0) /\ upto[0][c] = Empty
    BY <1>1, BoardAssumption DEF Pushes, Col
  <2>2. QED
    BY <2>1
<1>4. ASSUME NEW n \in 0 .. k - 1, n \in T
      PROVE  n + 1 \in T
  <2>1. PICK m \in Col : m = n
    BY <1>2 DEF Col
  <2>2. m \in Int /\ m = Below(r, m)
    BY <1>2, <2>1 DEF Below
  <2>3. \A c \in Col : upto[m + 1][c] = IF c = m THEN board[<<r, m>>] ELSE upto[m][c]
    <3>1. upto[m][m] = IF m < m THEN board[<<r, m>>] ELSE Empty
      BY <1>4, <2>1
    <3>2. upto[m][m] = Empty
      BY <2>2, <3>1
    <3>3. QED
      BY <1>1, <2>2, <3>2, PushFree
  <2>4. \A c \in Col : (c < n + 1 <=> c < n \/ c = n) /\ ~(n < n)
    BY BoardAssumption DEF Col
  <2>5. \A c \in Col : upto[n + 1][c] = IF c < n + 1 THEN board[<<r, c>>] ELSE Empty
    BY <1>4, <2>1, <2>3, <2>4
  <2>6. QED
    BY <2>5
<1>5. 0 .. k \subseteq T
  BY <1>3, <1>4, Induction
<1>6. k \in T /\ \A c \in Col : c < k
  BY <1>2, <1>5 DEF Col
<1>7. QED
  BY <1>1, <1>2, <1>6 DEF Pushes

\* An odd row moves one column to the right, and its last bubble goes to j, the
\* first free column on its left.
Shifted(row, r, j) ==
    /\ j = 0 \/ board[<<r, j - 1>>] = Empty
    /\ row[j] = board[<<r, gbCols - 1>>]
    /\ \A c \in Col \ {j} : row[c] = IF c = 0 THEN Empty ELSE board[<<r, c - 1>>]
    /\ board[<<r, gbCols - 1>>] # Empty => \A c \in Col : c > j => board[<<r, c - 1>>] # Empty

LEMMA PushedOdd ==
    ASSUME NEW r \in Row, r % 2 = 1, board \in Boards
    PROVE  \E j \in Col : Shifted(Pushed(r), r, j)
<1>1. PICK upto : Pushes(upto, r)
  BY PushedByColumn
<1>2. PICK k \in Nat : k = gbCols - 1 /\ k \in Col /\ Col = 0 .. k /\ gbCols = k + 1
  <2>1. gbCols - 1 \in Nat /\ gbCols - 1 \in Col /\ gbCols = (gbCols - 1) + 1
    BY BoardAssumption DEF Col
  <2>2. QED
    BY <2>1 DEF Col
<1> DEFINE Old(c) == IF c = 0 THEN Empty ELSE board[<<r, c - 1>>]
           T == {n \in 0 .. k : \A c \in Col : upto[n][c] = IF c <= n THEN Old(c) ELSE Empty}
<1> HIDE DEF Old
<1>3. 0 \in T
  <2>1. \A c \in Col : c <= 0 => Old(c) = Empty
    BY <1>2 DEF Old
  <2>2. \A c \in Col : upto[0][c] = Empty
    BY <1>1 DEF Pushes
  <2>3. QED
    BY <2>1, <2>2
<1>4. ASSUME NEW n \in 0 .. k - 1, n \in T
      PROVE  n + 1 \in T
  <2>1. PICK t \in Col : t = n + 1 /\ t = Below(r, n)
    BY <1>2 DEF Below
  <2>2. n \in Col /\ t \in 0 .. k
    BY <1>2
  <2>3. upto[n][t] = Empty
    BY <1>4, <2>1, <2>2
  <2>4. \A c \in Col : upto[n + 1][c] = IF c = t THEN board[<<r, n>>] ELSE upto[n][c]
    BY <1>1, <2>1, <2>2, <2>3, PushFree
  <2>5. Old(t) = board[<<r, n>>]
    BY <2>1 DEF Old
  <2>6. \A c \in Col : (c <= t <=> c <= n \/ c = t) /\ ~(t <= n)
    BY <1>2, <2>1
  <2>7. QED
    BY <1>4, <2>1, <2>4, <2>5, <2>6
<1>5. 0 .. k \subseteq T
  BY <1>3, <1>4, Induction
<1>6. \A c \in Col : upto[k][c] = Old(c)
  BY <1>2, <1>5
<1>7. PICK row, b : row = upto[k] /\ b = board[<<r, k>>]
  OBVIOUS
<1>8. /\ row \in RowsOf
      /\ upto[k + 1] = IF b = Empty THEN row ELSE [row EXCEPT ![Slot(row, k)] = b]
  <2>1. k = Below(r, k)
    BY <1>2 DEF Below
  <2>2. QED
    BY <1>1, <1>2, <1>7, <2>1, PushOne
<1>9. Pushed(r) = upto[k + 1]
  BY <1>1, <1>2 DEF Pushes
<1>10. CASE b = Empty
  <2>1. 0 \in Col
    BY <1>2
  <2>2. row[0] = Empty
    BY <1>6, <1>7, <2>1 DEF Old
  <2>3. Shifted(Pushed(r), r, 0)
    BY <1>2, <1>6, <1>7, <1>8, <1>9, <1>10, <2>1, <2>2 DEF Shifted, Old
  <2>4. QED
    BY <2>1, <2>3
<1>11. CASE b # Empty
  <2>1. PICK free : free = {o \in Col : row[o] = Empty}
    OBVIOUS
  <2>2. 0 \in free
    <3>1. 0 \in Col
      BY <1>2
    <3>2. row[0] = Empty
      BY <1>6, <1>7, <3>1 DEF Old
    <3>3. QED
      BY <2>1, <3>1, <3>2
  <2>3. PICK j : j = Slot(row, k)
    OBVIOUS
  <2>4. j \in free /\ \A o \in free : o <= k => k - o >= k - j
    BY <1>2, <2>1, <2>2, <2>3, SlotIsNearest
  <2>5. j \in Col /\ row[j] = Empty
    BY <2>1, <2>4
  <2>6. \A c \in Col : c > j => Old(c) # Empty
    <3>1. ASSUME NEW c \in Col, c > j, Old(c) = Empty
          PROVE  FALSE
      <4>1. c \in free
        BY <1>6, <1>7, <2>1, <3>1
      <4>2. k - c >= k - j
        BY <1>2, <2>4, <3>1, <4>1
      <4>3. QED
        BY <1>2, <2>5, <3>1, <4>2
    <3>2. QED
      BY <3>1
  <2>7. Old(j) = Empty
    BY <1>6, <1>7, <2>5
  <2>8. Pushed(r) = [row EXCEPT ![j] = b]
    BY <1>8, <1>9, <1>11, <2>3
  <2>9. Pushed(r)[j] = b /\ \A c \in Col \ {j} : Pushed(r)[c] = Old(c)
    BY <1>6, <1>7, <1>8, <2>5, <2>8 DEF RowsOf
  <2>10. \A c \in Col : c > j => c # 0
    BY <1>2, <2>5
  <2>11. Shifted(Pushed(r), r, j)
    BY <1>2, <1>7, <2>6, <2>7, <2>9, <2>10 DEF Shifted, Old
  <2>12. QED
    BY <2>5, <2>11
<1>12. QED
  BY <1>10, <1>11

\* The board after a new layer, row by row.
LEMMA LayerRows ==
    ASSUME BubbleTypeOK, AddTopLayer
    PROVE  /\ board \in Boards /\ board' \in Boards
           /\ \A c \in Col : board'[<<0, c>>] \in Color
           /\ \A r \in 0 .. gbRows - 2, c \in Col : board'[<<r + 1, c>>] = Pushed(r)[c]
           /\ \A c \in Col : board[<<gbRows - 1, c>>] = Empty
           /\ 0 .. gbRows - 2 \subseteq Row /\ 0 \in Row
<1>1. PICK pushed : pushed = [r \in 0 .. gbRows - 2 |-> Pushed(r)]
  OBVIOUS
<1>2. PICK top \in [Col -> Color] :
          board' = [at \in Cell |-> IF at[1] = 0 THEN top[at[2]] ELSE pushed[at[1] - 1][at[2]]]
  BY <1>1 DEF AddTopLayer
<1>3. 0 .. gbRows - 2 \subseteq Row /\ 0 \in Row /\ gbRows - 1 \in Row
  BY BoardAssumption DEF Row
<1>4. board \in Boards /\ board' \in Boards
  <2>1. BubbleTypeOK'
    BY BubbleStep DEF BubbleNext
  <2>2. QED
    BY <2>1 DEF BubbleTypeOK, Boards
<1>5. ASSUME NEW c \in Col
      PROVE  board'[<<0, c>>] \in Color
  <2>1. <<0, c>> \in Cell
    BY <1>3 DEF Cell
  <2>2. QED
    BY <1>2, <2>1
<1>6. ASSUME NEW r \in 0 .. gbRows - 2, NEW c \in Col
      PROVE  board'[<<r + 1, c>>] = Pushed(r)[c]
  <2>1. PICK s \in Row : s = r + 1 /\ s # 0 /\ s - 1 = r
    BY BoardAssumption DEF Row
  <2>2. <<s, c>> \in Cell
    BY <2>1 DEF Cell
  <2>3. board'[<<s, c>>] = pushed[s - 1][c]
    BY <1>2, <2>1, <2>2
  <2>4. QED
    BY <1>1, <2>1, <2>3
<1>7. ASSUME NEW c \in Col
      PROVE  board[<<gbRows - 1, c>>] = Empty
  <2>1. <<gbRows - 1, c>> \in Cell
    BY <1>3 DEF Cell
  <2>2. ~\E at \in Occupied(board) : at[1] = gbRows - 1
    BY DEF AddTopLayer, BubbleTypeOK, StatusMatchesBoard
  <2>3. QED
    BY <2>1, <2>2 DEF Occupied
<1>8. QED
  BY <1>3, <1>4, <1>5, <1>6, <1>7

\* Where the bubble of column c goes in an odd row whose last one goes to j.
Goal(c, j) == IF c < gbCols - 1 THEN c + 1 ELSE j

\* No two of them go to one place, and nothing else goes there.
LEMMA GoalsDiffer ==
    ASSUME NEW r \in Row, board \in Boards, NEW row, NEW j \in Col, Shifted(row, r, j)
    PROVE  /\ \A c \in Col : Goal(c, j) \in Col
           /\ \A c \in Col : board[<<r, c>>] # Empty => row[Goal(c, j)] = board[<<r, c>>]
           /\ \A c, d \in Col : /\ board[<<r, c>>] # Empty /\ board[<<r, d>>] # Empty
                                /\ Goal(c, j) = Goal(d, j)
                                => c = d
           /\ \A d \in Col : row[d] # Empty => \E c \in Col : Goal(c, j) = d /\ board[<<r, c>>] = row[d]
<1>1. PICK k \in Nat : k = gbCols - 1 /\ Col = 0 .. k
  <2>1. gbCols - 1 \in Nat
    BY BoardAssumption
  <2>2. QED
    BY <2>1 DEF Col
<1>2. k \in Col /\ \A c \in Col : (c < k => c + 1 \in Col /\ c + 1 # 0 /\ (c + 1) - 1 = c) /\ (~(c < k) => c = k)
  BY <1>1
<1>3. /\ j = 0 \/ board[<<r, j - 1>>] = Empty
      /\ row[j] = board[<<r, k>>]
      /\ \A c \in Col \ {j} : row[c] = IF c = 0 THEN Empty ELSE board[<<r, c - 1>>]
  BY <1>1 DEF Shifted
<1>4. \A c \in Col : Goal(c, j) = IF c < k THEN c + 1 ELSE j
  BY <1>1 DEF Goal
<1>5. \A c \in Col : Goal(c, j) \in Col
  BY <1>2, <1>4
<1>6. ASSUME NEW c \in Col, c < k, c + 1 = j
      PROVE  board[<<r, c>>] = Empty
  BY <1>2, <1>3, <1>6
<1>7. ASSUME NEW c \in Col, board[<<r, c>>] # Empty
      PROVE  row[Goal(c, j)] = board[<<r, c>>]
  <2>1. CASE c < k
    <3>1. PICK d \in Col : d = c + 1 /\ d # 0 /\ d - 1 = c
      BY <1>2, <2>1
    <3>2. d # j
      BY <1>6, <1>7, <2>1, <3>1
    <3>3. QED
      BY <1>3, <1>4, <2>1, <3>1, <3>2
  <2>2. CASE ~(c < k)
    BY <1>2, <1>3, <1>4, <2>2
  <2>3. QED
    BY <2>1, <2>2
<1>8. ASSUME NEW c \in Col, NEW d \in Col, board[<<r, c>>] # Empty, board[<<r, d>>] # Empty,
             Goal(c, j) = Goal(d, j)
      PROVE  c = d
  <2>1. CASE c < k /\ d < k
    <3>1. c + 1 = d + 1
      BY <1>4, <1>8, <2>1
    <3>2. QED
      BY <1>1, <3>1
  <2>2. CASE ~(c < k) /\ ~(d < k)
    BY <1>2, <2>2
  <2>3. CASE c < k /\ ~(d < k)
    BY <1>4, <1>6, <1>8, <2>3
  <2>4. CASE ~(c < k) /\ d < k
    BY <1>4, <1>6, <1>8, <2>4
  <2>5. QED
    BY <2>1, <2>2, <2>3, <2>4
<1>9. ASSUME NEW d \in Col, row[d] # Empty
      PROVE  \E c \in Col : Goal(c, j) = d /\ board[<<r, c>>] = row[d]
  <2>1. CASE d = j
    <3>1. Goal(k, j) = d /\ board[<<r, k>>] = row[d]
      BY <1>1, <1>2, <1>3, <1>4, <2>1
    <3>2. QED
      BY <1>2, <3>1
  <2>2. CASE d # j
    <3>1. d # 0 /\ row[d] = board[<<r, d - 1>>]
      BY <1>3, <1>9, <2>2
    <3>2. PICK c \in Col : c = d - 1 /\ c < k /\ c + 1 = d
      BY <1>1, <3>1
    <3>3. QED
      BY <1>4, <3>1, <3>2
  <2>3. QED
    BY <2>1, <2>2
<1>10. QED
  BY <1>5, <1>7, <1>8, <1>9

\* A pushed row has as many bubbles of a colour as before.
LEMMA RowCount ==
    ASSUME NEW r \in Row, board \in Boards, NEW k \in Color
    PROVE  Cardinality({c \in Col : board[<<r, c>>] = k}) = Cardinality({c \in Col : Pushed(r)[c] = k})
<1>1. k # Empty
  BY ColorAssumption
<1>2. PICK S, T : S = {c \in Col : board[<<r, c>>] = k} /\ T = {c \in Col : Pushed(r)[c] = k}
  OBVIOUS
<1>3. CASE r % 2 # 1
  <2>1. S = T
    BY <1>2, <1>3, PushedEven
  <2>2. QED
    BY <1>2, <2>1
<1>4. CASE r % 2 = 1
  <2>1. PICK row, j : row = Pushed(r) /\ j \in Col /\ Shifted(row, r, j)
    BY <1>4, PushedOdd
  <2>2. /\ \A c \in Col : Goal(c, j) \in Col
        /\ \A c \in Col : board[<<r, c>>] # Empty => row[Goal(c, j)] = board[<<r, c>>]
        /\ \A c, d \in Col : /\ board[<<r, c>>] # Empty /\ board[<<r, d>>] # Empty
                             /\ Goal(c, j) = Goal(d, j)
                             => c = d
        /\ \A d \in Col : row[d] # Empty => \E c \in Col : Goal(c, j) = d /\ board[<<r, c>>] = row[d]
    BY <2>1, GoalsDiffer
  <2>3. PICK f : f = [c \in S |-> Goal(c, j)]
    OBVIOUS
  <2>4. S \subseteq Col /\ \A c \in S : board[<<r, c>>] = k
    BY <1>2
  <2>5. f \in [S -> T]
    <3>1. ASSUME NEW c \in S
          PROVE  Goal(c, j) \in T
      <4>1. Goal(c, j) \in Col /\ row[Goal(c, j)] = k
        <5>1. c \in Col /\ board[<<r, c>>] = k
          BY <2>4, <3>1
        <5>2. QED
          BY <1>1, <2>2, <5>1
      <4>2. QED
        BY <1>2, <2>1, <4>1
    <3>2. QED
      BY <2>3, <3>1
  <2>6. \A c, d \in S : f[c] = f[d] => c = d
    <3>1. TAKE c, d \in S
    <3>2. c \in Col /\ d \in Col /\ board[<<r, c>>] # Empty /\ board[<<r, d>>] # Empty
      BY <1>1, <2>4
    <3>3. f[c] = Goal(c, j) /\ f[d] = Goal(d, j)
      BY <2>3
    <3>4. HAVE f[c] = f[d]
    <3>5. Goal(c, j) = Goal(d, j)
      BY <3>3, <3>4
    <3>6. QED
      BY <2>2, <3>2, <3>5
  <2>7. \A d \in T : \E c \in S : f[c] = d
    <3>1. ASSUME NEW d \in T
          PROVE  \E c \in S : f[c] = d
      <4>1. d \in Col /\ row[d] = k
        BY <1>2, <2>1
      <4>2. PICK c \in Col : Goal(c, j) = d /\ board[<<r, c>>] = row[d]
        <5>1. row[d] # Empty
          BY <1>1, <4>1
        <5>2. QED
          BY <2>2, <4>1, <5>1
      <4>3. QED
        BY <1>2, <2>3, <4>1, <4>2
    <3>2. QED
      BY <3>1
  <2>8. ExistsBijection(S, T)
    BY <2>5, <2>6, <2>7 DEF ExistsBijection, Bijection, Injection, Surjection, IsInjective
  <2>9. IsFiniteSet(S)
    <3>1. IsFiniteSet(Col)
      BY FS_Interval, BoardAssumption DEF Col
    <3>2. QED
      BY <2>4, <3>1, FS_Subset
  <2>10. QED
    BY <1>2, <2>8, <2>9, FS_Bijection
<1>5. QED
  BY <1>3, <1>4

\* A new layer costs nobody a bubble: every row arrives one row lower with as
\* many of each colour, on a board of any size (AddTopLayer, nearestEmptyInRow).
THEOREM LayersCostNothing == BubbleSpec => LayersLoseNoBubble
<1> DEFINE Kept ==
       /\ \A r \in 0..(gbRows - 2), k \in Color :
             Cardinality({c \in Col : board[<<r, c>>] = k}) = Cardinality({c \in Col : board'[<<r + 1, c>>] = k})
       /\ \A c \in Col : board[<<gbRows - 1, c>>] = Empty
<1>1. BubbleTypeOK /\ [BubbleNext]_bvars => [layers' # layers => Kept]_bvars
  <2> SUFFICES ASSUME BubbleTypeOK, BubbleNext, layers' # layers
               PROVE  Kept
    BY DEF bvars
  <2>1. AddTopLayer
    BY DEF BubbleNext, BeginClientShot, CommitLanding, Fire, TickState
  <2>2. ASSUME NEW r \in 0..(gbRows - 2), NEW k \in Color
        PROVE  Cardinality({c \in Col : board[<<r, c>>] = k}) = Cardinality({c \in Col : board'[<<r + 1, c>>] = k})
    <3>1. r \in Row /\ board \in Boards
      BY <2>1, LayerRows
    <3>2. {c \in Col : board'[<<r + 1, c>>] = k} = {c \in Col : Pushed(r)[c] = k}
      BY <2>1, LayerRows
    <3>3. QED
      BY <3>1, <3>2, RowCount
  <2>3. QED
    BY <2>1, <2>2, LayerRows
<1>2. QED
  BY <1>1, BubbleTypeCorrect, PTL DEF BubbleSpec, LayersLoseNoBubble

\* A bubble that lands and stays does not complete three of its colour, on a
\* board of any size: clearMatches goes through as many waves as it takes
\* (placeAndResolve, clearMatches).
THEOREM MatchesGo == BubbleSpec => MatchesAreCleared
<1> DEFINE Cleared ==
       \A p \in Occupied(board') \ Occupied(board) :
            ~\E q, o \in {at \in Occupied(board') : board'[at] = board'[p]} \ {p} :
                q # o /\ q \in Touching[p] /\ o \in Touching[p] \cup Touching[q]
<1>1. BubbleTypeOK /\ [BubbleNext]_bvars => [Lands => Cleared]_bvars
  <2> SUFFICES ASSUME BubbleTypeOK, [BubbleNext]_bvars, Lands
               PROVE  Cleared
    OBVIOUS
  <2>1. PICK k \in Color : \E at, placed, matched, dropped : Landing(k, at, placed, matched, dropped)
    BY LandsResolves
  <2>2. PICK at, placed, matched, dropped : Landing(k, at, placed, matched, dropped)
    BY <2>1
  <2>3. k # Empty /\ board \in Boards
    BY ColorAssumption DEF BubbleTypeOK, Boards
  <2>4. QED
    BY <2>2, <2>3, LandingClearsMatches
<1>2. QED
  BY <1>1, BubbleTypeCorrect, PTL DEF BubbleSpec, MatchesAreCleared

\* Only matched bubbles and bubbles in the air go, and each is paid for once,
\* on a board of any size (placeAndResolve, clearMatches, dropFloating).
THEOREM UnheldFall == BubbleSpec => OnlyTheUnheldFall
<1> DEFINE Paid ==
       LET k == IF shot' # shot THEN shot ELSE moving.color
           gone == Occupied(board) \ Occupied(board')
           matching == {p \in gone : board[p] = k}
           paid == Cardinality(Occupied(board)) + 1 - Cardinality(Occupied(board'))
       IN  /\ \A p \in gone \ matching :
                 p[1] > 0 /\ Touching[p] \cap Occupied(board') = {}
           /\ \E m \in {0} \cup 3..(Cardinality(matching) + 1) :
                 score' = score + 10 * m + 15 * (paid - m)
<1>1. BubbleTypeOK /\ [BubbleNext]_bvars => [Lands => Paid]_bvars
  <2> SUFFICES ASSUME BubbleTypeOK, [BubbleNext]_bvars, Lands
               PROVE  Paid
    OBVIOUS
  <2>1. PICK k \in Color : /\ k = IF shot' # shot THEN shot ELSE moving.color
                           /\ \E at, placed, matched, dropped : Landing(k, at, placed, matched, dropped)
    BY LandsResolves
  <2>2. PICK at, placed, matched, dropped : Landing(k, at, placed, matched, dropped)
    BY <2>1
  <2>3. k # Empty /\ board \in Boards /\ score \in Nat
    BY ColorAssumption DEF BubbleTypeOK, Boards
  <2>4. QED
    BY <2>1, <2>2, <2>3, LandingPays
<1>2. QED
  BY <1>1, BubbleTypeCorrect, PTL DEF BubbleSpec, OnlyTheUnheldFall

\* Where a new layer pushes the bubble of <<r, c>>.
LastGoal(r) == CHOOSE j \in Col : Shifted(Pushed(r), r, j)
PushedTo(r, c) == <<r + 1, IF r % 2 = 1 THEN Goal(c, LastGoal(r)) ELSE c>>

LEMMA PushedToCells ==
    ASSUME BubbleTypeOK, AddTopLayer, NEW r \in 0 .. gbRows - 2
    PROVE  /\ \A c \in Col : PushedTo(r, c) \in Cell
           /\ \A c \in Col : board[<<r, c>>] # Empty => PushedTo(r, c) \in Occupied(board')
           /\ \A d \in Col : <<r + 1, d>> \in Occupied(board') =>
                 \E c \in Col : PushedTo(r, c) = <<r + 1, d>> /\ board[<<r, c>>] # Empty
<1>1. r \in Row /\ board \in Boards
  BY LayerRows
<1>2. PICK s \in Row : s = r + 1
  BY BoardAssumption DEF Row
<1>3. \A d \in Col : /\ <<s, d>> \in Cell
                     /\ <<s, d>> \in Occupied(board') <=> Pushed(r)[d] # Empty
  <2>1. TAKE d \in Col
  <2>2. <<s, d>> \in Cell
    BY DEF Cell
  <2>3. board'[<<s, d>>] = Pushed(r)[d]
    BY <1>2, LayerRows
  <2>4. QED
    BY <2>2, <2>3 DEF Occupied
<1>4. CASE r % 2 # 1
  <2>1. \A c \in Col : PushedTo(r, c) = <<s, c>>
    BY <1>2, <1>4 DEF PushedTo
  <2>2. \A c \in Col : Pushed(r)[c] = board[<<r, c>>]
    BY <1>1, <1>4, PushedEven
  <2>3. QED
    BY <1>2, <1>3, <2>1, <2>2
<1>5. CASE r % 2 = 1
  <2>1. PICK j, row : j = LastGoal(r) /\ row = Pushed(r)
    OBVIOUS
  <2>2. j \in Col /\ Shifted(row, r, j)
    BY <1>1, <1>5, <2>1, PushedOdd DEF LastGoal
  <2>3. \A c \in Col : PushedTo(r, c) = <<s, Goal(c, j)>>
    BY <1>2, <1>5, <2>1 DEF PushedTo
  <2>4. /\ \A c \in Col : Goal(c, j) \in Col
        /\ \A c \in Col : board[<<r, c>>] # Empty => row[Goal(c, j)] = board[<<r, c>>]
        /\ \A d \in Col : row[d] # Empty => \E c \in Col : Goal(c, j) = d /\ board[<<r, c>>] = row[d]
    BY <1>1, <2>2, GoalsDiffer
  <2>5. \A c \in Col : PushedTo(r, c) \in Cell
    BY <1>3, <2>3, <2>4
  <2>6. \A c \in Col : board[<<r, c>>] # Empty => PushedTo(r, c) \in Occupied(board')
    BY <1>3, <2>1, <2>3, <2>4
  <2>7. ASSUME NEW d \in Col, <<s, d>> \in Occupied(board')
        PROVE  \E c \in Col : PushedTo(r, c) = <<s, d>> /\ board[<<r, c>>] # Empty
    <3>1. row[d] # Empty
      BY <1>3, <2>1, <2>7
    <3>2. PICK c \in Col : Goal(c, j) = d /\ board[<<r, c>>] = row[d]
      BY <2>4, <3>1
    <3>3. QED
      BY <2>3, <3>1, <3>2
  <2>8. QED
    BY <1>2, <2>5, <2>6, <2>7
<1>6. QED
  BY <1>4, <1>5

\* S is a group of bubbles of the new board that touches no other.
Apart(S) ==
    /\ S \subseteq Occupied(board')
    /\ \A p \in S : \A q \in Touching[p] : q \in Occupied(board') => q \in S

LEMMA ApartTogether ==
    ASSUME NEW S, Apart(S), NEW p \in Occupied(board'), NEW q \in Occupied(board'), q \in Touching[p]
    PROVE  p \in S <=> q \in S
<1>1. p \in Cell /\ q \in Cell
  BY DEF Occupied
<1>2. p \in Touching[q]
  BY <1>1, TouchingSymmetric
<1>3. QED
  BY <1>2 DEF Apart

\* The last bubble of an odd row is in the group of its last column, ...
LEMMA LastJoins ==
    ASSUME BubbleTypeOK, AddTopLayer, NEW S, Apart(S), NEW r \in 0 .. gbRows - 2, r % 2 = 1,
           board[<<r, gbCols - 1>>] # Empty
    PROVE  /\ <<r + 1, gbCols - 1>> \in Occupied(board')
           /\ PushedTo(r, gbCols - 1) \in S <=> <<r + 1, gbCols - 1>> \in S
<1>1. PICK k \in Nat : k = gbCols - 1 /\ Col = 0 .. k
  <2>1. gbCols - 1 \in Nat
    BY BoardAssumption
  <2>2. QED
    BY <2>1 DEF Col
<1>2. r \in Row /\ board \in Boards
  BY LayerRows
<1>3. PICK j \in 0 .. k : j = LastGoal(r) /\ Shifted(Pushed(r), r, j)
  BY <1>1, <1>2, PushedOdd DEF LastGoal
<1>4. PICK s \in Row : s = r + 1
  BY BoardAssumption DEF Row
<1>5. ASSUME NEW c \in Col, c >= j
      PROVE  <<s, c>> \in Occupied(board')
  <2>1. <<s, c>> \in Cell /\ board'[<<s, c>>] = Pushed(r)[c]
    BY <1>4, LayerRows DEF Cell
  <2>2. Pushed(r)[c] # Empty
    <3>1. CASE c = j
      BY <1>3, <3>1 DEF Shifted
    <3>2. CASE c > j
      <4>1. c # j /\ c # 0
        BY <1>1, <3>2
      <4>2. Pushed(r)[c] = board[<<r, c - 1>>]
        BY <1>3, <4>1 DEF Shifted
      <4>3. QED
        BY <1>3, <3>2, <4>2 DEF Shifted
    <3>3. QED
      BY <1>1, <1>5, <3>1, <3>2
  <2>3. QED
    BY <2>1, <2>2 DEF Occupied
<1>6. PICK m \in Nat : m = k - j
  <2>1. k - j \in Nat
    OBVIOUS
  <2>2. QED
    BY <2>1
<1> DEFINE T == {n \in 0 .. m : <<s, j>> \in S <=> <<s, j + n>> \in S}
<1>7. 0 \in T
  <2>1. j + 0 = j
    OBVIOUS
  <2>2. QED
    BY <2>1
<1>8. ASSUME NEW n \in 0 .. m - 1, n \in T
      PROVE  n + 1 \in T
  <2>1. PICK c \in Col, d \in Col : c = j + n /\ d = j + (n + 1) /\ d = c + 1 /\ c >= j /\ d >= j
    BY <1>1, <1>6
  <2>2. <<s, d>> \in Touching[<<s, c>>]
    BY <2>1, TouchingCells
  <2>3. <<s, c>> \in S <=> <<s, d>> \in S
    BY <1>5, <2>1, <2>2, ApartTogether
  <2>4. QED
    BY <1>8, <2>1, <2>3
<1>9. 0 .. m \subseteq T
  BY <1>7, <1>8, Induction
<1>10. m \in T /\ j + m = k
  BY <1>6, <1>9
<1>11. <<s, j>> \in S <=> <<s, k>> \in S
  BY <1>10
<1>12. PushedTo(r, k) = <<s, j>>
  BY <1>1, <1>3, <1>4 DEF PushedTo, Goal
<1>13. <<s, k>> \in Occupied(board')
  BY <1>1, <1>5
<1>14. QED
  BY <1>1, <1>4, <1>11, <1>12, <1>13

\* ... so bubbles that touched, in a row, ...
LEMMA SameRowKept ==
    ASSUME BubbleTypeOK, AddTopLayer, NEW S, Apart(S), NEW r \in 0 .. gbRows - 2,
           NEW c \in Col, NEW d \in Col, d = c + 1, board[<<r, c>>] # Empty, board[<<r, d>>] # Empty
    PROVE  PushedTo(r, c) \in S <=> PushedTo(r, d) \in S
<1>1. PICK k \in Nat : k = gbCols - 1 /\ Col = 0 .. k
  <2>1. gbCols - 1 \in Nat
    BY BoardAssumption
  <2>2. QED
    BY <2>1 DEF Col
<1>2. PICK s \in Row : s = r + 1
  BY BoardAssumption DEF Row
<1>3. PICK p, q : p = PushedTo(r, c) /\ q = PushedTo(r, d)
  OBVIOUS
<1>4. p \in Occupied(board') /\ q \in Occupied(board')
  BY <1>3, PushedToCells
<1>5. c < k
  BY <1>1
<1>6. CASE r % 2 # 1
  <2>1. p = <<s, c>> /\ q = <<s, d>>
    BY <1>2, <1>3, <1>6 DEF PushedTo
  <2>2. q \in Touching[p]
    BY <2>1, TouchingCells
  <2>3. QED
    BY <1>3, <1>4, <2>2, ApartTogether
<1>7. CASE r % 2 = 1 /\ d < k
  <2>1. PICK e \in Col : e = d + 1
    BY <1>1, <1>7
  <2>2. p = <<s, d>> /\ q = <<s, e>>
    BY <1>1, <1>2, <1>3, <1>5, <1>7, <2>1 DEF PushedTo, Goal
  <2>3. q \in Touching[p]
    BY <2>1, <2>2, TouchingCells
  <2>4. QED
    BY <1>3, <1>4, <2>3, ApartTogether
<1>8. CASE r % 2 = 1 /\ d = k
  <2>1. p = <<s, k>>
    BY <1>1, <1>2, <1>3, <1>5, <1>8 DEF PushedTo, Goal
  <2>2. q \in S <=> <<s, k>> \in S
    BY <1>1, <1>2, <1>3, <1>8, LastJoins
  <2>3. QED
    BY <1>3, <2>1, <2>2
<1>9. QED
  BY <1>1, <1>6, <1>7, <1>8

\* ... or in an odd row and the next or the one before, are in one group.
LEMMA RowsKept ==
    ASSUME BubbleTypeOK, AddTopLayer, NEW S, Apart(S),
           NEW r \in 0 .. gbRows - 2, NEW t \in 0 .. gbRows - 2, r % 2 = 1, t = r - 1 \/ t = r + 1,
           NEW c \in Col, NEW d \in Col, d = c \/ d = c + 1,
           board[<<r, c>>] # Empty, board[<<t, d>>] # Empty
    PROVE  PushedTo(r, c) \in S <=> PushedTo(t, d) \in S
<1>1. PICK k \in Nat : k = gbCols - 1 /\ Col = 0 .. k
  <2>1. gbCols - 1 \in Nat
    BY BoardAssumption
  <2>2. QED
    BY <2>1 DEF Col
<1>2. PICK s \in Row, u \in Row : s = r + 1 /\ u = t + 1
  BY BoardAssumption DEF Row
<1>3. s % 2 # 1 /\ t % 2 # 1 /\ (u = s - 1 \/ u = s + 1)
  BY <1>2
<1>4. PICK p, q : p = PushedTo(r, c) /\ q = PushedTo(t, d)
  OBVIOUS
<1>5. p \in Occupied(board') /\ q \in Occupied(board')
  BY <1>4, PushedToCells
<1>6. q = <<u, d>>
  BY <1>2, <1>3, <1>4 DEF PushedTo
<1>7. CASE c < k
  <2>1. PICK e \in Col : e = c + 1 /\ (d = e \/ d = e - 1)
    BY <1>1, <1>7
  <2>2. p = <<s, e>>
    BY <1>1, <1>2, <1>4, <1>7, <2>1 DEF PushedTo, Goal
  <2>3. q \in Touching[p]
    BY <1>3, <1>6, <2>1, <2>2, TouchingCells
  <2>4. QED
    BY <1>4, <1>5, <2>3, ApartTogether
<1>8. CASE ~(c < k)
  <2>1. c = k /\ d = k /\ k \in Col
    BY <1>1, <1>8
  <2>2. <<s, k>> \in Occupied(board') /\ (p \in S <=> <<s, k>> \in S)
    BY <1>1, <1>2, <1>4, <2>1, LastJoins
  <2>3. q \in Touching[<<s, k>>]
    BY <1>3, <1>6, <2>1, TouchingCells
  <2>4. <<s, k>> \in S <=> q \in S
    BY <1>5, <2>2, <2>3, ApartTogether
  <2>5. QED
    BY <1>4, <2>2, <2>4
<1>9. QED
  BY <1>7, <1>8

\* Bubbles that touched are in one group of the new board.
LEMMA TouchKept ==
    ASSUME BubbleTypeOK, AddTopLayer, NEW S, Apart(S),
           NEW r \in 0 .. gbRows - 2, NEW t \in 0 .. gbRows - 2, NEW c \in Col, NEW d \in Col,
           board[<<r, c>>] # Empty, board[<<t, d>>] # Empty, <<t, d>> \in Touching[<<r, c>>]
    PROVE  PushedTo(r, c) \in S <=> PushedTo(t, d) \in S
<1>1. r \in Row /\ t \in Row /\ r \in Nat /\ t \in Nat /\ c \in Nat /\ d \in Nat
  BY LayerRows, BoardAssumption DEF Row, Col
<1>2. \/ t = r /\ (d = c - 1 \/ d = c + 1)
      \/ (t = r - 1 \/ t = r + 1) /\ (IF r % 2 = 1 THEN d = c \/ d = c + 1 ELSE d = c \/ d = c - 1)
  BY <1>1, TouchingCells
<1>3. CASE t = r /\ d = c + 1
  BY <1>3, SameRowKept
<1>4. CASE t = r /\ d = c - 1
  <2>1. c = d + 1
    BY <1>1, <1>4
  <2>2. QED
    BY <1>4, <2>1, SameRowKept
<1>5. CASE (t = r - 1 \/ t = r + 1) /\ r % 2 = 1
  <2>1. d = c \/ d = c + 1
    BY <1>1, <1>2, <1>5
  <2>2. QED
    BY <1>5, <2>1, RowsKept
<1>6. CASE (t = r - 1 \/ t = r + 1) /\ r % 2 # 1
  <2>1. (c = d \/ c = d + 1) /\ (r = t - 1 \/ r = t + 1) /\ t % 2 = 1
    BY <1>1, <1>2, <1>6
  <2>2. QED
    BY <2>1, RowsKept
<1>7. QED
  BY <1>2, <1>3, <1>4, <1>5, <1>6

\* A new layer leaves nothing in the air, if nothing was.
LEMMA LayerAnchors ==
    ASSUME BubbleTypeOK, AddTopLayer, Anchored(board)
    PROVE  Anchored(board')
<1>1. SUFFICES ASSUME NEW S \in SUBSET {at \in Occupied(board') : at[1] > 0}, S # {},
                      ~\E p \in S : \E q \in Touching[p] : q \in Occupied(board') /\ q \notin S
               PROVE  FALSE
  BY DEF Anchored
<1>2. Apart(S)
  BY <1>1 DEF Apart
<1>3. PICK occ : occ = Occupied(board)
  OBVIOUS
<1>4. PICK R : R = 0 .. gbRows - 2
  OBVIOUS
<1>5. PICK G : G = {at \in occ : at[1] \in R /\ PushedTo(at[1], at[2]) \in S}
  OBVIOUS
<1>6. \A at \in occ : at \in Cell /\ at[1] \in R /\ at[2] \in Col /\ at = <<at[1], at[2]>>
                      /\ board[<<at[1], at[2]>>] # Empty
  <2>1. TAKE at \in occ
  <2>2. PICK r \in Row, c \in Col : at = <<r, c>>
    BY <1>3 DEF Occupied, Cell
  <2>3. r # gbRows - 1
    BY <1>3, <2>2, LayerRows DEF Occupied
  <2>4. r \in R
    BY <1>4, <2>3, BoardAssumption DEF Row
  <2>5. QED
    BY <1>3, <2>2, <2>4 DEF Occupied
<1>7. G # {}
  <2>1. PICK p \in S : p \in Occupied(board') /\ p[1] > 0
    BY <1>1
  <2>2. PICK s \in Row, d \in Col : p = <<s, d>> /\ s > 0
    BY <2>1 DEF Occupied, Cell
  <2>3. PICK r \in R : s = r + 1
    BY <1>4, <2>2, BoardAssumption DEF Row
  <2>4. PICK c \in Col : PushedTo(r, c) = <<r + 1, d>> /\ board[<<r, c>>] # Empty
    BY <1>4, <2>1, <2>2, <2>3, PushedToCells
  <2>5. <<r, c>> \in occ
    BY <1>3, <1>4, <2>3, <2>4, LayerRows DEF Occupied, Cell
  <2>6. QED
    BY <1>5, <2>2, <2>3, <2>4, <2>5
<1>8. \A at \in G : at[1] > 0
  <2>1. ASSUME NEW at \in G, ~(at[1] > 0)
        PROVE  FALSE
    <3>1. PICK c \in Col : at = <<0, c>> /\ board[<<0, c>>] # Empty /\ 0 \in R
      <4>1. PICK r \in R, c \in Col : at = <<r, c>> /\ at[1] = r /\ board[<<r, c>>] # Empty
        BY <1>5, <1>6
      <4>2. r = 0
        BY <1>4, <2>1, <4>1
      <4>3. QED
        BY <4>1, <4>2
    <3>2. PushedTo(0, c) = <<1, c>> /\ <<1, c>> \in S
      BY <1>5, <2>1, <3>1 DEF PushedTo
    <3>3. 0 \in Row /\ 1 \in Row
      BY BoardAssumption DEF Row
    <3>4. <<0, c>> \in Touching[<<1, c>>]
      BY <3>3, TouchingCells
    <3>5. <<0, c>> \in Occupied(board')
      BY <3>3, LayerRows, ColorAssumption DEF Occupied, Cell
    <3>6. <<0, c>> \in S
      BY <1>2, <3>2, <3>4, <3>5 DEF Apart
    <3>7. QED
      BY <1>1, <3>6
  <2>2. QED
    BY <2>1
<1>9. G \in SUBSET {at \in occ : at[1] > 0}
  BY <1>5, <1>8
<1>10. PICK p \in G : \E q \in Touching[p] : q \in occ /\ q \notin G
  BY <1>3, <1>7, <1>9 DEF Anchored
<1>11. PICK q \in Touching[p] : q \in occ /\ q \notin G
  BY <1>10
<1>12. PICK r \in R, c \in Col : p = <<r, c>> /\ board[<<r, c>>] # Empty /\ PushedTo(r, c) \in S
  BY <1>5, <1>6, <1>10
<1>13. PICK t \in R, d \in Col : q = <<t, d>> /\ board[<<t, d>>] # Empty /\ PushedTo(t, d) \notin S
  BY <1>5, <1>6, <1>11
<1>14. PushedTo(r, c) \in S <=> PushedTo(t, d) \in S
  BY <1>2, <1>4, <1>11, <1>12, <1>13, TouchKept
<1>15. QED
  BY <1>12, <1>13, <1>14

\* Nothing is left hanging in the air, on a board of any size: a landing drops
\* what it cuts loose, and what a new layer pushes down hangs together as it
\* did (placeAndResolve, dropFloating, AddTopLayer, nearestEmptyInRow).
THEOREM NothingHangs == BubbleSpec => NothingHangsInAir
<1> DEFINE Hangs == Anchored(board') \/ (~Lands /\ ~Anchored(board))
<1>1. BubbleTypeOK /\ [BubbleNext]_bvars => [board' # board => Hangs]_bvars
  <2> SUFFICES ASSUME BubbleTypeOK, [BubbleNext]_bvars, board' # board
               PROVE  Hangs
    OBVIOUS
  <2>1. CASE Lands
    <3>1. PICK k, at, placed, matched, dropped : Landing(k, at, placed, matched, dropped)
      BY <2>1, LandsResolves
    <3>2. board \in Boards
      BY DEF BubbleTypeOK, Boards
    <3>3. QED
      BY <3>1, <3>2, LandingAnchors
  <2>2. CASE ~Lands
    <3>1. AddTopLayer
      BY <2>2 DEF Lands, BubbleNext, bvars, BeginClientShot, CommitLanding, Fire, TickState
    <3>2. QED
      BY <2>2, <3>1, LayerAnchors
  <2>3. QED
    BY <2>1, <2>2
<1>2. QED
  BY <1>1, BubbleTypeCorrect, PTL DEF BubbleSpec, NothingHangsInAir
=============================================================================
