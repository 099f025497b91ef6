---------------------------- MODULE BubbleEngine ----------------------------
(***************************************************************************)
(* One player's board (internal/gameplay/engine.go): shots reported by the *)
(* client, shots flown by the server, the resolution of a landing, and the *)
(* layer the room's timer pushes in at the top.                            *)
(*                                                                         *)
(* Geometry is the code's, in whole pixels; the board's size is a          *)
(* parameter.  Angles, speeds and timestamps are left out: a flying bubble *)
(* goes from any point to any point that is not lower.                     *)
(***************************************************************************)
EXTENDS Integers, FiniteSets, FiniteSetsExt

CONSTANTS gbRows, gbCols,  \* size of the board
          gbShooterY,      \* height of the launcher
          InitRows,        \* rows that start with bubbles
          Color, Empty,    \* bubble colours, and the free cell
          Points,          \* the points <<x, y>> a bubble is reported or seen at
          MaxShots,        \* bound on the shots
          MaxLayers        \* bound on the layers added

ASSUME BoardAssumption == gbRows \in Nat /\ gbCols \in Nat /\ InitRows \in 1..(gbRows - 1) /\ gbCols > 0
ASSUME ColorAssumption == Color # {} /\ Empty \notin Color
ASSUME ShotsAssumption == MaxShots \in Nat /\ MaxLayers \in Nat

gbRadius == 16
gbDiam == 32
gbRowGap == 28
gbBoardW == gbCols * gbDiam + gbRadius

\* The launcher is more than a bubble's radius below the top.
ASSUME PointsAssumption == Points \subseteq Int \X Int /\ gbShooterY \in Nat /\ gbShooterY > gbRadius

Row == 0..(gbRows - 1)
Col == 0..(gbCols - 1)
Cell == Row \X Col

VARIABLES board,      \* [Cell -> Color or Empty]
          current, next,       \* CurrentColor, NextColor
          moving,     \* the bubble the server flies, or NotMoving
          shot,       \* colour of the client's pending shot, or Empty
          score, status,
          shots,      \* shots taken so far
          layers      \* layers added so far

bvars == <<board, current, next, moving, shot, score, status, shots, layers>>

NotMoving == [x |-> 0, y |-> 0, color |-> Empty]

-----------------------------------------------------------------------------
(* Geometry *)

\* math.Round(n / d): halves go away from zero.
Round(n, d) == IF n >= 0 THEN (2 * n + d) \div (2 * d) ELSE -((d - 2 * n) \div (2 * d))

Clamp(n, lo, hi) == IF n < lo THEN lo ELSE IF n > hi THEN hi ELSE n

Shift(row) == IF row % 2 = 1 THEN gbRadius ELSE 0

cellCenter ==
    [at \in Cell |-> <<gbRadius + Shift(at[1]) + at[2] * gbDiam, gbRadius + at[1] * gbRowGap>>]

nearestColForRowX(row, x) == Clamp(Round(x - gbRadius - Shift(row), gbDiam), 0, gbCols - 1)

nearestCell(x, y) ==
    LET row == Clamp(Round(y - gbRadius, gbRowGap), 0, gbRows - 1)
    IN  <<row, nearestColForRowX(row, x)>>

Dist2(p, q) == (p[1] - q[1]) * (p[1] - q[1]) + (p[2] - q[2]) * (p[2] - q[2])

\* Mutant: odd and even rows have the same neighbours.
neighborsSquare ==
    [at \in Cell |->
        LET r == at[1]
            c == at[2]
        IN  {<<r - 1, c - 1>>, <<r - 1, c>>, <<r, c - 1>>, <<r, c + 1>>,
             <<r + 1, c - 1>>, <<r + 1, c>>} \cap Cell]

neighbors ==
    [at \in Cell |->
        LET r == at[1]
            c == at[2]
            d == IF r % 2 = 1 THEN 0 ELSE -1
        IN  {<<r - 1, c + d>>, <<r - 1, c + d + 1>>, <<r, c - 1>>, <<r, c + 1>>,
             <<r + 1, c + d>>, <<r + 1, c + d + 1>>} \cap Cell]

-----------------------------------------------------------------------------
(* Resolution of a landing *)

Occupied(b) == {at \in Cell : b[at] # Empty}
Erase(b, S) == [at \in Cell |-> IF at \in S THEN Empty ELSE b[at]]

\* Breadth-first search within the cells S, wave by wave.
Reach(from, S) ==
    LET wave[n \in 0..Cardinality(S \ from)] ==
            IF n = 0 THEN from
            ELSE LET w == wave[n - 1]
                 IN  w \cup (S \cap UNION {neighbors[at] : at \in w})
    IN  wave[Cardinality(S \ from)]

collideBoard(b, x, y) ==
    \E at \in Occupied(b) : Dist2(<<x, y>>, cellCenter[at]) <= (gbDiam - 2) * (gbDiam - 2)

\* Free cells the bubble may be moved to when its own is taken.
Nearby(b, base) ==
    {at \in Cell : b[at] = Empty /\ at[1] - base[1] \in -2..2 /\ at[2] - base[2] \in -2..2}

\* The closest of them; the scan keeps the first of equals.
findNearestEmpty(b, base, x, y) ==
    LET dist == [at \in Nearby(b, base) |-> Dist2(cellCenter[at], <<x, y>>)]
        best == Min({dist[at] : at \in DOMAIN dist})
        closest == {at \in DOMAIN dist : dist[at] = best}
    IN  CHOOSE at \in closest :
            \A o \in closest : at[1] * gbCols + at[2] <= o[1] * gbCols + o[2]

\* Mutant: three of a colour are not enough.
clearMatchesLate(b, at) ==
    LET group == Reach({at}, {o \in Cell : b[o] = b[at]})
    IN  IF Cardinality(group) <= 3 THEN {} ELSE group

\* The cells of the same-coloured group of at, if it has three or more.
clearMatches(b, at) ==
    LET group == Reach({at}, {o \in Cell : b[o] = b[at]})
    IN  IF Cardinality(group) < 3 THEN {} ELSE group

\* Mutant: the first column of the top row holds nothing.
dropFloatingOffByOne(b) ==
    Occupied(b) \ Reach({at \in Occupied(b) : at[1] = 0 /\ at[2] > 0}, Occupied(b))

\* The bubbles that do not hang from the top row.
dropFloating(b) == Occupied(b) \ Reach({at \in Occupied(b) : at[1] = 0}, Occupied(b))

PointsFor(matched, dropped) == 10 * Cardinality(matched) + 15 * Cardinality(dropped)

\* Mutant: the line to lose at is one row too high.
checkStateHigh(b) ==
    IF Occupied(b) = {} THEN "win"
    ELSE IF \E at \in Occupied(b) : at[1] >= gbRows - 2 THEN "lose" ELSE "playing"

checkState(b) ==
    IF Occupied(b) = {} THEN "win"
    ELSE IF \E at \in Occupied(b) : at[1] = gbRows - 1 THEN "lose" ELSE "playing"

\* Where a bubble that stops at (x, y) comes to rest: its own cell, or a free
\* one in reach, if there is one.
RestingCell(b, x, y) ==
    LET near == nearestCell(x, y)
    IN  IF b[near] = Empty THEN {near}
        ELSE IF Nearby(b, near) = {} THEN {} ELSE {findNearestEmpty(b, near, x, y)}

\* A bubble of colour k stops at (x, y).  With no free cell in reach it
\* vanishes, and the same colour is shot again.
placeAndResolve(k, x, y) ==
    \/ /\ RestingCell(board, x, y) = {}
       /\ UNCHANGED <<board, score, current, next, status>>
    \/ /\ \E at \in RestingCell(board, x, y) :
             LET placed == [board EXCEPT ![at] = k]
             IN  \E matched \in {clearMatches(placed, at)} :
                 \E dropped \in {dropFloating(Erase(placed, matched))} :
                    /\ board' = Erase(placed, matched \cup dropped)
                    /\ score' = score + PointsFor(matched, dropped)
       /\ status' = checkState(board')
       /\ current' = next
       /\ next' \in Color

-----------------------------------------------------------------------------
(* Operations *)

NewInitialState ==
    /\ \E top \in [{at \in Cell : at[1] < InitRows} -> Color \cup {Empty}] :
          board = [at \in Cell |-> IF at[1] < InitRows THEN top[at] ELSE Empty]
    /\ current \in Color
    /\ next \in Color
    /\ moving = NotMoving
    /\ shot = Empty
    /\ score = 0
    /\ status = "playing"
    /\ shots = 0
    /\ layers = 0

\* The client says it has shot.
BeginClientShot ==
    /\ shots < MaxShots
    /\ status = "playing"
    /\ moving = NotMoving
    /\ shot = Empty
    /\ shot' = current
    /\ shots' = shots + 1
    /\ UNCHANGED <<board, current, next, moving, score, status, layers>>

\* The client says where its bubble landed.  A point off the field is refused,
\* and the shot stays pending.
CommitLanding(x, y) ==
    /\ status = "playing"
    /\ shot # Empty
    /\ moving = NotMoving
    /\ x \in 0..gbBoardW
    /\ y \in 0..(gbShooterY + gbRadius)
    /\ shot' = Empty
    /\ placeAndResolve(shot, x, y)
    /\ UNCHANGED <<moving, shots, layers>>

\* The server flies the bubble itself (the lobby's fire request).
Fire ==
    /\ shots < MaxShots
    /\ status = "playing"
    /\ moving = NotMoving
    /\ moving' = [x |-> gbBoardW \div 2, y |-> gbShooterY, color |-> current]
    /\ shots' = shots + 1
    /\ UNCHANGED <<board, current, next, shot, score, status, layers>>

\* The side walls.
Bounce(x) == Clamp(x, gbRadius, gbBoardW - gbRadius)

\* A tick moves the bubble towards (x, y), where it may hit.
TickState(x, y) ==
    /\ status = "playing"
    /\ moving # NotMoving
    /\ y <= moving.y
    /\ LET bx == Bounce(x)
       IN  \/ /\ y <= gbRadius \/ collideBoard(board, bx, y)
              /\ placeAndResolve(moving.color, bx, y)
              /\ moving' = NotMoving
           \/ /\ ~(y <= gbRadius \/ collideBoard(board, bx, y))
              /\ moving' = [moving EXCEPT !.x = bx, !.y = y]
              /\ UNCHANGED <<board, current, next, score, status>>
    /\ UNCHANGED <<shot, shots, layers>>

\* Mutant: a bubble goes to its column even if one is there already.
SlotTaken(row, c) == c

\* nearestEmptyInRow: the free column closest to c, the left one of two.
Slot(row, c) ==
    LET free == {o \in Col : row[o] = Empty}
        d == Min({Max({c - o, o - c}) : o \in free})
    IN  IF c - d \in free THEN c - d ELSE c + d

\* Row r of the board, pushed down one row by world position, left to right.
Pushed(r) ==
    LET upto[n \in 0..gbCols] ==
            IF n = 0 THEN [c \in Col |-> Empty]
            ELSE LET row == upto[n - 1]
                     at == <<r, n - 1>>
                 IN  IF board[at] = Empty THEN row
                     ELSE [row EXCEPT ![Slot(row, nearestColForRowX(r + 1, cellCenter[at][1]))] = board[at]]
    IN  upto[gbCols]

\* The timer adds a layer only while every player plays and none has a bubble
\* under way (canAddLayer).
AddTopLayer ==
    /\ layers < MaxLayers
    /\ status = "playing"
    /\ moving = NotMoving
    /\ shot = Empty
    /\ LET pushed == [r \in 0..(gbRows - 2) |-> Pushed(r)]
       IN  \E top \in [Col -> Color] :
              board' = [at \in Cell |-> IF at[1] = 0 THEN top[at[2]] ELSE pushed[at[1] - 1][at[2]]]
    /\ status' = checkState(board')
    /\ layers' = layers + 1
    /\ UNCHANGED <<current, next, moving, shot, score, shots>>

BubbleNext ==
    \/ BeginClientShot
    \/ \E p \in Points : CommitLanding(p[1], p[2])
    \/ Fire
    \/ \E p \in Points : TickState(p[1], p[2])
    \/ AddTopLayer

BubbleSpec == NewInitialState /\ [][BubbleNext]_bvars

-----------------------------------------------------------------------------
(* Properties *)

\* The status is the board's: lost exactly when a bubble reached the last row,
\* and won when a step took the last bubble, whichever operation it was
\* (checkState runs last in placeAndResolve and AddTopLayer).
StatusMatchesBoard ==
    /\ status = "lose" <=> \E at \in Occupied(board) : at[1] = gbRows - 1
    /\ status = "win" => Occupied(board) = {}
    /\ score > 0 /\ Occupied(board) = {} => status = "win"

\* Type invariant; a flying bubble stays between the walls and above the
\* launcher, and the status is the board's.
BubbleTypeOK ==
    /\ board \in [Cell -> Color \cup {Empty}]
    /\ current \in Color /\ next \in Color /\ shot \in Color \cup {Empty}
    /\ moving # NotMoving =>
          moving \in [x : gbRadius..(gbBoardW - gbRadius), y : (gbRadius + 1)..gbShooterY, color : Color]
    /\ score \in Nat
    /\ status \in {"playing", "win", "lose"}
    /\ shots \in 0..MaxShots /\ layers \in 0..MaxLayers
    /\ StatusMatchesBoard

\* Two cells touch when their centres are a bubble apart, give or take a pixel.
Touching == [p \in Cell |-> {q \in Cell \ {p} :
                Dist2(cellCenter[p], cellCenter[q]) <= (gbDiam + 1) * (gbDiam + 1)}]

\* Nothing hangs in the air: every group of bubbles below the top row touches
\* a bubble outside the group.
Anchored(b) ==
    \A occ \in {Occupied(b)} : \A S \in SUBSET {at \in occ : at[1] > 0} :
        S # {} => \E p \in S : \E q \in Touching[p] : q \in occ /\ q \notin S

\* A step puts a bubble to rest.
Lands == board' # board /\ layers' = layers

\* placeAndResolve leaves nothing hanging in the air, whatever NewInitialState
\* drew; and AddTopLayer, which never calls dropFloating, does not need to: a
\* board with nothing in the air has none after the push.
NothingHangsInAir ==
    [][board' # board => Anchored(board') \/ (~Lands /\ ~Anchored(board))]_bvars

\* A bubble that lands and stays does not complete three of its colour
\* (placeAndResolve, clearMatches).
MatchesAreCleared ==
    [][Lands => \A p \in Occupied(board') \ Occupied(board) :
            ~\E q, o \in {at \in Occupied(board') : board'[at] = board'[p]} \ {p} :
                q # o /\ q \in Touching[p] /\ o \in Touching[p] \cup Touching[q]]_bvars

\* Only bubbles of the colour shot are matched; any other that goes was in the
\* air, so it neither was in the top row nor touches one that stays.  Every one
\* that goes is paid for once, the one shot included: ten for a matched one, at
\* least three or none, fifteen for one that falls (placeAndResolve,
\* clearMatches, dropFloating).
OnlyTheUnheldFall ==
    [][Lands => LET k == IF shot' # shot THEN shot ELSE moving.color
                    gone == Occupied(board) \ Occupied(board')
                    matching == {p \in gone : board[p] = k}
                    paid == Cardinality(Occupied(board)) + 1 - Cardinality(Occupied(board'))
                IN  /\ \A p \in gone \ matching :
                          p[1] > 0 /\ Touching[p] \cap Occupied(board') = {}
                    /\ \E m \in {0} \cup 3..(Cardinality(matching) + 1) :
                          score' = score + 10 * m + 15 * (paid - m)]_bvars

\* A new layer costs nobody a bubble: every row arrives one row lower with as
\* many of each colour, although two bubbles of an odd row fall on its last
\* column (AddTopLayer, nearestEmptyInRow).
LayersLoseNoBubble ==
    [][layers' # layers =>
        /\ \A r \in 0..(gbRows - 2), k \in Color :
              Cardinality({c \in Col : board[<<r, c>>] = k}) = Cardinality({c \in Col : board'[<<r + 1, c>>] = k})
        /\ \A c \in Col : board[<<gbRows - 1, c>>] = Empty]_bvars
=============================================================================
