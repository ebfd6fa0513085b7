--------------------------- MODULE LayeredCostmap ---------------------------
(***************************************************************************)
(* costmap_2d: what a map update computes.  A costmap is a row of cells;   *)
(* the static layer and the obstacle layer have grids of their own, and    *)
(* the inflation layer gives the cells around a lethal cell a cost that    *)
(* falls with the distance.  Only the cells within bounds that the layers  *)
(* report are computed anew.  Bounds are intervals of points of the world, *)
(* as are the robot's place, what it sees and the radius of inflation; a   *)
(* unit of length divides the half of a cell.  The tests of legality       *)
(* around the bounds, and costs in between, are left out.                  *)
(***************************************************************************)
EXTENDS Integers, FiniteSetsExt

CONSTANTS
  Size,        \* how many cells the map has
  Half,        \* half the length of a cell
  MaxRadius,   \* the largest inflation_radius_, a length
  ClearRange   \* half of reset_distance_ of the clearing recovery, a length

ASSUME CostmapAssumption ==
  /\ Size \in Nat /\ Size > 2 /\ Half \in Nat \ {0}
  /\ MaxRadius \in Nat /\ ClearRange \in Nat

Cells == 0..(Size - 1)

\* resolution_; the cell of a point, and the point in the middle of a cell.
Resolution == 2 * Half
CellOf(p) == p \div Resolution
Centre(c) == Resolution * c + Half

Places == 0..(Resolution * Size - 1)

\* A length in cells, rounded up: what becomes of the radius of inflation.
CellDistance(length) == (length + Resolution - 1) \div Resolution

\* FREE_SPACE, the costs of inflation, LETHAL_OBSTACLE; and NO_INFORMATION.
Free == 0
Lethal == CellDistance(MaxRadius) + 1
NoInfo == -1
Costs == Free..Lethal

CostAt(distance) == Lethal - distance

Distance(a, b) == IF a < b THEN b - a ELSE a - b

\* 1e30, and -<float>::max().
Far == Resolution * Size + MaxRadius + 1

Bounds(a, b) == [lo |-> a, hi |-> b]
NoBounds == Bounds(Far, -Far)
AllBounds == Bounds(-Far, Far)
WholeMap == Bounds(0, Resolution * Size)

Joined(a, b) == Bounds(Min({a.lo, b.lo}), Max({a.hi, b.hi}))

\* Mutant: the bounds are not widened by the radius.
NotWidened(a, radius) == a
Widened(a, radius) == Bounds(a.lo - radius, a.hi + radius)

\* The cells to be computed anew, of bounds that may lie outside of the map.
Window(a) == Max({0, CellOf(a.lo)})..Min({Size - 1, CellOf(a.hi)})

\* The part of a grid that a message replaces.
Area(x, width) == {c \in Cells : x <= c /\ c < x + width}

\* An observation: a ray through free cells, that ends at an obstacle or farther away.
Ray(obs) ==
  Min({CellOf(obs.from), CellOf(obs.to)})..Max({CellOf(obs.from), CellOf(obs.to)})

\* What raytracing and marking make of the grid of the obstacle layer.
Observed(grid, obs) ==
  [c \in Cells |-> IF c = CellOf(obs.to) /\ obs.mark THEN Lethal
                   ELSE IF c \in Ray(obs) THEN Free ELSE grid[c]]

\* worldToMapNoBounds rounds towards zero.
CellNoBounds(p) == IF p < 0 THEN -CellOf(-p) ELSE CellOf(p)

\* The cells that a recovery at p leaves alone.
Kept(p) ==
  {c \in Cells : CellNoBounds(p - ClearRange) < c /\ c < CellNoBounds(p + ClearRange)}

Cleared(grid, p) == [c \in Cells |-> IF c \in Kept(p) THEN grid[c] ELSE NoInfo]

\* The static layer overwrites, the obstacle layer takes the maximum.
Layered(static, obstacle, c) == Max({static[c], obstacle[c], Free})

\* The cost that inflation over so many cells gives a cell, from these lethal cells.
Inflation(lethal, reach, c) ==
  Max({Free} \cup {CostAt(Distance(c, l)) : l \in {x \in lethal : Distance(c, x) <= reach}})

\* resetMap and updateCosts of all layers in the cells of a window.  Inflation starts
\* from the lethal cells in the window and around it, and may write beyond it.
Updated(master, static, obstacle, reach, window) ==
  LET base == [c \in Cells |-> IF c \in window THEN Layered(static, obstacle, c) ELSE master[c]]
      lethal == {c \in Cells : base[c] = Lethal /\ \E w \in window : Distance(c, w) <= reach}
  IN [c \in Cells |-> Max({base[c], Inflation(lethal, reach, c)})]

\* What the master map should be: everything computed anew.
FullMap(static, obstacle, reach) ==
  LET lethal == {c \in Cells : Layered(static, obstacle, c) = Lethal}
  IN [c \in Cells |-> Max({Layered(static, obstacle, c), Inflation(lethal, reach, c)})]

NothingThere == [c \in Cells |-> Free]
=============================================================================
