------------------------------ MODULE LifeGrid ------------------------------
(***************************************************************************)
(* Cells of GameOfLifeGrid (lab03/src/glife.cpp).  A grid of r rows and c  *)
(* columns is one array of r * c cells, row after row, as malloc made it.  *)
(***************************************************************************)
EXTENDS Integers, FiniteSets

LIVE == 1
DEAD == 0

Cells(r, c) == 0 .. r * c - 1
Grids(r, c) == [Cells(r, c) -> {DEAD, LIVE}]

(* The grid does not wrap: a border cell has fewer neighbours. *)
Neighbours(r, c, i, j) ==
    {p \in ((i - 1) .. (i + 1)) \X ((j - 1) .. (j + 1)) :
        /\ p # <<i, j>>
        /\ p[1] >= 0 /\ p[1] <= r - 1
        /\ p[2] >= 0 /\ p[2] <= c - 1}

getNumOfNeighbors(r, c, g, i, j) ==
    Cardinality({p \in Neighbours(r, c, i, j) : g[p[1] * c + p[2]] = LIVE})

CellNext(r, c, g, k) ==
    LET i   == k \div c
        j   == k % c
        nei == getNumOfNeighbors(r, c, g, i, j)
    IN  IF (g[k] = LIVE /\ nei = 2) \/ nei = 3 THEN LIVE ELSE DEAD

NextGrid(r, c, g) == [k \in Cells(r, c) |-> CellNext(r, c, g, k)]
=============================================================================
