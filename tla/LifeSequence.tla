---------------------------- MODULE LifeSequence ----------------------------
(***************************************************************************)
(* The sequential game of life of lab03 (glife.cpp with nprocs = 0): each  *)
(* generation computes every cell from the current grid into the second    *)
(* one and swaps them.  It is what the threads of GameOfLife promise.      *)
(***************************************************************************)
EXTENDS LifeGrid

CONSTANT Gens, Sizes
VARIABLES m_Rows, m_Cols, grid, left

svars == <<m_Rows, m_Cols, grid, left>>

Init == /\ \E s \in Sizes : m_Rows = s[1] /\ m_Cols = s[2]
        /\ grid \in Grids(m_Rows, m_Cols)
        /\ left = Gens

Next == /\ left > 0
        /\ grid' = NextGrid(m_Rows, m_Cols, grid)
        /\ left' = left - 1
        /\ UNCHANGED <<m_Rows, m_Cols>>

Spec == Init /\ [][Next]_svars /\ WF_svars(Next)
=============================================================================
