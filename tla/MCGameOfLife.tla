---------------------------- MODULE MCGameOfLife ----------------------------
(* An instance of GameOfLife: two cells for up to three threads, so that a *)
(* thread has none, and four cells, so that a cell is left over.           *)
EXTENDS GameOfLife

MCSizes == {<<1, 2>>, <<2, 2>>}
=============================================================================
