------------------------------ MODULE MCConv3d ------------------------------
(* Instances of Conv3d: planes that do and do not divide evenly, fewer     *)
(* planes than threads; widths with and without a tail.                    *)
EXTENDS Conv3d

MCSizes  == {<<3, 1, 2>>, <<2, 2, 1>>, <<5, 1, 1>>}
MCWidths == {2, 3}
=============================================================================
