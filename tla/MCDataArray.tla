----------------------------- MODULE MCDataArray -----------------------------
(* Instances of the data array for TLC.                                    *)
EXTENDS DataArray

(* Two whole packets, and a whole and a short one; the default is one.     *)
SomeRecLens == {<<2, 1>>, <<3, 2>>}

(* The first and the last dimension are longer than 1, or the second; 0    *)
(* counts for 1.                                                           *)
SomeLens == {<<2, 1, 2>>, <<0, 2, 1>>}
FewLens == {<<2, 1, 0>>}
SomeIndices == (0..1) \X (0..1) \X (0..1)
=============================================================================
