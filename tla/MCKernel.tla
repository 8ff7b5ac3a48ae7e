------------------------------ MODULE MCKernel ------------------------------
(* Three programs for three frames: all fit, one finds no file, one is too *)
(* big for the machine, or the frames run out while one is being loaded.   *)
EXTENDS Kernel

MCImages == {<<1, 1, 1>>, <<2, 1, 0>>, <<0, 1, 2>>, <<1, 4, 2>>, <<2, 2, 1>>}

MCTwoImages == {<<1, 1>>}
=============================================================================
