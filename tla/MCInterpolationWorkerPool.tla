--------------------- MODULE MCInterpolationWorkerPool ---------------------
(* A small instance of InterpolationWorkerPool for TLC.                     *)
EXTENDS InterpolationWorkerPool

CONSTANTS w1, w2, d
=============================================================================
