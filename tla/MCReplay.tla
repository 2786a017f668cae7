------------------------------ MODULE MCReplay ------------------------------
(***************************************************************************)
(* Small captures for TLC: bytes have four values, a second has two        *)
(* microseconds and a microsecond three nanoseconds.                       *)
(***************************************************************************)
EXTENDS Replay

\* Sizes at, below and past the end of each part of a file of up to two records.
MCSizes == {0, 23, 24, 25, 39, 40, 41, 56, 57, 60, 61, 64, 72, 78, 80}

MCStamps == {[sec |-> s, frac |-> f, incl |-> i] :
               s \in {0, 1}, f \in {0, 5}, i \in {0, 1, 20, 21, 64}}
=============================================================================
