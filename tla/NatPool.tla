------------------------------- MODULE NatPool -------------------------------
(***************************************************************************)
(* The port allocator of nat.h and nat.cpp.  A pool is a record of the     *)
(* port to hand out next and of how many are out.  Nothing in the program  *)
(* calls release, so no port comes back.                                   *)
(***************************************************************************)
EXTENDS Naturals

CONSTANTS NatEnabled,             \* a pool with a public address was set
          FirstPort, LastPort     \* its range

ASSUME NatPoolAssumption == /\ NatEnabled \in BOOLEAN
                            /\ FirstPort \in Nat /\ LastPort \in Nat
                            /\ FirstPort <= LastPort

Pool == [next_port : FirstPort .. LastPort, in_use : Nat]

FreshPool == [next_port |-> FirstPort, in_use |-> 0]

\* A slip to notice: an allocator that never says it is drained.
NeverDrained(pool) == NatEnabled

CanAllocate(pool) == NatEnabled /\ pool.in_use < LastPort - FirstPort

\* A slip to notice: the port is handed out and not counted.
Uncounted(pool) ==
  [pool EXCEPT !.next_port = IF @ >= LastPort THEN FirstPort ELSE @ + 1]

\* The pool after it has handed out pool.next_port.
Allocated(pool) ==
  [next_port |-> IF pool.next_port >= LastPort THEN FirstPort ELSE pool.next_port + 1,
   in_use    |-> pool.in_use + 1]
=============================================================================
