---------------------------- MODULE MCBreakpoints ----------------------------
(* Instances of Breakpoints for TLC.                                       *)
EXTENDS Breakpoints, TLC

\* A loop with a way out to exit(): 1 -> 2 -> 3 -> 5 -> 1 or 6 -> 7.  The
\* instruction at 3 is two bytes long, 7 is the rest of exit(), and 9 is not
\* mapped.
LoopAddr == 1 .. 9
LoopMapped == 1 .. 8
LoopInsn == {1, 2, 3, 5, 6, 7}
LoopFlow == 1 :> {2} @@ 2 :> {3} @@ 3 :> {5} @@ 5 :> {1, 6} @@ 6 :> {7}
            @@ 7 :> {7}

\* A loop of an instruction of one byte and one of two, with a way out to
\* exit(): 1 -> 2 -> 1 or 4.
ShortAddr == 1 .. 5
ShortInsn == {1, 2, 4}
ShortFlow == 1 :> {2} @@ 2 :> {1, 4} @@ 4 :> {4}

\* The allocator may return any free structure, so they are interchangeable.
BpSymmetry == Permutations(Bp \ {exit_bp})

=============================================================================
