--------------------------- MODULE StopWorldProofs ---------------------------
(***************************************************************************)
(* The abstract stop-the-world specification keeps its promise for any     *)
(* number of threads.  Every implementation of WorldSpec inherits it; the  *)
(* run ts_world checks that ThreadSync is one.                             *)
(***************************************************************************)
EXTENDS StopWorld, TLAPS

\* Neither promise needs more than the other one and the step itself.
WorldInv == WorldTypeOK /\ OneCommands

\* What a step that moves one thread does to the states of the threads: the
\* thread that moves is in a state of its own, the others stay as they were.
LEMMA MovedOne ==
  ASSUME WorldTypeOK, NEW t \in Thread, NEW from, NEW to \in States,
         Moves(t, from, to)
  PROVE  /\ WorldTypeOK'
         /\ st[t] \in from /\ st'[t] = to
         /\ \A u \in Thread \ {t} : st'[u] = st[u]
BY DEF WorldTypeOK, Moves

\* Every step of the specification preserves the invariant.
LEMMA WorldStep ==
  ASSUME WorldInv, [WorldNext]_st
  PROVE  WorldInv'
<1> USE DEF WorldInv, States
<1>1. CASE UNCHANGED st
  BY <1>1 DEF WorldTypeOK, OneCommands
<1>2. ASSUME NEW t \in Thread, Raise(t) PROVE WorldInv'
  BY <1>2, MovedOne DEF Raise, OneCommands
<1>3. ASSUME NEW t \in Thread, Stop(t) PROVE WorldInv'
  BY <1>3, MovedOne DEF Stop, OneCommands
<1>4. ASSUME NEW t \in Thread, Take(t) PROVE WorldInv'
  BY <1>4, MovedOne DEF Take, OneCommands, OthersHeld
<1>5. ASSUME NEW t \in Thread, StepAlone(t) PROVE WorldInv'
  BY <1>5, MovedOne DEF StepAlone, OneCommands, OthersHeld
<1>6. ASSUME NEW t \in Thread, Yield(t) PROVE WorldInv'
  BY <1>6, MovedOne DEF Yield, OneCommands
<1>7. ASSUME NEW t \in Thread, Resume(t) PROVE WorldInv'
  BY <1>7, MovedOne DEF Resume, OneCommands
<1>8. ASSUME NEW t \in Thread, Start(t) PROVE WorldInv'
  BY <1>8, MovedOne DEF Start, OneCommands
<1>9. ASSUME NEW t \in Thread, End(t) PROVE WorldInv'
  BY <1>9, MovedOne DEF End, OneCommands
<1>10. QED
  BY <1>1, <1>2, <1>3, <1>4, <1>5, <1>6, <1>7, <1>8, <1>9 DEF WorldNext

\* While a thread of the debuggee is in command, or steps over a breakpoint,
\* all the others are held: what signal_entry_impl relies on when it executes
\* the debugger's requests between block_other_threads and
\* release_other_threads.
THEOREM WorldStopped == WorldSpec => [](WorldTypeOK /\ OneCommands)
<1>1. WorldInit => WorldInv
  BY DEF WorldInit, WorldInv, WorldTypeOK, OneCommands, States
<1>2. WorldInv /\ [WorldNext]_st => WorldInv'
  BY WorldStep
<1>3. QED
  BY <1>1, <1>2, PTL DEF WorldSpec, WorldInv

=============================================================================
