------------------------------ MODULE StopWorld ------------------------------
(***************************************************************************)
(* What libudirt promises about stopping a multithreaded debuggee: events  *)
(* are handled one at a time, with every other thread held, and a thread   *)
(* that stopped with an event of its own stays until it has been in        *)
(* command.  ThreadSync shows how signals, a compare-and-swap and pipes    *)
(* implement it.                                                           *)
(***************************************************************************)

CONSTANT Thread   \* the threads there can be

VARIABLE
    st  \* absent; runs the program, or steps over a breakpoint alone; held,
        \* with or without an event of its own; or in command

States == {"absent", "runs", "steps", "held", "event", "commands"}

WorldTypeOK == st \in [Thread -> States]

\* The threads that exist at the start run the program.
WorldInit == st \in [Thread -> {"absent", "runs"}]

\* Nobody but t executes the program or is in command.
OthersHeld(t) == \A u \in Thread \ {t} : st[u] \in {"absent", "held", "event"}

Moves(t, from, to) ==
    /\ st[t] \in from
    /\ st' = [st EXCEPT ![t] = to]

\* A running thread has an event, or is stopped for that of another.
Raise(t) == Moves(t, {"runs"}, "event")
Stop(t) == Moves(t, {"runs"}, "held")

\* The stop is complete; a thread that steps alone comes back to command.
Take(t) == OthersHeld(t) /\ Moves(t, {"held", "event", "steps"}, "commands")

StepAlone(t) == OthersHeld(t) /\ Moves(t, {"commands"}, "steps")

\* The thread in command lets the others go, or hands over to one of them.
Yield(t) == Moves(t, {"commands"}, "held")

\* A held thread goes back to the program when nobody is in command or steps.
Resume(t) ==
    /\ \A u \in Thread : st[u] \notin {"commands", "steps"}
    /\ Moves(t, {"held"}, "runs")

\* A thread starts, held, while its creator is in command.
Start(t) ==
    /\ \E u \in Thread : st[u] = "commands"
    /\ Moves(t, {"absent"}, "held")

End(t) == Moves(t, {"held", "commands"}, "absent")

WorldNext == \E t \in Thread :
    \/ Raise(t) \/ Stop(t) \/ Take(t) \/ StepAlone(t) \/ Yield(t)
    \/ Resume(t) \/ Start(t) \/ End(t)

WorldSpec == WorldInit /\ [][WorldNext]_st

\* While a thread is in command or steps alone, every other thread is held.
OneCommands ==
    \A t, u \in Thread :
        st[t] \in {"commands", "steps"} /\ t # u => st[u] \in {"absent", "held", "event"}

=============================================================================
