---------------------------- MODULE MCThreadSync -----------------------------
(* Instances of ThreadSync for TLC. *)
EXTENDS ThreadSync, TLC

CONSTANTS t1, t2, t3

\* Three threads with events and breakpoints to step over, one of which the
\* debugger suspends.
Stops == [initial |-> <<t1, t2, t3>>, active |-> {t1, t2, t3}, creators |-> {},
          leavers |-> {}, suspendable |-> {t1}, resumable |-> {},
          stepping |-> TRUE, careful |-> TRUE, faults |-> FALSE]

\* Two threads with events and two that exit.
Leaves == [Stops EXCEPT !.active = {t1, t2}, !.leavers = {t2, t3},
                        !.suspendable = {}, !.stepping = FALSE]

\* One thread has events and creates another one; the others are suspended
\* and resumed.
Creates == [Stops EXCEPT !.initial = <<t1, t2>>, !.active = {t1}, !.creators = {t1},
                         !.suspendable = {t2, t3}, !.resumable = {t2, t3}]

\* A creator is suspended in control, and resumed when the thread it created
\* exits.
Resumes == [Creates EXCEPT !.active = {}, !.creators = {t2}, !.leavers = {t3},
                           !.suspendable = {t2}, !.resumable = {t2},
                           !.stepping = FALSE]

\* A thread exits while another one creates a third, which has events.
Interrupts == [Creates EXCEPT !.active = {t3}, !.leavers = {t2},
                              !.suspendable = {}, !.resumable = {},
                              !.stepping = FALSE, !.faults = TRUE]

\* Two threads create a third one at the same time, which may fail, and exit.
Races == [Interrupts EXCEPT !.active = {}, !.creators = {t1, t2}, !.leavers = {t1, t2}]

AllUses == {Stops, Leaves, Creates, Resumes, Interrupts, Races}

=============================================================================
