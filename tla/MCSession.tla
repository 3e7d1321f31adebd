----------------------------- MODULE MCSession ------------------------------
(* Instances of Session for TLC. *)
EXTENDS Session

CONSTANTS t1, t2

\* One request of each way through libudi.  Where single steps fail the two
\* sides lose each other, and nothing is said about the states that
\* refresh_state reads then: that debugger does not ask for them.
MCAsks ==
    [f \in Faults |->
        {"thread_suspend", "thread_resume", "single_step", "read_mem"}
        \cup (IF "step" \in f THEN {} ELSE {"state"})]

=============================================================================
