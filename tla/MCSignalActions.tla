--------------------------- MODULE MCSignalActions ---------------------------
(* Instances of SignalActions for TLC: three signals of the table, in its     *)
(* order, and one without an entry.                                          *)
EXTENDS SignalActions

Order == <<"HUP", "ABRT", "PIPE">>
Handled == [handler |-> "h", mask |-> {"PIPE"}]
Asked == {Default, Ignore, Handled}
Chosen == {{}, {"PIPE"}}

=============================================================================
