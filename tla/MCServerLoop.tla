---------------------------- MODULE MCServerLoop ----------------------------
(* Series of meta-clients for ServerLoop, small enough for TLC.             *)
EXTENDS ServerLoop

\* Refreshes between SNIPs of the same and of other sizes, and operations that
\* have none before, between and after.
Series ==
    [1 .. 3 -> {"VAR_OP", "LINREG_OP"}] \cup
    {<<"BIT_SUM", "VAR_OP", "OR_OP">>, <<"STDDEV_OP", "NONE_OP", "LINREG_OP">>,
     <<"LINREG_OP", "FREQ_OP", "INT_SUM">>}
=============================================================================
