-------------------------- MODULE MCGDBTransport --------------------------
(* Instances of GDBTransport for TLC.                                      *)
EXTENDS GDBTransport

\* A read of memory, a selection with a minus sign, a hardware breakpoint,
\* vCont;c, QStartNoAckMode.
Plain == {<<"m", "1">>, <<"H", "-">>, <<"Z">>, <<"c">>, <<"Q">>}
\* Binary data with bytes that are escaped.
Binary == {<<"m", "1">>, <<"X", "#", "1">>, <<"X", "}", "+">>}
WithBinary == Plain \cup Binary
=============================================================================
