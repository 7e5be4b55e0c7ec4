--------------------------- MODULE MCSyslogListener --------------------------
EXTENDS SyslogListener

\* A message ended by CR LF, and one without a newline; with a limit of one
\* byte, the CR alone takes the first over the limit when it comes early.
MCStreams == {<<"x", "r", "n">>, <<"x">>}
=============================================================================
