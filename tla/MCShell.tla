------------------------------ MODULE MCShell -------------------------------
EXTENDS Shell

\* One letter stands for "sleep 1", another for "startwm"; a line of two
\* letters fills the buffer.
MCChar == {"s", "w"}
MCSleepLines == {<<"s">>}
MCStartLines == {<<"w">>}
=============================================================================
