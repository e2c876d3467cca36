---- MODULE MCTcpEcho ----
\* Small instances of TcpEcho for TLC.
EXTENDS TcpEcho
====
