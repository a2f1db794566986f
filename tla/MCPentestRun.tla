---------------------------- MODULE MCPentestRun ----------------------------
\* PentestRun on a small instance: two replicas, one engagement retry.
EXTENDS PentestRun
=============================================================================
