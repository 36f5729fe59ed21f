------------------------------ MODULE MCDay0Ops ------------------------------
EXTENDS Day0Ops

CONSTANTS d0, w1

\* The day-0 node and a worker; commands of up to three arguments; two
\* mapped images.
MCNode == {d0, w1}
==============================================================================
