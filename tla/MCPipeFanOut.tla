---------------------------- MODULE MCPipeFanOut ----------------------------
EXTENDS PipeFanOut

CONSTANTS d0, w1, w2

\* The day-0 node and two workers; a two-chunk archive.
MCNode == {d0, w1, w2}
MCChunks == 2
==============================================================================
