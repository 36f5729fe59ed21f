---------------------------- MODULE MCShellFanOut ----------------------------
EXTENDS ShellFanOut

CONSTANTS n1, n2, n3, Lit

\* Three nodes; templates with one and two placeholders.
MCNode == {n1, n2, n3}
MCTemplates == {<<Lit, IPH>>, <<IPH, Lit, IPH>>}
==============================================================================
