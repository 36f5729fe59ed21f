-------------------------- MODULE MCServiceInjector --------------------------
EXTENDS ServiceInjector

CONSTANTS u1, u2, m1

\* u1 is in the download list, u2 is not.
MCURLs == {u1, u2}
MCFiles == <<[URL |-> u1, Mirrorurl |-> m1]>>
==============================================================================
