----------------------------- MODULE CmdOverride -----------------------------
(***************************************************************************)
(* Per-node command templating of the executor (pkg/executor/helper.go,   *)
(* CmdOverrideWithNode).  A command is a sequence of tokens; a token that  *)
(* is the per-node placeholder is replaced by the node's address.          *)
(* StringOverrideWithNode lives outside src/ and is modelled from the      *)
(* spec (section 4.2): it fails for a node whose placeholder cannot be     *)
(* resolved.                                                               *)
(***************************************************************************)
EXTENDS Naturals, Sequences

CONSTANTS
  IPH,        \* the per-node placeholder token
  NoErr,      \* the nil error
  TmplErr     \* the error of an unresolvable placeholder

\* StringOverrideWithNode(c, ni): the result record of substituting one
\* token for node n; `unresolved` is the set of nodes whose placeholder
\* cannot be resolved.
StringOverrideWithNode(c, n, unresolved) ==
  IF c = IPH
    THEN IF n \in unresolved THEN [val |-> c, err |-> TmplErr]
                             ELSE [val |-> n, err |-> NoErr]
    ELSE [val |-> c, err |-> NoErr]

\* CmdOverrideWithNode: copy the command, then substitute token by token
\* from index k on, returning on the first error with the partly
\* substituted copy.
RECURSIVE OverrideFrom(_, _, _, _)
OverrideFrom(newCmd, k, n, unresolved) ==
  IF k > Len(newCmd) THEN [cmd |-> newCmd, err |-> NoErr]
  ELSE LET r == StringOverrideWithNode(newCmd[k], n, unresolved)
       IN IF r.err # NoErr THEN [cmd |-> newCmd, err |-> r.err]
          ELSE OverrideFrom([newCmd EXCEPT ![k] = r.val], k + 1, n, unresolved)

CmdOverrideWithNode(cmd, n, unresolved) == OverrideFrom(cmd, 1, n, unresolved)

\* Reference definition: the command succeeds exactly when no token needs
\* an unresolvable placeholder, and then every placeholder is the address.
OverrideReference(cmd, n, unresolved) ==
  IF \E k \in DOMAIN cmd : cmd[k] = IPH /\ n \in unresolved
    THEN TmplErr
    ELSE [k \in DOMAIN cmd |-> IF cmd[k] = IPH THEN n ELSE cmd[k]]
==============================================================================
