----------------------------- MODULE ShellFanOut -----------------------------
(***************************************************************************)
(* The fan-out execution primitive Executor.helperShell                   *)
(* (pkg/executor/helper.go).  The calling goroutine ("coordinator") does  *)
(* wg.Add(len(nodes)), then iterates the node map in an unspecified order, *)
(* templates the command for each node and spawns one goroutine per node  *)
(* that connects the node's transport, runs the command and disconnects.  *)
(* Every failing step stores its error into the shared variable finalErr  *)
(* without a lock.  The coordinator returns finalErr after wg.Wait(), or  *)
(* returns at once when templating fails for a node.                      *)
(*                                                                         *)
(* finalErr is a Go interface value: two machine words (type, data) that  *)
(* a write stores one after the other, so racing writers may interleave.  *)
(***************************************************************************)
EXTENDS Naturals, FiniteSets, Sequences

CONSTANTS
  Node,        \* the nodes of the topology (each is its own address)
  Templates,   \* the command templates a caller may hand to helperShell
  IPH, NoErr, TmplErr

Tmpl == INSTANCE CmdOverride

VARIABLES
  targets,     \* the `nodes` argument (input, fixed for the call)
  unresolved,  \* nodes whose placeholder cannot be resolved (input)
  template,    \* history: the `cmd` argument the caller passed
  cmd,         \* the variable `cmd` the loop substitutes from
  toVisit,     \* nodes the range loop has not reached yet
  coord,       \* "loop" | "wait" | "returned"
  result,      \* the value helperShell returned (NoErr until then)
  wg,          \* the WaitGroup counter
  pc,          \* per-node goroutine program counter
  nodeCmd,     \* the command each goroutine runs
  conn,        \* per-node transport state
  finalErr,    \* the shared error: [ty |-> .., da |-> ..] words
  failed       \* history: nodes one of whose steps failed

vars == <<targets, unresolved, template, cmd, toVisit, coord, result, wg, pc, nodeCmd,
          conn, finalErr, failed>>

Nil == [ty |-> NoErr, da |-> NoErr]

Init ==
  /\ targets \in SUBSET Node
  /\ unresolved \in SUBSET targets
  /\ template \in Templates
  /\ cmd = template
  /\ toVisit = targets
  /\ coord = "loop"
  /\ result = Nil
  /\ wg = Cardinality(targets)                      \* wg.Add(len(nodes))
  /\ pc = [n \in Node |-> "idle"]
  /\ nodeCmd = [n \in Node |-> <<>>]
  /\ conn = [n \in Node |-> "down"]
  /\ finalErr = Nil
  /\ failed = {}

Step(n, from, to) == pc[n] = from /\ pc' = [pc EXCEPT ![n] = to]

-----------------------------------------------------------------------------
(* The coordinator.                                                        *)

\* Loop body: templating fails -> `return err`, leaving the goroutines
\* already spawned running and the WaitGroup never waited on.
VisitTemplateFails(n) ==
  /\ coord = "loop" /\ n \in toVisit
  /\ Tmpl!CmdOverrideWithNode(cmd, n, unresolved).err # NoErr
  /\ coord' = "returned"
  /\ result' = [ty |-> TmplErr, da |-> TmplErr]
  /\ toVisit' = toVisit \ {n}
  /\ UNCHANGED <<targets, unresolved, template, cmd, wg, pc, nodeCmd, conn, finalErr, failed>>

\* Mutant: the substituted command is assigned to the outer `cmd`.
VisitSpawnReusingCmd(n) ==
  LET r == Tmpl!CmdOverrideWithNode(cmd, n, unresolved) IN
  /\ coord = "loop" /\ n \in toVisit
  /\ r.err = NoErr
  /\ toVisit' = toVisit \ {n}
  /\ pc[n] = "idle" /\ pc' = [pc EXCEPT ![n] = "connect"]
  /\ nodeCmd' = [nodeCmd EXCEPT ![n] = r.cmd]
  /\ cmd' = r.cmd
  /\ UNCHANGED <<targets, unresolved, template, coord, result, wg, conn, finalErr, failed>>

\* Loop body: templating succeeds -> `go func() {...}()`.  The substituted
\* command is bound to a fresh `cmd` scoped to the loop body, so the outer
\* template is left as it is.
VisitSpawn(n) ==
  LET r == Tmpl!CmdOverrideWithNode(cmd, n, unresolved) IN
  /\ coord = "loop" /\ n \in toVisit
  /\ r.err = NoErr
  /\ toVisit' = toVisit \ {n}
  /\ Step(n, "idle", "connect")
  /\ nodeCmd' = [nodeCmd EXCEPT ![n] = r.cmd]
  /\ UNCHANGED <<targets, unresolved, template, cmd, coord, result, wg, conn, finalErr, failed>>

EndLoop ==
  /\ coord = "loop" /\ toVisit = {}
  /\ coord' = "wait"
  /\ UNCHANGED <<targets, unresolved, template, cmd, toVisit, result, wg, pc, nodeCmd,
                 conn, finalErr, failed>>

\* wg.Wait(); return finalErr
WaitAndReturn ==
  /\ coord = "wait" /\ wg = 0
  /\ coord' = "returned"
  /\ result' = finalErr
  /\ UNCHANGED <<targets, unresolved, template, cmd, toVisit, wg, pc, nodeCmd, conn,
                 finalErr, failed>>

-----------------------------------------------------------------------------
(* A node goroutine.  `ok` is the outcome of the remote call.              *)

Fail(n) == failed' = failed \cup {n}

Connect(n, ok) ==
  /\ IF ok THEN /\ Step(n, "connect", "run")
                /\ conn' = [conn EXCEPT ![n] = "up"]
                /\ UNCHANGED failed
           ELSE /\ Step(n, "connect", "werr") /\ Fail(n) /\ UNCHANGED conn
  /\ UNCHANGED <<targets, unresolved, template, cmd, toVisit, coord, result, wg, nodeCmd, finalErr>>

\* Mutant: the success path returns before Disconnect.
RunSkippingDisconnect(n, ok) ==
  /\ IF ok THEN /\ pc[n] = "run" /\ pc' = [pc EXCEPT ![n] = "done"]
                /\ wg' = wg - 1 /\ UNCHANGED failed
           ELSE Step(n, "run", "werr") /\ Fail(n) /\ UNCHANGED wg
  /\ UNCHANGED <<targets, unresolved, template, cmd, toVisit, coord, result, nodeCmd,
                 conn, finalErr>>

\* CmdWithAttachIO(ctx, cmd, nil, os.Stdout, os.Stderr, true); on error the
\* goroutine returns without Disconnect.
Run(n, ok) ==
  /\ IF ok THEN Step(n, "run", "disconnect") /\ UNCHANGED failed
           ELSE Step(n, "run", "werr") /\ Fail(n)
  /\ UNCHANGED <<targets, unresolved, template, cmd, toVisit, coord, result, wg, nodeCmd,
                 conn, finalErr>>

\* Mutant: the success path calls wg.Done() as well as the deferred one.
DisconnectDoubleDone(n, ok) ==
  /\ conn' = [conn EXCEPT ![n] = "down"]
  /\ IF ok THEN /\ Step(n, "disconnect", "done")
                /\ wg' = wg - 2
                /\ UNCHANGED failed
           ELSE Step(n, "disconnect", "werr") /\ Fail(n) /\ UNCHANGED wg
  /\ UNCHANGED <<targets, unresolved, template, cmd, toVisit, coord, result, nodeCmd, finalErr>>

\* Mutant: the Disconnect error path returns without storing finalErr.
DisconnectDroppingErr(n, ok) ==
  /\ conn' = [conn EXCEPT ![n] = "down"]
  /\ pc[n] = "disconnect" /\ pc' = [pc EXCEPT ![n] = "done"]
  /\ wg' = wg - 1
  /\ failed' = IF ok THEN failed ELSE failed \cup {n}
  /\ UNCHANGED <<targets, unresolved, template, cmd, toVisit, coord, result, nodeCmd, finalErr>>

Disconnect(n, ok) ==
  /\ conn' = [conn EXCEPT ![n] = "down"]
  /\ IF ok THEN /\ Step(n, "disconnect", "done")
                /\ wg' = wg - 1                     \* defer wg.Done()
                /\ UNCHANGED failed
           ELSE Step(n, "disconnect", "werr") /\ Fail(n) /\ UNCHANGED wg
  /\ UNCHANGED <<targets, unresolved, template, cmd, toVisit, coord, result, nodeCmd, finalErr>>

\* `finalErr = err`: the type word, then the data word, then return
\* (defer wg.Done()).
WriteErrType(n) ==
  /\ Step(n, "werr", "werr2")
  /\ finalErr' = [finalErr EXCEPT !.ty = n]
  /\ UNCHANGED <<targets, unresolved, template, cmd, toVisit, coord, result, wg, nodeCmd, conn, failed>>

\* Mutant: the error path returns without wg.Done().
WriteErrDataNoDone(n) ==
  /\ pc[n] = "werr2" /\ pc' = [pc EXCEPT ![n] = "done"]
  /\ finalErr' = [finalErr EXCEPT !.da = n]
  /\ UNCHANGED <<targets, unresolved, template, cmd, toVisit, coord, result, wg, nodeCmd, conn, failed>>

WriteErrData(n) ==
  /\ Step(n, "werr2", "done")
  /\ finalErr' = [finalErr EXCEPT !.da = n]
  /\ wg' = wg - 1
  /\ UNCHANGED <<targets, unresolved, template, cmd, toVisit, coord, result, nodeCmd, conn, failed>>

-----------------------------------------------------------------------------
Coordinator ==
  \/ \E n \in Node : VisitTemplateFails(n) \/ VisitSpawn(n)
  \/ EndLoop
  \/ WaitAndReturn

Worker(n) ==
  \/ \E ok \in BOOLEAN : Connect(n, ok) \/ Run(n, ok) \/ Disconnect(n, ok)
  \/ WriteErrType(n)
  \/ WriteErrData(n)

Next == Coordinator \/ \E n \in Node : Worker(n)

\* Goroutines are scheduled fairly by the Go runtime; every remote call is
\* assumed to return (a hanging node is outside this model).
Fairness == WF_vars(Coordinator) /\ \A n \in Node : WF_vars(Worker(n))

Spec == Init /\ [][Next]_vars /\ Fairness

-----------------------------------------------------------------------------
(* Properties.                                                             *)

TypeOK ==
  /\ targets \subseteq Node /\ unresolved \subseteq targets
  /\ toVisit \subseteq targets
  /\ coord \in {"loop", "wait", "returned"}
  /\ wg \in 0..Cardinality(Node)
  /\ pc \in [Node -> {"idle", "connect", "run", "disconnect", "werr", "werr2", "done"}]
  /\ conn \in [Node -> {"down", "up"}]
  /\ finalErr \in [ty : Node \cup {NoErr}, da : Node \cup {NoErr}]
  /\ failed \subseteq targets

\* helperShell reports failure exactly when something failed: once it has
\* returned, its result is nil iff no node's connect, run or disconnect
\* failed and templating succeeded for every node it reached.  This needs
\* every error path to store finalErr and every goroutine to store it
\* before wg.Done() lets wg.Wait() return.
ReturnReflectsFailures ==
  coord = "returned" =>
    (result = Nil <=> failed = {} /\ \A n \in targets : n \notin unresolved)

\* Each goroutine runs the template substituted with its own node's
\* address, whatever nodes the loop visited before it (the loop must not
\* overwrite the template it substitutes from).
EachNodeRunsOwnCommand ==
  \A n \in Node : pc[n] \notin {"idle"} =>
    nodeCmd[n] = Tmpl!OverrideReference(template, n, unresolved)

\* Spec section 5 (connect -> use -> disconnect): a goroutine that has
\* finished leaves its node's transport connected only if one of its
\* steps failed -- the error paths after Connect return without
\* Disconnect, the success path always disconnects.  So when helperShell
\* returns nil after wg.Wait(), no transport is left connected.
TransportReleasedUnlessFailed ==
  \A n \in Node : pc[n] = "done" /\ conn[n] = "up" => n \in failed

\* helperShell eventually returns: the WaitGroup count reaches zero on
\* every path of every goroutine.
Termination == <>(coord = "returned")

\* Spec section 5: no fan-out returns while a spawned per-node task is
\* still outstanding (the join barrier).
JoinBeforeReturn ==
  coord = "returned" => \A n \in Node : pc[n] \in {"idle", "done"}

\* Spec section 4.3: with concurrent failures the caller sees the error of
\* one of the failing nodes (last writer wins), never a value mixed from
\* two writes of finalErr.
ResultIsAWrittenError ==
  coord = "returned" => result.ty = result.da
==============================================================================
