------------------------------ MODULE PipeFanOut ------------------------------
(***************************************************************************)
(* The stream-bridging fan-outs of the executor (pkg/executor/helper.go):  *)
(* helperCopyFromDay0 / runPipeFrom and helperCopyToDay0 / runPipeTo.      *)
(*                                                                         *)
(* For every target node n the coordinator spawns a node goroutine that    *)
(* connects n's transport, makes an io.Pipe and spawns a peer goroutine    *)
(* (wg.Add(1)) that runs on the day-0 node's transport:                    *)
(*   dir = "from": the peer produces (tar -c on day-0) into the pipe and   *)
(*                 closes it; the node goroutine consumes (tar -x on n),   *)
(*                 then disconnects n;                                     *)
(*   dir = "to":   the node goroutine produces (tar -c on n), disconnects  *)
(*                 and closes the pipe (defer); the peer consumes on day-0.*)
(* io.Pipe is synchronous: a Write returns only once a Read has taken its  *)
(* bytes; it is modelled as a one-chunk slot the writer waits to drain.    *)
(* The day-0 transport is shared by every peer and is never connected by   *)
(* these functions.                                                        *)
(***************************************************************************)
EXTENDS Integers, FiniteSets

CONSTANTS
  Node,              \* the nodes of the topology
  Day0,              \* nodesByRole["day-0"][0]
  Chunks,            \* number of writes the producer's tar -c makes
  ConsumerMayAbort,  \* can the transport's command return before it has
                     \* read its stdin to end-of-file?
  NoErr, TmplErr, CopyErr

ASSUME Day0 \in Node /\ Chunks \in Nat \ {0} /\ ConsumerMayAbort \in BOOLEAN

VARIABLES
  dir,         \* "from" (CopyFromDay0) | "to" (CopyToDay0)
  slashOK,     \* input: the destination ends with "/"
  targets,     \* the `nodes` argument
  unresolved,  \* nodes whose command templating fails
  toVisit,     \* nodes the range loop has not reached yet
  coord,       \* "validate" | "loop" | "wait" | "returned"
  result,      \* the returned error
  wg,          \* the WaitGroup counter
  pc,          \* program counter of each task <<n, "node">> / <<n, "peer">>
  conn,        \* transport state of each node
  slot,        \* the pipe of n holds a written, unread chunk
  sent,        \* chunks written into the pipe of n
  got,         \* chunks read from the pipe of n
  closed,      \* the write end of n's pipe has been closed
  finalErr,    \* the shared error variable (last writer wins)
  failed       \* history: tasks one of whose steps failed

vars == <<dir, slashOK, targets, unresolved, toVisit, coord, result, wg, pc,
          conn, slot, sent, got, closed, finalErr, failed>>

Task == Node \X {"node", "peer"}
NodeT(n) == <<n, "node">>
PeerT(n) == <<n, "peer">>
ProdT(n) == IF dir = "from" THEN PeerT(n) ELSE NodeT(n)
ConsT(n) == IF dir = "from" THEN NodeT(n) ELSE PeerT(n)
\* The transport a task's command runs on.
Host(t) == IF t[2] = "node" THEN t[1] ELSE Day0

Init ==
  /\ dir \in {"from", "to"}
  /\ slashOK \in BOOLEAN
  /\ targets \in SUBSET Node \ {{}}
  /\ unresolved \in SUBSET targets
  /\ toVisit = targets
  /\ coord = "validate"
  /\ result = NoErr
  /\ wg = 0
  /\ pc = [t \in Task |-> "idle"]
  /\ conn \in {[n \in Node |-> IF n = Day0 THEN c ELSE "down"] : c \in {"up", "down"}}
  /\ slot = [n \in Node |-> FALSE]
  /\ sent = [n \in Node |-> 0]
  /\ got = [n \in Node |-> 0]
  /\ closed = [n \in Node |-> FALSE]
  /\ finalErr = NoErr
  /\ failed = {}

\* Move task t to `to`; a task that reaches "done" runs defer wg.Done().
Goto(t, from, to) ==
  /\ pc[t] = from
  /\ pc' = [pc EXCEPT ![t] = to]
  /\ wg' = IF to = "done" THEN wg - 1 ELSE wg

\* `finalErr = err` of task t when `ok` is false.
Record(t, ok) ==
  /\ finalErr' = IF ok THEN finalErr ELSE t[1]
  /\ failed' = IF ok THEN failed ELSE failed \cup {t}

Pipe == <<slot, sent, got, closed>>

-----------------------------------------------------------------------------
(* The coordinator: helperCopy*Day0, then the loop and wg.Wait() of       *)
(* runPipeFrom / runPipeTo.                                                *)

\* toDir[len(toDir)-1] != '/': return errCopyFromDay0 / errCopyToDay0
\* before any node is touched.
ValidateRejects ==
  /\ coord = "validate" /\ ~slashOK
  /\ coord' = "returned" /\ result' = CopyErr
  /\ UNCHANGED <<dir, slashOK, targets, unresolved, toVisit, wg, pc, conn, Pipe, finalErr, failed>>

ValidateAccepts ==
  /\ coord = "validate" /\ slashOK
  /\ coord' = "loop"
  /\ wg' = Cardinality(targets)                     \* wg.Add(len(nodes))
  /\ UNCHANGED <<dir, slashOK, targets, unresolved, toVisit, result, pc, conn, Pipe, finalErr, failed>>

\* CmdOverrideWithNode fails: `return err` with goroutines still running.
VisitTemplateFails(n) ==
  /\ coord = "loop" /\ n \in toVisit /\ n \in unresolved
  /\ coord' = "returned" /\ result' = TmplErr
  /\ toVisit' = toVisit \ {n}
  /\ UNCHANGED <<dir, slashOK, targets, unresolved, wg, pc, conn, Pipe, finalErr, failed>>

VisitSpawn(n) ==
  /\ coord = "loop" /\ n \in toVisit /\ n \notin unresolved
  /\ toVisit' = toVisit \ {n}
  /\ pc[NodeT(n)] = "idle" /\ pc' = [pc EXCEPT ![NodeT(n)] = "connect"]
  /\ UNCHANGED <<dir, slashOK, targets, unresolved, coord, result, wg, conn, Pipe, finalErr, failed>>

EndLoop ==
  /\ coord = "loop" /\ toVisit = {}
  /\ coord' = "wait"
  /\ UNCHANGED <<dir, slashOK, targets, unresolved, toVisit, result, wg, pc, conn, Pipe, finalErr, failed>>

\* Mutant: wg.Wait() is missing.
WaitAndReturnNoWait ==
  /\ coord = "wait"
  /\ coord' = "returned" /\ result' = finalErr
  /\ UNCHANGED <<dir, slashOK, targets, unresolved, toVisit, wg, pc, conn, Pipe, finalErr, failed>>

WaitAndReturn ==
  /\ coord = "wait" /\ wg = 0
  /\ coord' = "returned" /\ result' = finalErr
  /\ UNCHANGED <<dir, slashOK, targets, unresolved, toVisit, wg, pc, conn, Pipe, finalErr, failed>>

-----------------------------------------------------------------------------
(* The node goroutine of n and the peer goroutine it spawns.               *)

\* Mutant: the node goroutine spawns its peer without wg.Add(1).
NodeConnectNoAdd(n, ok) ==
  /\ pc[NodeT(n)] = "connect"
  /\ IF ok
       THEN /\ conn' = [conn EXCEPT ![n] = "up"]
            /\ pc' = [pc EXCEPT ![NodeT(n)] = "stream", ![PeerT(n)] = "stream"]
            /\ UNCHANGED <<wg, finalErr, failed>>
       ELSE /\ Goto(NodeT(n), "connect", "done") /\ Record(NodeT(n), FALSE)
            /\ UNCHANGED conn
  /\ UNCHANGED <<dir, slashOK, targets, unresolved, toVisit, coord, result, Pipe>>

\* n.client.Connect(); on success io.Pipe(), wg.Add(1), go peer.
NodeConnect(n, ok) ==
  /\ pc[NodeT(n)] = "connect"
  /\ IF ok
       THEN /\ conn' = [conn EXCEPT ![n] = "up"]
            /\ pc' = [pc EXCEPT ![NodeT(n)] = "stream", ![PeerT(n)] = "stream"]
            /\ wg' = wg + 1
            /\ UNCHANGED <<finalErr, failed>>
       ELSE /\ Goto(NodeT(n), "connect", "done") /\ Record(NodeT(n), FALSE)
            /\ UNCHANGED conn
  /\ UNCHANGED <<dir, slashOK, targets, unresolved, toVisit, coord, result, Pipe>>

\* Mutant: a write does not wait for the reader and replaces an unread
\* chunk.
ProduceNoWait(n) ==
  /\ pc[ProdT(n)] = "stream"
  /\ conn[Host(ProdT(n))] = "up"
  /\ sent[n] < Chunks
  /\ slot' = [slot EXCEPT ![n] = TRUE]
  /\ sent' = [sent EXCEPT ![n] = @ + 1]
  /\ UNCHANGED <<dir, slashOK, targets, unresolved, toVisit, coord, result, wg, pc,
                 conn, got, closed, finalErr, failed>>

\* The producer's tar -c writes one chunk into the pipe; the write returns
\* only when the consumer has read it (the slot is empty again).
Produce(n) ==
  /\ pc[ProdT(n)] = "stream"
  /\ conn[Host(ProdT(n))] = "up"
  /\ ~slot[n] /\ sent[n] < Chunks
  /\ slot' = [slot EXCEPT ![n] = TRUE]
  /\ sent' = [sent EXCEPT ![n] = @ + 1]
  /\ UNCHANGED <<dir, slashOK, targets, unresolved, toVisit, coord, result, wg, pc,
                 conn, got, closed, finalErr, failed>>

\* Mutant: the producer's error is not stored into finalErr.
ProducerEndDroppingErr(n, ok) ==
  LET p == ProdT(n) IN
  /\ pc[p] = "stream" /\ ~slot[n]
  /\ ok => sent[n] = Chunks /\ conn[Host(p)] = "up"
  /\ Goto(p, "stream", IF dir = "to" /\ ok THEN "disconnect" ELSE "close")
  /\ UNCHANGED <<dir, slashOK, targets, unresolved, toVisit, coord, result, conn, Pipe,
                 finalErr, failed>>

\* The producer's CmdWithAttachIO returns (it is not blocked in a Write).
\* "from": the peer records its error and closes the pipe.
\* "to": the node goroutine disconnects on success, else records the error
\*       and returns (the deferred w.Close() runs).
ProducerEnd(n, ok) ==
  LET p == ProdT(n) IN
  /\ pc[p] = "stream" /\ ~slot[n]
  /\ ok => sent[n] = Chunks /\ conn[Host(p)] = "up"
  /\ Goto(p, "stream", IF dir = "to" /\ ok THEN "disconnect" ELSE "close")
  /\ Record(p, ok)
  /\ UNCHANGED <<dir, slashOK, targets, unresolved, toVisit, coord, result, conn, Pipe>>

\* The consumer's tar -x reads one chunk from the pipe.
Consume(n) ==
  /\ pc[ConsT(n)] = "stream"
  /\ slot[n]
  /\ slot' = [slot EXCEPT ![n] = FALSE]
  /\ got' = [got EXCEPT ![n] = @ + 1]
  /\ UNCHANGED <<dir, slashOK, targets, unresolved, toVisit, coord, result, wg, pc,
                 conn, sent, closed, finalErr, failed>>

\* The consumer's CmdWithAttachIO returns: at end-of-file, or (when the
\* transport may stop reading stdin) with an error at any time.
\* "from": the node goroutine disconnects on success, else records and
\*         returns.  "to": the peer records its error and returns.
ConsumerEnd(n, ok) ==
  LET c == ConsT(n) IN
  /\ pc[c] = "stream"
  /\ \/ closed[n] /\ ~slot[n]
     \/ ConsumerMayAbort /\ ~ok
  /\ ok => conn[Host(c)] = "up"
  /\ Goto(c, "stream", IF dir = "from" /\ ok THEN "disconnect" ELSE "done")
  /\ Record(c, ok)
  /\ UNCHANGED <<dir, slashOK, targets, unresolved, toVisit, coord, result, conn, Pipe>>

\* n.client.Disconnect(); "to" then runs the deferred w.Close().
Disconnect(n, ok) ==
  /\ conn' = [conn EXCEPT ![n] = "down"]
  /\ Goto(NodeT(n), "disconnect", IF dir = "to" THEN "close" ELSE "done")
  /\ Record(NodeT(n), ok)
  /\ UNCHANGED <<dir, slashOK, targets, unresolved, toVisit, coord, result, Pipe>>

\* w.Close(): the consumer will read end-of-file.
Close(n) ==
  /\ Goto(ProdT(n), "close", "done")
  /\ closed' = [closed EXCEPT ![n] = TRUE]
  /\ UNCHANGED <<dir, slashOK, targets, unresolved, toVisit, coord, result, conn,
                 slot, sent, got, finalErr, failed>>

-----------------------------------------------------------------------------
Coordinator ==
  \/ ValidateRejects \/ ValidateAccepts \/ EndLoop \/ WaitAndReturn
  \/ \E n \in Node : VisitTemplateFails(n) \/ VisitSpawn(n)

Tasks(n) ==
  \/ \E ok \in BOOLEAN : NodeConnect(n, ok) \/ ProducerEnd(n, ok)
                         \/ ConsumerEnd(n, ok) \/ Disconnect(n, ok)
  \/ Produce(n) \/ Consume(n) \/ Close(n)

Next == Coordinator \/ \E n \in Node : Tasks(n)

\* Go schedules runnable goroutines fairly; a remote command that can
\* proceed eventually does.
Fairness == WF_vars(Coordinator) /\ \A n \in Node : WF_vars(Tasks(n))

Spec == Init /\ [][Next]_vars /\ Fairness

-----------------------------------------------------------------------------
(* Properties.                                                             *)

TypeOK ==
  /\ dir \in {"from", "to"} /\ slashOK \in BOOLEAN
  /\ targets \subseteq Node /\ unresolved \subseteq targets /\ toVisit \subseteq targets
  /\ coord \in {"validate", "loop", "wait", "returned"}
  /\ result \in {NoErr, TmplErr, CopyErr} \cup Node
  /\ wg \in 0..2 * Cardinality(Node)
  /\ pc \in [Task -> {"idle", "connect", "stream", "disconnect", "close", "done"}]
  /\ conn \in [Node -> {"up", "down"}]
  /\ slot \in [Node -> BOOLEAN] /\ closed \in [Node -> BOOLEAN]
  /\ sent \in [Node -> 0..Chunks] /\ got \in [Node -> 0..Chunks]
  /\ finalErr \in {NoErr} \cup Node
  /\ failed \subseteq Task

\* A copy that returns nil has delivered the whole archive to every
\* consumer and no step of any goroutine failed: a producer that fails
\* part-way still closes the pipe (so the consumer sees a clean
\* end-of-file on truncated data), and only its stored error tells.
SuccessImpliesCompleteCopy ==
  coord = "returned" /\ result = NoErr =>
    /\ failed = {}
    /\ \A n \in targets : got[n] = Chunks

\* When runPipeFrom / runPipeTo return through wg.Wait(), every node
\* goroutine and every peer goroutine (added by wg.Add(1) inside the node
\* goroutine) has finished.
WaitJoinsAllTasks ==
  coord = "returned" /\ result \notin {TmplErr, CopyErr} =>
    \A t \in Task : pc[t] \in {"idle", "done"}

\* The copy eventually returns: every pipe is closed by its producer and
\* every goroutine calls wg.Done().
Termination == <>(coord = "returned")

-----------------------------------------------------------------------------
(* Refinement of the stream-bridge contract (AbstractCopy).  A pipe's     *)
(* writes are `sent`, its reads `got`; the consumer has seen end-of-file  *)
(* once its CmdWithAttachIO returned from a closed pipe.                  *)

StageOf(c) == CASE c = "validate" -> "validate" [] c = "returned" -> "returned"
                [] OTHER -> "running"

SawEOF(n) == closed[n] /\ pc[ConsT(n)] \in {"disconnect", "done"}

Copy == INSTANCE AbstractCopy WITH
          astage <- StageOf(coord), atargets <- targets,
          written <- sent, delivered <- got, wclosed <- closed,
          eof <- [n \in Node |-> SawEOF(n)],
          aresult <- IF coord # "returned" THEN "none"
                     ELSE IF result = NoErr THEN "ok" ELSE "err"

\* runPipeFrom / runPipeTo with helperCopy*Day0 implement the copy the
\* spec describes: nothing streams before the destination is validated,
\* each pipe delivers its writes in order and shows end-of-file only
\* after the producer's Close and the last read, a nil return means every
\* target read the whole archive to end-of-file, and the copy returns.
CopyRefinement == Copy!ACopySpec

==============================================================================
