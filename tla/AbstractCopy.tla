----------------------------- MODULE AbstractCopy -----------------------------
(***************************************************************************)
(* What a stream-bridging copy promises its caller (spec sections 4.4, 5  *)
(* and 7), with no goroutines, transports or WaitGroup: the destination   *)
(* is validated before anything is touched; then, for every target, a     *)
(* producer writes the archive into a stream that delivers it in order,   *)
(* and the consumer sees end-of-stream only once the producer has closed  *)
(* the stream and every write has been delivered.  The copy returns an    *)
(* error at any point, or nil once every target has the whole archive up  *)
(* to end-of-stream; it always returns.  The stream is unbounded here;    *)
(* the implementation's io.Pipe holds one write at a time.                *)
(***************************************************************************)
EXTENDS Naturals

CONSTANTS Node, Chunks

VARIABLES
  astage,     \* "validate" | "running" | "returned"
  atargets,   \* the target nodes
  written,    \* writes the producer of n has made
  delivered,  \* writes the consumer of n has read, in order
  wclosed,    \* the producer of n has closed its stream
  eof,        \* the consumer of n has seen end-of-stream
  aresult     \* "none" | "ok" | "err"

avars == <<astage, atargets, written, delivered, wclosed, eof, aresult>>

AInit ==
  /\ astage = "validate"
  /\ atargets \in SUBSET Node
  /\ written = [n \in Node |-> 0] /\ delivered = [n \in Node |-> 0]
  /\ wclosed = [n \in Node |-> FALSE] /\ eof = [n \in Node |-> FALSE]
  /\ aresult = "none"

Reject ==
  /\ astage = "validate" /\ astage' = "returned" /\ aresult' = "err"
  /\ UNCHANGED <<atargets, written, delivered, wclosed, eof>>

Accept ==
  /\ astage = "validate" /\ astage' = "running"
  /\ UNCHANGED <<atargets, written, delivered, wclosed, eof, aresult>>

\* Streams are used only once validation passed; a copy that returned an
\* error early may still have streams in progress.
Streaming(n) == astage # "validate" /\ n \in atargets

Write(n) ==
  /\ Streaming(n) /\ ~wclosed[n] /\ written[n] < Chunks
  /\ written' = [written EXCEPT ![n] = @ + 1]
  /\ UNCHANGED <<astage, atargets, delivered, wclosed, eof, aresult>>

Deliver(n) ==
  /\ delivered[n] < written[n]
  /\ delivered' = [delivered EXCEPT ![n] = @ + 1]
  /\ UNCHANGED <<astage, atargets, written, wclosed, eof, aresult>>

CloseStream(n) ==
  /\ Streaming(n) /\ ~wclosed[n]
  /\ wclosed' = [wclosed EXCEPT ![n] = TRUE]
  /\ UNCHANGED <<astage, atargets, written, delivered, eof, aresult>>

EndOfStream(n) ==
  /\ wclosed[n] /\ delivered[n] = written[n] /\ ~eof[n]
  /\ eof' = [eof EXCEPT ![n] = TRUE]
  /\ UNCHANGED <<astage, atargets, written, delivered, wclosed, aresult>>

ReturnOk ==
  /\ astage = "running"
  /\ \A n \in atargets : eof[n] /\ delivered[n] = Chunks
  /\ astage' = "returned" /\ aresult' = "ok"
  /\ UNCHANGED <<atargets, written, delivered, wclosed, eof>>

ReturnErr ==
  /\ astage = "running" /\ astage' = "returned" /\ aresult' = "err"
  /\ UNCHANGED <<atargets, written, delivered, wclosed, eof>>

ANext ==
  \/ Reject \/ Accept \/ ReturnOk \/ ReturnErr
  \/ \E n \in Node : Write(n) \/ Deliver(n) \/ CloseStream(n) \/ EndOfStream(n)

\* The copy returns.
ACopySpec == AInit /\ [][ANext]_avars /\ WF_avars(Accept \/ Reject) /\ WF_avars(ReturnOk \/ ReturnErr)
==============================================================================
