---------------------------- MODULE PluginSession ----------------------------
(***************************************************************************)
(* The plugin side of the workflow RPC protocol (pkg/plugin/               *)
(* grpc_handler.go): Plugin.Connect and Plugin.Complete, against the      *)
(* workflow server and the plugin runner.  The server and the runner are  *)
(* not under src/ and are modelled from the spec (sections 4.1 and 6):    *)
(* the server answers PluginConnect with Completed (workflow already      *)
(* finished), Connected (with the shared data and, maybe, private data)   *)
(* or, if its version is skewed, an unknown status; it records the result *)
(* a PluginComplete carries.  The runner calls Connect once and, only if  *)
(* Connect succeeded, runs the plugin (skipped when finished) and calls   *)
(* Complete with the plugin's error.                                      *)
(*                                                                         *)
(* Each RPC is a request and a reply; the client's context deadline may   *)
(* expire first (DEFAULT_TIMEOUT, CONNECT_TIMEOUT), after which a late    *)
(* reply is discarded while the request may or may not still reach the    *)
(* server.  Payload contents are abstracted to which value a structure    *)
(* holds.                                                                  *)
(***************************************************************************)
EXTENDS Naturals

CONSTANTS
  None,            \* absent value (nil payload, no message)
  Empty,           \* a structure as the plugin constructed it
  Shared,          \* the server's shared workflow data
  Priv,            \* the server's private data for this plugin
  Work,            \* private data as the plugin's work left it
  Timeouts,        \* may the RPC deadlines expire?
  Corrupt,         \* may UnmarshalBinary fail?
  MarshalMayFail,  \* may MarshalBinary fail?
  Skew             \* may the server answer an unknown status?

VARIABLES
  cpc,          \* the client/runner program counter
  conn,         \* "none" | "open" | "closed": the grpc.ClientConn
  finished,     \* p.finished
  data,         \* p.data
  pluginData,   \* p.plugin_data (None when the plugin has none)
  workFailed,   \* history: the plugin's work returned an error
  retErr,       \* the error the last Connect/Complete returned
  req,          \* request in flight to the server, or None
  rep,          \* reply in flight to the client, or None
  wfDone,       \* server: the workflow has already completed
  srvPlugin,    \* server: "idle" | "running" | "done" for this plugin
  srvResult     \* server: the recorded [status, priv], or None

vars == <<cpc, conn, finished, data, pluginData, workFailed, retErr, req, rep,
          wfDone, srvPlugin, srvResult>>

Init ==
  /\ cpc = "init"
  /\ conn = "none"
  /\ finished = FALSE
  /\ data = Empty
  /\ pluginData \in {Empty, None}              \* New(name, data, plugin_data)
  /\ workFailed = FALSE
  /\ retErr = None
  /\ req = None /\ rep = None
  /\ wfDone \in BOOLEAN
  /\ srvPlugin = "idle"
  /\ srvResult = None

-----------------------------------------------------------------------------
(* Plugin.Connect                                                          *)

\* GetTLSConfigByName fails, or grpc.DialContext fails within
\* DEFAULT_TIMEOUT: return before any channel exists.
ConnectNoChannel(e) ==
  /\ cpc = "init"
  /\ cpc' = "connectFailed" /\ retErr' = e
  /\ UNCHANGED <<conn, finished, data, pluginData, workFailed, req, rep, wfDone, srvPlugin, srvResult>>

\* Dial succeeds: p.conn = conn; PluginConnect is sent with CONNECT_TIMEOUT.
ConnectDial ==
  /\ cpc = "init"
  /\ conn' = "open"
  /\ req' = [kind |-> "connect"]
  /\ cpc' = "awaitConnect"
  /\ UNCHANGED <<finished, data, pluginData, workFailed, retErr, rep, wfDone, srvPlugin, srvResult>>

\* The deadline expires: `return err`, the channel stays open.
ConnectTimeout(dropReq) ==
  /\ Timeouts /\ cpc = "awaitConnect"
  /\ cpc' = "connectFailed" /\ retErr' = "errDeadline"
  /\ req' = IF dropReq THEN None ELSE req
  /\ UNCHANGED <<conn, finished, data, pluginData, workFailed, rep, wfDone, srvPlugin, srvResult>>

\* Mutant: the shared data is not unmarshalled into p.data.
ConnectReplySkippingData(okPriv, okData) ==
  /\ cpc = "awaitConnect" /\ rep # None /\ rep.kind = "connect"
  /\ rep' = None
  /\ (~okPriv \/ ~okData) => Corrupt
  /\ LET privIn == pluginData # None /\ rep.priv # None IN
     CASE rep.status = "Completed" ->
            /\ finished' = TRUE /\ cpc' = "connected" /\ retErr' = None
            /\ UNCHANGED <<data, pluginData>>
       [] rep.status = "Connected" /\ privIn /\ ~okPriv ->
            /\ cpc' = "connectFailed" /\ retErr' = "errUnmarshalPlugin"
            /\ UNCHANGED <<finished, data, pluginData>>
       [] rep.status = "Connected" /\ (~privIn \/ okPriv) ->
            /\ pluginData' = IF privIn THEN rep.priv ELSE pluginData
            /\ cpc' = "connected" /\ retErr' = None
            /\ UNCHANGED <<finished, data>>
       [] OTHER ->
            /\ cpc' = "connectFailed" /\ retErr' = "errUnknown"
            /\ UNCHANGED <<finished, data, pluginData>>
  /\ UNCHANGED <<conn, workFailed, req, wfDone, srvPlugin, srvResult>>

\* The reply arrives.  Completed: finished = true.  Connected: unmarshal
\* plugin data first, then data, each skipped when either side is nil;
\* a failure returns at once (plugin data may already be overwritten).
\* Anything else: errUnknown.  The channel stays open on every error.
ConnectReply(okPriv, okData) ==
  /\ cpc = "awaitConnect" /\ rep # None /\ rep.kind = "connect"
  /\ rep' = None
  /\ (~okPriv \/ ~okData) => Corrupt
  /\ LET privIn == pluginData # None /\ rep.priv # None IN
     CASE rep.status = "Completed" ->
            /\ finished' = TRUE /\ cpc' = "connected" /\ retErr' = None
            /\ UNCHANGED <<data, pluginData>>
       [] rep.status = "Connected" /\ privIn /\ ~okPriv ->
            /\ cpc' = "connectFailed" /\ retErr' = "errUnmarshalPlugin"
            /\ UNCHANGED <<finished, data, pluginData>>
       [] rep.status = "Connected" /\ (~privIn \/ okPriv) ->
            /\ pluginData' = IF privIn THEN rep.priv ELSE pluginData
            /\ IF okData
                 THEN data' = rep.data /\ cpc' = "connected" /\ retErr' = None
                 ELSE cpc' = "connectFailed" /\ retErr' = "errUnmarshalData"
                      /\ UNCHANGED data
            /\ UNCHANGED finished
       [] OTHER ->
            /\ cpc' = "connectFailed" /\ retErr' = "errUnknown"
            /\ UNCHANGED <<finished, data, pluginData>>
  /\ UNCHANGED <<conn, workFailed, req, wfDone, srvPlugin, srvResult>>

-----------------------------------------------------------------------------
(* The plugin runner between Connect and Complete.                         *)

\* Connect returned nil: run the plugin unless the workflow is finished;
\* its work updates the private data and may fail.
RunPlugin(fails) ==
  /\ cpc = "connected"
  /\ cpc' = "ran"
  /\ IF finished
       THEN UNCHANGED <<pluginData, workFailed>>
       ELSE /\ pluginData' = IF pluginData = None THEN None ELSE Work
            /\ workFailed' = fails
  /\ UNCHANGED <<conn, finished, data, retErr, req, rep, wfDone, srvPlugin, srvResult>>

-----------------------------------------------------------------------------
(* Plugin.Complete(err), err being the plugin's error.                     *)

\* Mutant: a marshal failure is logged and nil returned.
CompleteMarshalFailsLogged ==
  /\ MarshalMayFail
  /\ cpc = "ran" /\ ~workFailed /\ pluginData # None
  /\ cpc' = "completed" /\ retErr' = None
  /\ conn' = "closed"
  /\ UNCHANGED <<finished, data, pluginData, workFailed, req, rep, wfDone, srvPlugin, srvResult>>

\* err == nil and plugin_data.MarshalBinary() fails: return
\* errUnmarshalPlugin without calling PluginComplete; defer p.conn.Close().
CompleteMarshalFails ==
  /\ MarshalMayFail
  /\ cpc = "ran" /\ ~workFailed /\ pluginData # None
  /\ cpc' = "completeFailed" /\ retErr' = "errUnmarshalPlugin"
  /\ conn' = "closed"
  /\ UNCHANGED <<finished, data, pluginData, workFailed, req, rep, wfDone, srvPlugin, srvResult>>

\* Mutant: the plugin data is sent whatever err is.
\* Mutant: the shared workflow data is sent back as well.
CompleteSendWithData ==
  /\ cpc = "ran"
  /\ cpc' = "awaitComplete"
  /\ req' = [kind |-> "complete", status |-> IF workFailed THEN "Error" ELSE "Success",
             priv |-> IF workFailed THEN None ELSE pluginData, data |-> data]
  /\ UNCHANGED <<conn, finished, data, pluginData, workFailed, retErr, rep, wfDone, srvPlugin, srvResult>>

CompleteSendAlwaysPriv ==
  /\ cpc = "ran"
  /\ cpc' = "awaitComplete"
  /\ req' = [kind |-> "complete", status |-> IF workFailed THEN "Error" ELSE "Success",
             priv |-> pluginData]
  /\ UNCHANGED <<conn, finished, data, pluginData, workFailed, retErr, rep, wfDone, srvPlugin, srvResult>>

\* Send PluginComplete: Result_Error without plugin data when err != nil,
\* else Result_Success with the marshalled plugin data (if any).  The
\* shared data is never sent back.
CompleteSend ==
  /\ cpc = "ran"
  /\ cpc' = "awaitComplete"
  /\ req' = IF workFailed
              THEN [kind |-> "complete", status |-> "Error", priv |-> None]
              ELSE [kind |-> "complete", status |-> "Success", priv |-> pluginData]
  /\ UNCHANGED <<conn, finished, data, pluginData, workFailed, retErr, rep, wfDone, srvPlugin, srvResult>>

\* The ack arrives: return nil; the deferred Close runs.
CompleteReply ==
  /\ cpc = "awaitComplete" /\ rep # None /\ rep.kind = "complete"
  /\ rep' = None
  /\ cpc' = "completed" /\ retErr' = None
  /\ conn' = "closed"
  /\ UNCHANGED <<finished, data, pluginData, workFailed, req, wfDone, srvPlugin, srvResult>>

\* Mutant: the PluginComplete error is ignored and nil returned.
CompleteTimeoutReturnsNil(dropReq) ==
  /\ Timeouts /\ cpc = "awaitComplete"
  /\ cpc' = "completed" /\ retErr' = None
  /\ conn' = "closed"
  /\ req' = IF dropReq THEN None ELSE req
  /\ UNCHANGED <<finished, data, pluginData, workFailed, rep, wfDone, srvPlugin, srvResult>>

\* DEFAULT_TIMEOUT expires: return errPluginComplete; Close runs; the
\* request may still reach the server.
CompleteTimeout(dropReq) ==
  /\ Timeouts /\ cpc = "awaitComplete"
  /\ cpc' = "completeFailed" /\ retErr' = "errPluginComplete"
  /\ conn' = "closed"
  /\ req' = IF dropReq THEN None ELSE req
  /\ UNCHANGED <<finished, data, pluginData, workFailed, rep, wfDone, srvPlugin, srvResult>>

\* A reply for a call that has already returned is dropped.
DropLateReply ==
  /\ rep # None
  /\ cpc \notin {"awaitConnect", "awaitComplete"}
  /\ rep' = None
  /\ UNCHANGED <<cpc, conn, finished, data, pluginData, workFailed, retErr, req, wfDone, srvPlugin, srvResult>>

-----------------------------------------------------------------------------
(* The workflow server (modelled from the spec).                           *)

ServerConnect(status, priv) ==
  /\ req # None /\ req.kind = "connect"
  /\ req' = None
  /\ status \in IF wfDone THEN {"Completed"}
                ELSE {"Connected"} \cup (IF Skew THEN {"Unknown"} ELSE {})
  /\ rep' = [kind |-> "connect", status |-> status, data |-> Shared, priv |-> priv]
  /\ srvPlugin' = IF status = "Connected" THEN "running" ELSE srvPlugin
  /\ UNCHANGED <<cpc, conn, finished, data, pluginData, workFailed, retErr, wfDone, srvResult>>

ServerComplete ==
  /\ req # None /\ req.kind = "complete"
  /\ req' = None
  /\ rep' = [kind |-> "complete"]
  /\ srvPlugin' = "done"
  /\ srvResult' = [status |-> req.status, priv |-> req.priv]
  /\ UNCHANGED <<cpc, conn, finished, data, pluginData, workFailed, retErr, wfDone>>

-----------------------------------------------------------------------------
Client ==
  \/ \E e \in {"errTLSConfig", "errGrpcConnect"} : ConnectNoChannel(e)
  \/ ConnectDial
  \/ \E b \in BOOLEAN : ConnectTimeout(b) \/ CompleteTimeout(b) \/ RunPlugin(b)
  \/ \E okPriv, okData \in BOOLEAN : ConnectReply(okPriv, okData)
  \/ CompleteMarshalFails \/ CompleteSend \/ CompleteReply \/ DropLateReply

Server ==
  \/ \E st \in {"Completed", "Connected", "Unknown"}, pv \in {Priv, None} :
       ServerConnect(st, pv)
  \/ ServerComplete

Next == Client \/ Server

\* The server serves every request it receives and the runner's goroutine
\* keeps running; timeouts need no fairness.
Fairness ==
  /\ WF_vars(Server)
  /\ WF_vars(ConnectDial \/ \E b \in BOOLEAN : RunPlugin(b))
  /\ WF_vars(\E okPriv, okData \in BOOLEAN : ConnectReply(okPriv, okData))
  /\ WF_vars(CompleteMarshalFails \/ CompleteSend \/ CompleteReply \/ DropLateReply)

Spec == Init /\ [][Next]_vars /\ Fairness

-----------------------------------------------------------------------------
(* Properties.                                                             *)

Status == {"Completed", "Connected", "Unknown"}

TypeOK ==
  /\ cpc \in {"init", "awaitConnect", "connectFailed", "connected", "ran",
              "awaitComplete", "completed", "completeFailed"}
  /\ conn \in {"none", "open", "closed"}
  /\ finished \in BOOLEAN /\ workFailed \in BOOLEAN /\ wfDone \in BOOLEAN
  /\ data \in {Empty, Shared}
  /\ pluginData \in {None, Empty, Priv, Work}
  /\ req \in {None} \cup [kind : {"connect"}]
       \cup [kind : {"complete"}, status : {"Success", "Error"}, priv : {None, Empty, Priv, Work}]
  /\ rep \in {None} \cup [kind : {"complete"}]
       \cup [kind : {"connect"}, status : Status, data : {Shared}, priv : {Priv, None}]
  /\ srvPlugin \in {"idle", "running", "done"}
  /\ srvResult \in {None} \cup [status : {"Success", "Error"}, priv : {None, Empty, Priv, Work}]

\* Spec section 8: a Connect that returned nil left the session either
\* finished with nothing exchanged, or not finished with the shared data
\* populated from the server -- never both, never neither.
ConnectOutcomeExclusive ==
  cpc = "connected" =>
    IF finished THEN data = Empty /\ pluginData \in {Empty, None}
                ELSE data = Shared

\* What the server records is what the plugin did: an Error report for a
\* failed plugin, carrying no private data; a Success report carrying the
\* private data as the plugin left it (never partial state of a failed
\* run, never a stale copy).
ReportMatchesOutcome ==
  srvResult # None =>
    /\ (srvResult.status = "Error") = workFailed
    /\ srvResult.status = "Error" => srvResult.priv = None
    /\ srvResult.status = "Success" => srvResult.priv = pluginData

\* A server that registered the plugin and never learns its outcome is
\* left so only when the plugin's runner was told of an error: a
\* PluginConnect whose deadline expired after the server registered it, a
\* Connect reply that failed to unmarshal, a Complete whose marshal failed
\* before PluginComplete was sent, or whose deadline expired and whose
\* request was lost.  Complete never returns nil on a report the server
\* did not get.
StrandedOnlyAfterError ==
  <>[](srvPlugin = "running") => <>[](cpc \in {"connectFailed", "completeFailed"})

-----------------------------------------------------------------------------
(* Refinement of the session contract of spec section 4.1.                 *)

\* The client's position, seen from the contract.
PhaseOf(pc) ==
  CASE pc \in {"init", "awaitConnect"}  -> "idle"
    [] pc = "connected"                 -> "joined"
    [] pc \in {"ran", "awaitComplete"}  -> "worked"
    [] pc = "completed"                 -> "done"
    [] OTHER                            -> pc

Abs == INSTANCE AbstractSession WITH
         phase    <- PhaseOf(cpc),
         snapshot <- IF data = Shared THEN "shared" ELSE "none",
         failed   <- workFailed,
         record   <- IF srvResult = None THEN "none" ELSE srvResult.status

\* Connect, the plugin's work and Complete implement the contract of spec
\* section 4.1: Connect joins once (finished with nothing exchanged, or
\* with the shared snapshot) or fails; Complete returns nil only after
\* the server recorded the plugin's own outcome, even when a deadline
\* expires while the server acts; the server records at most once; and
\* every call of the session returns.
SessionRefinement == Abs!ASpec
==============================================================================
