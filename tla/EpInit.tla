-------------------------------- MODULE EpInit --------------------------------
(***************************************************************************)
(* The `ep init` command (cmd/ep/app/init.go).  The package's init()      *)
(* registers the command and fills the user defaults (init_usercfg) unless *)
(* setting up the workspace or its log directory fails.  ep_init then     *)
(* loads the top config and fills the sections it lacks (init_ek_config), *)
(* checks that every file the config names exists and validates it        *)
(* (pre_check), generates the workflow and registry certificates, prepares *)
(* the runtime parameters, pre-initialises the workflow, defers its tear- *)
(* down, starts the "init" workflow and copies the registry CA.           *)
(*                                                                         *)
(* A config is abstracted to what decides control: whether the file has   *)
(* cluster manifests, an OS provider, OS manifests, a Parameters section  *)
(* and, in it, GlobalSettings.  A file is a model value of FileKind; the  *)
(* files that do not exist are an input.  Every external call (loading,   *)
(* Validate, certificates, the workflow calls) may fail.                  *)
(***************************************************************************)
EXTENDS Sequences, SequencesExt

CONSTANTS NoErr, ErrLoad, ErrCustomCfg, ErrParameter, ErrNotExist, ExtErr

FileKind == {"top", "clusterManifest", "osManifest", "defaultCluster", "defaultOS"}

\* What the top config file holds.
FileShape == [clusterM : BOOLEAN, osProvider : BOOLEAN, osM : BOOLEAN,
              params : BOOLEAN, global : BOOLEAN]

VARIABLES
  pc,        \* "init" | "load" | "check" | "cert1" | "cert2" | "runtime" | "preinit"
             \* | "start" | "copyca" | "teardown" | "done" | "panic" | "noCommand"
  missing,   \* the files that do not exist on disk (input)
  ekcfg,     \* the config after init_ek_config: the files it names, GlobalSettings set
  deferred,  \* the deferred EpWfTearDown is registered
  calls,     \* history: the external effects, in order
  result     \* the error ep_init returned

vars == <<pc, missing, ekcfg, deferred, calls, result>>

Init ==
  /\ pc = "init"
  /\ missing \in SUBSET FileKind
  /\ ekcfg = [files |-> {}, global |-> FALSE]
  /\ deferred = FALSE
  /\ calls = <<>>
  /\ result = NoErr

\* Return from ep_init; the deferred teardown runs first if registered.
Return(e) ==
  /\ result' = e
  /\ pc' = IF deferred THEN "teardown" ELSE "done"

-----------------------------------------------------------------------------
\* init(): Utils_Init or MakeDir(logdir) failing returns before
\* rootCmd.AddCommand(initCmd), so there is no `init` command; otherwise
\* init_usercfg gives usercfg empty Cluster, OS, Components and a
\* Parameters with an empty GlobalSettings and no Customconfig.
ProcessInit(ok) ==
  /\ pc = "init"
  /\ pc' = IF ok THEN "load" ELSE "noCommand"
  /\ UNCHANGED <<missing, ekcfg, deferred, calls, result>>

\* The files the config names after defaulting: the cluster manifests, or
\* DefaultClusterManifests when there are none; the OS manifests, or
\* DefaultOSManifests when a provider is set and there are none.
Named(f) ==
  {"top"}
  \cup (IF f.clusterM THEN {"clusterManifest"} ELSE {"defaultCluster"})
  \cup (IF f.osM THEN {"osManifest"} ELSE {})
  \cup (IF f.osProvider /\ ~f.osM THEN {"defaultOS"} ELSE {})

\* usercfg after init_usercfg: Parameters and its GlobalSettings are set,
\* Customconfig is not (no flag or code ever sets it).
UserCfg == [params |-> TRUE, global |-> TRUE, customconfig |-> FALSE]

\* init_ek_config: load_ek_config fails (always when the file is missing);
\* a section the file lacks is taken from usercfg.  Without Parameters in
\* the file, usercfg.Parameters is used if set: errCustomCfg when it has
\* no Customconfig, else its GlobalSettings; errParameter when unset.
InitEkConfig(f, loads) ==
  /\ pc = "load"
  /\ \/ /\ ~loads \/ "top" \in missing
        /\ Return(ErrLoad) /\ UNCHANGED ekcfg
     \/ /\ loads /\ "top" \notin missing
        /\ CASE f.params ->
                  /\ ekcfg' = [files |-> Named(f), global |-> f.global]
                  /\ pc' = "check" /\ UNCHANGED result
             [] UserCfg.params /\ ~UserCfg.customconfig ->
                  Return(ErrCustomCfg) /\ UNCHANGED ekcfg
             [] UserCfg.params ->
                  /\ ekcfg' = [files |-> Named(f), global |-> UserCfg.global]
                  /\ pc' = "check" /\ UNCHANGED result
             [] OTHER -> Return(ErrParameter) /\ UNCHANGED ekcfg
  /\ UNCHANGED <<missing, deferred, calls>>

\* Mutant: the files are listed from the file as loaded, before the
\* default manifests are filled in.
PreCheckBeforeDefaults(valid) ==
  /\ pc = "check"
  /\ IF \E x \in ekcfg.files \ {"defaultCluster", "defaultOS"} : x \in missing
       THEN Return(ErrNotExist)
       ELSE IF valid THEN pc' = "cert1" /\ UNCHANGED result ELSE Return(ExtErr)
  /\ UNCHANGED <<missing, ekcfg, deferred, calls>>

\* Mutant: the error of check_docker_configs is returned, not logged.
PreCheckDockerErr(valid) ==
  /\ pc = "check"
  /\ IF \E x \in ekcfg.files : x \in missing
       THEN Return(ErrNotExist)
       ELSE IF valid THEN \/ pc' = "cert1" /\ UNCHANGED result
                          \/ Return("errHome")
                     ELSE Return(ExtErr)
  /\ UNCHANGED <<missing, ekcfg, deferred, calls>>

\* pre_check: check_init_cmd stats every non-empty file the config names
\* and returns the first IsNotExist error, then ekcfg.Validate; the error
\* of check_docker_configs is only logged.
PreCheck(valid) ==
  /\ pc = "check"
  /\ IF \E x \in ekcfg.files : x \in missing
       THEN Return(ErrNotExist)
       ELSE IF valid THEN pc' = "cert1" /\ UNCHANGED result ELSE Return(ExtErr)
  /\ UNCHANGED <<missing, ekcfg, deferred, calls>>

\* GenCertAndConfig(initcerts | registrycerts, ...GlobalSettings.ProviderIP):
\* a nil GlobalSettings is dereferenced.
GenCert(ok) ==
  /\ pc \in {"cert1", "cert2"}
  /\ IF ~ekcfg.global
       THEN pc' = "panic" /\ UNCHANGED <<calls, result>>
       ELSE /\ calls' = Append(calls, "cert")
            /\ IF ok THEN /\ pc' = (IF pc = "cert1" THEN "cert2" ELSE "runtime")
                          /\ UNCHANGED result
                     ELSE Return(ExtErr)
  /\ UNCHANGED <<missing, ekcfg, deferred>>

\* InitEpParams, then FileNameofRuntime(fnRuntimeInitParams).
Runtime(ok) ==
  /\ pc = "runtime"
  /\ IF ok THEN pc' = "preinit" /\ UNCHANGED result ELSE Return(ExtErr)
  /\ UNCHANGED <<missing, ekcfg, deferred, calls>>

\* Mutant: the teardown is deferred before the error of EpWfPreInit is
\* checked.
PreInitDeferFirst(ok) ==
  /\ pc = "preinit"
  /\ calls' = Append(calls, "preinit")
  /\ deferred' = TRUE
  /\ IF ok THEN pc' = "start" /\ UNCHANGED result
           ELSE result' = ExtErr /\ pc' = "teardown"
  /\ UNCHANGED <<missing, ekcfg>>

\* EpWfPreInit; on success `defer EpWfTearDown(...)`.
PreInit(ok) ==
  /\ pc = "preinit"
  /\ calls' = Append(calls, "preinit")
  /\ IF ok THEN pc' = "start" /\ deferred' = TRUE /\ UNCHANGED result
           ELSE Return(ExtErr) /\ UNCHANGED deferred
  /\ UNCHANGED <<missing, ekcfg>>

\* EpWfStart(epparams, "init").
Start(ok) ==
  /\ pc = "start"
  /\ calls' = Append(calls, "start")
  /\ IF ok THEN pc' = "copyca" /\ UNCHANGED result ELSE Return(ExtErr)
  /\ UNCHANGED <<missing, ekcfg, deferred>>

\* copyCaRuntimeDataDir(registry, ...); then `return nil`.
CopyCA(ok) ==
  /\ pc = "copyca"
  /\ calls' = Append(calls, "copyca")
  /\ Return(IF ok THEN NoErr ELSE ExtErr)
  /\ UNCHANGED <<missing, ekcfg, deferred>>

\* The deferred EpWfTearDown: its error is assigned to a new `err` in the
\* closure and only logged, so the result of ep_init stays as it was.
Teardown ==
  /\ pc = "teardown"
  /\ calls' = Append(calls, "teardown")
  /\ pc' = "done"
  /\ UNCHANGED <<missing, ekcfg, deferred, result>>

Next ==
  \/ \E ok \in BOOLEAN :
       \/ ProcessInit(ok) \/ PreCheck(ok) \/ GenCert(ok) \/ Runtime(ok)
       \/ PreInit(ok) \/ Start(ok) \/ CopyCA(ok)
  \/ Teardown
  \/ \E f \in FileShape, loads \in BOOLEAN : InitEkConfig(f, loads)

Spec == Init /\ [][Next]_vars /\ WF_vars(Next)

-----------------------------------------------------------------------------
(* Properties.                                                             *)

Step == {"cert", "preinit", "start", "copyca", "teardown"}

TypeOK ==
  /\ pc \in {"init", "load", "check", "cert1", "cert2", "runtime", "preinit", "start",
             "copyca", "teardown", "done", "panic", "noCommand"}
  /\ missing \subseteq FileKind
  /\ ekcfg \in [files : SUBSET FileKind, global : BOOLEAN]
  /\ deferred \in BOOLEAN
  /\ calls \in BoundedSeq(Step, 6)
  /\ result \in {NoErr, ErrLoad, ErrCustomCfg, ErrParameter, ErrNotExist, ExtErr}

\* ep_init returns nil only when the init workflow really ran over an
\* existing configuration: every file the config names once defaults are
\* filled in (DefaultClusterManifests, DefaultOSManifests) exists, both
\* certificates were generated, the workflow was pre-initialised,
\* started, the CA copied, and then torn down.
SuccessMeansInitialised ==
  pc = "done" /\ result = NoErr =>
    /\ ekcfg.files \cap missing = {}
    /\ calls = <<"cert", "cert", "preinit", "start", "copyca", "teardown">>

\* The deferred EpWfTearDown runs exactly when EpWfPreInit succeeded
\* (which is when EpWfStart was called), once, and as the last step:
\* a failed pre-initialisation is never torn down, a failed start or CA
\* copy always is.
TeardownIffPreInit ==
  pc = "done" =>
    /\ Contains(calls, "teardown") = Contains(calls, "start")
    /\ \A i \in DOMAIN calls : calls[i] = "teardown" => i = Len(calls)
==============================================================================
