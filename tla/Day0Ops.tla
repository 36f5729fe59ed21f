------------------------------- MODULE Day0Ops -------------------------------
(***************************************************************************)
(* The day-0 helpers of the executor (pkg/executor/helper.go):            *)
(* helperPushImage, helperCreateProjectOnHarbor, helperPushFile,           *)
(* helperPullFile, and the argument checks of helperCopyFromDay0 and       *)
(* helperCopyToDay0 (their stream bridge is PipeFanOut, here one outcome). *)
(* Each runs in the orchestrating                                          *)
(* process as a sequence of steps that can each fail; the external         *)
(* collaborators (GetAuthConf, MapImageURLCreateHarborProject,             *)
(* TagImageToLocal, ImagePush, PushFileToRepo, PullFileFromRepo) are       *)
(* steps with a nondeterministic outcome.  The command's arguments are     *)
(* abstracted to their number, whether the revision is empty and the     *)
(* shape of the destination directory; e.tempParams to whether its        *)
(* Ekconfig, Parameters, GlobalSettings and Customconfig are all set.     *)
(***************************************************************************)
EXTENDS Naturals, Sequences, SequencesExt

CONSTANTS
  Node, Day0,
  MaxArgs,     \* the largest argument count a caller passes
  Images,      \* length of the list MapImageURLCreateHarborProject returns
  NoErr, PolicyErr, CmdErr, TmplErr, ExtErr, CopyErr, ParmErr, Panic

ASSUME Day0 \in Node /\ MaxArgs \in Nat /\ Images \in Nat

Op == {"pushImage", "createProject", "pushFile", "pullFile", "copyFromDay0", "copyToDay0"}

\* cmd[1] of a copy: "", a directory ending in "/", or one that does not.
DirShape == {"empty", "slash", "noSlash"}

VARIABLES
  op,          \* the helper called
  targets,     \* the `nodes` argument
  nargs,       \* len(cmd)
  revEmpty,    \* cmd[2] == ""
  toDir,       \* the shape of cmd[1] for a copy
  cfgSet,      \* e.tempParams.Ekconfig.Parameters.{GlobalSettings,Customconfig} are non-nil
  tmplOK,      \* CmdOverrideWithNode(cmd, d0) succeeds
  pc,          \* the step the helper is at
  i,           \* index of the image being tagged/pushed
  pushed,      \* images pushed so far, in order
  calls,       \* history: external collaborators called, in order
  pulledRev,   \* the revision in the URL passed to PullFileFromRepo
  result       \* the returned error, or Panic

vars == <<op, targets, nargs, revEmpty, toDir, cfgSet, tmplOK, pc, i, pushed, calls,
          pulledRev, result>>

Init ==
  /\ op \in Op
  /\ targets \in SUBSET Node
  /\ nargs \in 0..MaxArgs
  /\ revEmpty \in BOOLEAN
  /\ toDir \in DirShape
  /\ cfgSet \in BOOLEAN
  /\ tmplOK \in BOOLEAN
  /\ pc = CASE op = "createProject" -> "cfgCheck"
            [] op \in {"copyFromDay0", "copyToDay0"} -> "copyCheck"
            [] OTHER -> "policy"
  /\ i = 1
  /\ pushed = <<>>
  /\ calls = <<>>
  /\ pulledRev = "none"
  /\ result = NoErr

Return(e) == pc' = "done" /\ result' = e
Call(c) == calls' = Append(calls, c)

Keep == <<op, targets, nargs, revEmpty, toDir, cfgSet, tmplOK>>

-----------------------------------------------------------------------------
(* The steps.                                                              *)

\* for _, n := range nodes { if n.ip != d0.ip { return errNoDay0 / ... } }
PolicyRejects ==
  /\ pc = "policy" /\ \E n \in targets : n # Day0
  /\ Return(PolicyErr)
  /\ UNCHANGED <<Keep, i, pushed, calls, pulledRev>>

PolicyAccepts ==
  /\ pc = "policy" /\ \A n \in targets : n = Day0
  /\ pc' = IF op = "pushImage" THEN "template" ELSE "validate"
  /\ UNCHANGED <<Keep, i, pushed, calls, pulledRev, result>>

\* push/pullFile: if len(cmd) == 0 { return err...InvalidCmd }
Validate ==
  /\ pc = "validate"
  /\ IF nargs = 0 THEN Return(CmdErr) ELSE pc' = "template" /\ UNCHANGED result
  /\ UNCHANGED <<Keep, i, pushed, calls, pulledRev>>

\* cmd, err := e.CmdOverrideWithNode(cmd, d0)
Template ==
  /\ pc = "template"
  /\ IF ~tmplOK THEN Return(TmplErr)
     ELSE pc' = (IF op = "pushImage" THEN "auth" ELSE "args") /\ UNCHANGED result
  /\ UNCHANGED <<Keep, i, pushed, calls, pulledRev>>

\* fileName := cmd[0]; subRef := cmd[1]; rev := cmd[2]: an index out of
\* range panics, as does helperPullFile reading GlobalSettings.ProviderIP
\* and RegistryPort through a nil pointer.  helperPullFile then defaults an empty rev to "0.0.0" in
\* the oci:// URL it builds.
Args ==
  /\ pc = "args"
  /\ IF nargs < 3 \/ (op = "pullFile" /\ ~cfgSet) THEN Return(Panic) /\ UNCHANGED pulledRev
     ELSE /\ pc' = "repo" /\ UNCHANGED result
          /\ pulledRev' = IF op = "pullFile"
                            THEN IF revEmpty THEN "0.0.0" ELSE "given"
                            ELSE pulledRev
  /\ UNCHANGED <<Keep, i, pushed, calls>>

\* docker.GetAuthConf(...GlobalSettings.ProviderIP, ...Customconfig.Registry.User,
\* ...): the arguments are read through e.tempParams with no nil check.
Auth(ok) ==
  /\ pc = "auth"
  /\ IF ~cfgSet THEN Return(Panic) /\ UNCHANGED calls
     ELSE /\ Call(<<"auth", 0>>)
          /\ IF ok THEN pc' = "mapImages" /\ UNCHANGED result ELSE Return(ExtErr)
  /\ UNCHANGED <<Keep, i, pushed, pulledRev>>

\* helperCreateProjectOnHarbor: a nil Ekconfig, Parameters, GlobalSettings
\* or Customconfig returns errEPParmEKcfg.
CheckEkcfg ==
  /\ pc = "cfgCheck"
  /\ IF cfgSet THEN pc' = "map" /\ UNCHANGED result ELSE Return(ParmErr)
  /\ UNCHANGED <<Keep, i, pushed, calls, pulledRev>>

\* helperCopyFromDay0 / helperCopyToDay0: log.Debugf reads cmd[0] and
\* cmd[1] (an index out of range panics), then toDir[len(toDir)-1] (an
\* empty toDir panics); a toDir not ending in "/" returns errCopy*Day0.
CopyCheck ==
  /\ pc = "copyCheck"
  /\ CASE nargs < 2 \/ toDir = "empty" -> Return(Panic)
       [] toDir = "noSlash"            -> Return(CopyErr)
       [] OTHER                        -> pc' = "pipe" /\ UNCHANGED result
  /\ UNCHANGED <<Keep, i, pushed, calls, pulledRev>>

\* return e.runPipeFrom / e.runPipeTo(...) with the day-0 node as the
\* source or sink: the outcome of the stream bridge PipeFanOut models.
Pipe(ok) ==
  /\ pc = "pipe"
  /\ Return(IF ok THEN NoErr ELSE ExtErr)
  /\ UNCHANGED <<Keep, i, pushed, calls, pulledRev>>

\* helperCreateProjectOnHarbor: restfulcli.MapImageURLCreateHarborProject(...)
\* creates the projects; its error, or nil, is returned.
Map(ok) ==
  /\ pc = "map" /\ Call(<<"map", 0>>)
  /\ Return(IF ok THEN NoErr ELSE ExtErr)
  /\ UNCHANGED <<Keep, i, pushed, pulledRev>>

\* Mutant: the error of MapImageURLCreateHarborProject is dropped and the
\* helper returns nil with no image pushed.
MapImagesSwallowingErr(ok) ==
  /\ pc = "mapImages" /\ Call(<<"map", 0>>)
  /\ IF ok THEN pc' = "tag" /\ UNCHANGED result ELSE Return(NoErr)
  /\ UNCHANGED <<Keep, i, pushed, pulledRev>>

\* helperPushImage: newImages, err = MapImageURLCreateHarborProject(...)
\* creates the projects and maps the images; an error returns.
MapImages(ok) ==
  /\ pc = "mapImages" /\ Call(<<"map", 0>>)
  /\ IF ok THEN pc' = "tag" /\ UNCHANGED result ELSE Return(ExtErr)
  /\ UNCHANGED <<Keep, i, pushed, pulledRev>>

\* for _, url := range newImages: TagImageToLocal, then ImagePush; the
\* first failure returns, leaving earlier images pushed.
\* Mutant: a failed retag skips the image instead of returning.
TagSkipping(ok) ==
  /\ pc = "tag" /\ i <= Images /\ Call(<<"tag", i>>)
  /\ IF ok THEN pc' = "push" /\ UNCHANGED i ELSE pc' = "tag" /\ i' = i + 1
  /\ UNCHANGED <<Keep, pushed, pulledRev, result>>

\* Mutant: the loop runs one index past the end of the list.
TagOffByOne(ok) ==
  /\ pc = "tag" /\ i <= Images + 1 /\ Call(<<"tag", i>>)
  /\ IF ok THEN pc' = "push" /\ UNCHANGED result ELSE Return(ExtErr)
  /\ UNCHANGED <<Keep, i, pushed, pulledRev>>

Tag(ok) ==
  /\ pc = "tag" /\ i <= Images /\ Call(<<"tag", i>>)
  /\ IF ok THEN pc' = "push" /\ UNCHANGED result ELSE Return(ExtErr)
  /\ UNCHANGED <<Keep, i, pushed, pulledRev>>

Push(ok) ==
  /\ pc = "push" /\ Call(<<"push", i>>)
  /\ IF ok THEN /\ pc' = "tag" /\ i' = i + 1 /\ pushed' = Append(pushed, i)
                /\ UNCHANGED result
           ELSE Return(ExtErr) /\ UNCHANGED <<i, pushed>>
  /\ UNCHANGED <<Keep, pulledRev>>

PushLoopEnd ==
  /\ pc = "tag" /\ i > Images
  /\ Return(NoErr)
  /\ UNCHANGED <<Keep, i, pushed, calls, pulledRev>>

\* repoutils.PushFileToRepo / PullFileFromRepo
Repo(ok) ==
  /\ pc = "repo" /\ Call(<<"repo", 0>>)
  /\ Return(IF ok THEN NoErr ELSE ExtErr)
  /\ UNCHANGED <<Keep, i, pushed, pulledRev>>

Next ==
  \/ PolicyRejects \/ PolicyAccepts \/ Validate \/ Template \/ Args \/ PushLoopEnd
  \/ CheckEkcfg \/ CopyCheck
  \/ \E ok \in BOOLEAN : Auth(ok) \/ Map(ok) \/ MapImages(ok) \/ Tag(ok) \/ Push(ok) \/ Repo(ok) \/ Pipe(ok)

Spec == Init /\ [][Next]_vars /\ WF_vars(Next)

-----------------------------------------------------------------------------
(* Properties.                                                             *)

Step == {"policy", "validate", "template", "args", "auth", "map", "mapImages", "tag", "push", "repo",
         "cfgCheck", "copyCheck", "pipe", "done"}
CallName == {"auth", "map", "tag", "push", "repo"}

TypeOK ==
  /\ op \in Op /\ targets \subseteq Node /\ nargs \in 0..MaxArgs
  /\ revEmpty \in BOOLEAN /\ toDir \in DirShape /\ cfgSet \in BOOLEAN /\ tmplOK \in BOOLEAN
  /\ pc \in Step /\ i \in 1..Images + 1
  /\ pushed \in Seq(1..Images)
  /\ \A k \in DOMAIN calls : calls[k] \in CallName \X (0..Images)
  /\ pulledRev \in {"none", "0.0.0", "given"}
  /\ result \in {NoErr, PolicyErr, CmdErr, TmplErr, ExtErr, CopyErr, ParmErr, Panic}

Position(c) == CHOOSE k \in DOMAIN calls : calls[k] = c

\* helperPushImage pushes the mapped images in order, each only after it
\* was retagged to the local registry, and returns nil exactly when it
\* pushed them all: a failure part-way returns an error, leaving a proper
\* prefix of the list pushed.
PushedInOrderAfterTag ==
  op = "pushImage" /\ pc = "done" =>
    /\ pushed = [k \in 1..Len(pushed) |-> k]
    /\ \A k \in 1..Len(pushed) : Position(<<"tag", k>>) < Position(<<"push", k>>)
    /\ (result = NoErr) = (Len(pushed) = Images)

\* The external calls a helper makes on its way to returning nil: the
\* registry auth, the project/image mapping and a retag then a push of
\* every mapped image for pushImage; the mapping for createProject; the
\* repository call for push/pullFile; none for the copies, whose streams
\* are PipeFanOut's.
SuccessCalls ==
  CASE op = "pushImage"     -> <<<<"auth", 0>>, <<"map", 0>>>>
                               \o FlattenSeq([k \in 1..Images |-> <<<<"tag", k>>, <<"push", k>>>>])
    [] op = "createProject" -> <<<<"map", 0>>>>
    [] op \in {"pushFile", "pullFile"} -> <<<<"repo", 0>>>>
    [] OTHER                -> <<>>

\* A helper returns nil only after every external step it owes its caller
\* ran, once and in order: no error of the auth, mapping, retag, push or
\* repository call is lost on the way to a nil return, and no step is
\* skipped, whatever the arguments, the configuration and the outcome of
\* earlier calls.
SuccessMeansAllCallsMade ==
  pc = "done" /\ result = NoErr => calls = SuccessCalls

\* Spec section 4.5 / 7: push/pull file validate that the command has its
\* file path, content reference and revision before using them, so a
\* malformed command is an error, never a crash; section 4.4: a copy
\* whose destination does not end in a separator is rejected, before any
\* node is touched, with an error.
NoPanic == result # Panic
==============================================================================
