---------------------------- MODULE ProviderPlugins ----------------------------
(***************************************************************************)
(* The PluginMain of three provider plugins (pkg/epplugins/): rke-parser   *)
(* finds the "rke" provider in the cluster manifest and its "rketool"     *)
(* binary, reads the RKE cluster config and outputs its system images and *)
(* the binary; kind-remover pulls the kind binary named by its first      *)
(* input file, makes it executable and deletes the cluster;               *)
(* capi-host-provision selects the one infrastructure provider its        *)
(* extensions name, then loads the cluster config, checks the CAPI         *)
(* setting, renders the template, creates the workload namespace and      *)
(* provisions the hosts for metal3 or byoh.  One run of the model is one   *)
(* call of one plugin.  The manifest lookups are ClusterManifest's.       *)
(*                                                                         *)
(* Inputs are abstracted: a manifest provider to its Name and its list of *)
(* binaries, a binary to its Name and <<URL, Sha256>> value, the RKE       *)
(* config to the set of its system image keys, the kind input to the      *)
(* number of files.  Every external call may fail.                         *)
(***************************************************************************)
EXTENDS Naturals, Sequences, SequencesExt, FiniteSets

CONSTANTS
  Rke, RkeTool, Other,  \* names in the cluster manifest
  Bins,                 \* binary <<URL, Sha256>> values
  MaxEntries,           \* longest manifest list
  SystemImages,         \* keys the RKE config's system_images may hold
  MaxFiles,             \* most input files of kind-remover
  InfraProviderList,    \* capiutils.InfraProviderList
  Metal3, Byoh,         \* capiutils.CAPI_METAL3, capiutils.CAPI_BYOH
  Extension,            \* names Parameters.Extensions may hold
  MaxExt,               \* longest extension list
  NoErr, NotFound, ExtErr

CM == INSTANCE ClusterManifest

Binary == [Name : {RkeTool, Other}, val : Bins]
Provider == [Name : {Rke, Other}, val : BoundedSeq(Binary, MaxEntries)]

VARIABLES
  plugin,     \* "rke" | "kind" | "capi": the PluginMain called
  manifest,   \* input_cluster_manifest: the cluster providers
  sysImages,  \* the keys of the RKE config's system_images map
  nfiles,     \* len(input_files.Files)
  exts,       \* Ekconfig.Parameters.Extensions
  pc,         \* the step of PluginMain
  bin,        \* rke: the rketool binary found
  sel,        \* capi: the provider selected
  images,     \* rke: output_docker_images.Images, by key
  files,      \* rke: output_files.Files, by binary value
  calls,      \* history: external effects, in order
  result      \* the returned error

vars == <<plugin, manifest, sysImages, nfiles, exts, pc, bin, sel, images, files, calls, result>>

Init ==
  /\ pc = "start" /\ bin = NotFound /\ sel = NotFound
  /\ images = <<>> /\ files = <<>> /\ calls = <<>> /\ result = NoErr
  /\ \/ /\ plugin = "rke" /\ manifest \in BoundedSeq(Provider, MaxEntries)
        /\ sysImages \in SUBSET SystemImages /\ nfiles = 0 /\ exts = <<>>
     \/ /\ plugin = "kind" /\ nfiles \in 0..MaxFiles
        /\ manifest = <<>> /\ sysImages = {} /\ exts = <<>>
     \/ /\ plugin = "capi" /\ exts \in BoundedSeq(Extension, MaxExt)
        /\ manifest = <<>> /\ sysImages = {} /\ nfiles = 0

Return(e) == pc' = "done" /\ result' = e

-----------------------------------------------------------------------------
(* rke-parser                                                              *)

\* GetClusterManifest(manifest, "rke"), then
\* GetBinaryFromProvider(provider, "rketool"); each error is returned.
RkeFindBinary ==
  /\ plugin = "rke" /\ pc = "start"
  /\ LET p == CM!GetClusterManifest(manifest, Rke)
         b == IF p = NotFound THEN NotFound ELSE CM!GetBinaryFromProvider(p, RkeTool) IN
     CASE p = NotFound -> Return("errManifest") /\ UNCHANGED bin
       [] b = NotFound -> Return("errBinary") /\ UNCHANGED bin
       [] OTHER        -> bin' = b /\ pc' = "load" /\ UNCHANGED result
  /\ UNCHANGED <<plugin, manifest, sysImages, nfiles, exts, sel, images, files, calls>>

\* LoadJsonFile(Cluster.Config) fails: errLoadJson; viper.ReadConfig
\* fails: errConfViper; else one image per key of system_images, in the
\* map's iteration order (unspecified in Go), and the rke binary as the
\* only output file; return nil.
RkeOutput(okJson, okViper, order) ==
  /\ plugin = "rke" /\ pc = "load"
  /\ CASE ~okJson  -> Return("errLoadJson") /\ UNCHANGED <<images, files>>
       [] ~okViper -> Return("errConfViper") /\ UNCHANGED <<images, files>>
       [] OTHER    -> /\ order \in SetToSeqs(sysImages)
                      /\ images' = order /\ files' = <<bin>>
                      /\ Return(NoErr)
  /\ UNCHANGED <<plugin, manifest, sysImages, nfiles, exts, bin, sel, calls>>

-----------------------------------------------------------------------------
(* kind-remover                                                            *)

\* Mutant: Files[0] is read without the length check (index out of range).
KindPullNoCheck(ok) ==
  /\ plugin = "kind" /\ pc = "start"
  /\ IF nfiles = 0 THEN Return("indexOutOfRange") /\ UNCHANGED calls
     ELSE /\ calls' = Append(calls, "pull")
          /\ IF ok THEN pc' = "chmod" /\ UNCHANGED result ELSE Return(ExtErr)
  /\ UNCHANGED <<plugin, manifest, sysImages, nfiles, exts, bin, sel, images, files>>

\* No input file: errFileInvalid; else PullFileFromRepo(kindbin,
\* Files[0].Mirrorurl), whose error is returned.
KindPull(ok) ==
  /\ plugin = "kind" /\ pc = "start"
  /\ IF nfiles = 0 THEN Return("errFileInvalid") /\ UNCHANGED calls
     ELSE /\ calls' = Append(calls, "pull")
          /\ IF ok THEN pc' = "chmod" /\ UNCHANGED result ELSE Return(ExtErr)
  /\ UNCHANGED <<plugin, manifest, sysImages, nfiles, exts, bin, sel, images, files>>

\* os.Chmod(kindbin, 0700), then RunCMDEx("kind delete cluster").
KindStep(ok) ==
  /\ plugin = "kind" /\ pc \in {"chmod", "delete"}
  /\ calls' = Append(calls, pc)
  /\ IF ok THEN IF pc = "chmod" THEN pc' = "delete" /\ UNCHANGED result ELSE Return(NoErr)
           ELSE Return(ExtErr)
  /\ UNCHANGED <<plugin, manifest, sysImages, nfiles, exts, bin, sel, images, files>>

-----------------------------------------------------------------------------
(* capi-host-provision                                                     *)

\* The nested range loops: for every extension, every entry of
\* InfraProviderList equal to it, in that order (duplicates kept).
Providers(es) ==
  FlattenSeq([k \in DOMAIN es |-> SelectSeq(InfraProviderList, LAMBDA i : i = es[k])])

\* Mutant: the first match is taken without the length check.
CapiSelectFirst ==
  /\ plugin = "capi" /\ pc = "start"
  /\ IF Providers(exts) = <<>> THEN Return("errSelectProvider") /\ UNCHANGED sel
     ELSE sel' = Head(Providers(exts)) /\ pc' = "capiLoad" /\ UNCHANGED result
  /\ UNCHANGED <<plugin, manifest, sysImages, nfiles, exts, bin, images, files, calls>>

\* len(providers) != 1: errSelectProvider; else provider = providers[0].
CapiSelect ==
  /\ plugin = "capi" /\ pc = "start"
  /\ IF Len(Providers(exts)) # 1 THEN Return("errSelectProvider") /\ UNCHANGED sel
     ELSE sel' = Head(Providers(exts)) /\ pc' = "capiLoad" /\ UNCHANGED result
  /\ UNCHANGED <<plugin, manifest, sysImages, nfiles, exts, bin, images, files, calls>>

CapiNextStep == [capiLoad |-> "capiCheck", capiCheck |-> "capiTemplate",
                 capiTemplate |-> "capiNamespace", capiNamespace |-> "capiProvision"]

\* LoadSchemaStructFromYamlFile(Cluster.Config), GetCapiSetting then
\* CheckCapiSetting, GetCapiTemplate, CreateNamespace: each error is
\* returned.
CapiCall(ok) ==
  /\ plugin = "capi" /\ pc \in DOMAIN CapiNextStep
  /\ calls' = Append(calls, pc)
  /\ IF ok THEN pc' = CapiNextStep[pc] /\ UNCHANGED result ELSE Return(ExtErr)
  /\ UNCHANGED <<plugin, manifest, sysImages, nfiles, exts, bin, sel, images, files>>

\* metal3HostProvision or byohHostProvision for that provider; any other
\* provider returns nil with nothing provisioned.
CapiProvision(ok) ==
  /\ plugin = "capi" /\ pc = "capiProvision"
  /\ IF sel \in {Metal3, Byoh}
       THEN calls' = Append(calls, "provision") /\ Return(IF ok THEN NoErr ELSE ExtErr)
       ELSE Return(NoErr) /\ UNCHANGED calls
  /\ UNCHANGED <<plugin, manifest, sysImages, nfiles, exts, bin, sel, images, files>>

-----------------------------------------------------------------------------
Next ==
  \/ RkeFindBinary \/ CapiSelect
  \/ \E ok \in BOOLEAN : KindPull(ok) \/ KindStep(ok) \/ CapiCall(ok) \/ CapiProvision(ok)
  \/ \E okJson, okViper \in BOOLEAN, order \in SetToSeqs(sysImages) :
       RkeOutput(okJson, okViper, order)

Spec == Init /\ [][Next]_vars

-----------------------------------------------------------------------------
(* Properties.                                                             *)

TypeOK ==
  /\ plugin \in {"rke", "kind", "capi"}
  /\ pc \in {"start", "load", "chmod", "delete", "done"} \cup DOMAIN CapiNextStep
            \cup {"capiProvision"}
  /\ bin \in Bins \cup {NotFound}
  /\ sel \in Extension \cup {NotFound}
  /\ images \in BoundedSeq(SystemImages, Cardinality(SystemImages))
  /\ files \in BoundedSeq(Bins, 1)
  /\ result \in {NoErr, ExtErr, "errManifest", "errBinary", "errLoadJson", "errConfViper",
                 "errFileInvalid", "errSelectProvider"}

\* capi-host-provision calls out (config load, checks, namespace,
\* provisioning) only when its extensions name exactly one infrastructure
\* provider, and then works for that one: extensions naming metal3 and
\* byoh together are rejected before any external call.
ProvisionsOnlyUnambiguous ==
  plugin = "capi" /\ calls # <<>> =>
    /\ {exts[k] : k \in DOMAIN exts} \cap ToSet(InfraProviderList) = {sel}
==============================================================================
