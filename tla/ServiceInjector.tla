---------------------------- MODULE ServiceInjector ----------------------------
(***************************************************************************)
(* The service-injector plugin (pkg/epplugins/service-injector/main.go).   *)
(* PluginMain checks the registry address, resolves registry auth, then    *)
(* walks the service list: the URL and the chart override of each service  *)
(* are replaced by their mirror from the download list, every image whose  *)
(* name has a "/" after its first character is retagged to the local      *)
(* registry, and the service is appended to the output.  The components    *)
(* are pointers, so the rewriting is done in place on the input list and   *)
(* the output holds the same services: svc is that list and out the        *)
(* indices appended to the output.                                         *)
(* A URL is a model value; an image is abstracted to "remote" (to retag),  *)
(* "plain" (left alone) or "local" (retagged).                             *)
(***************************************************************************)
EXTENDS Naturals, Sequences, SequencesExt

CONSTANTS
  URLs,         \* URLs a service or chart override may name
  Files,        \* the download list: a sequence of [URL, Mirrorurl]
  NoChart,      \* len(service.Chartoverride) == 0
  MaxServices,  \* longest service list
  MaxImages,    \* longest image list of a service
  NoErr, ErrNoServerPort, ExtErr

Type == {"repo", "dce", "helm"}
Image == {"remote", "plain", "local"}
Mirrors == {Files[i].Mirrorurl : i \in DOMAIN Files}
Service == [type : Type, url : URLs \cup Mirrors,
            chart : URLs \cup Mirrors \cup {NoChart},
            images : UNION {[1..m -> Image] : m \in 0..MaxImages}]
\* The services a caller can pass: nothing is rewritten yet.
InputService == {s \in Service : s.url \in URLs /\ s.chart \notin Mirrors
                                 /\ \A j \in DOMAIN s.images : s.images[j] # "local"}

VARIABLES
  serverSet,   \* ProviderIP and RegistryPort are both non-empty
  svc,         \* input_serviceconfig.Components, rewritten in place
  out,         \* output_serviceconfig.Components, as indices into svc
  pc,          \* "check" | "auth" | "loop" | "url" | "chart" | "images" | "done"
  k,           \* the service the range loop is at
  j,           \* the image the inner range loop is at
  result       \* the returned error

vars == <<serverSet, svc, out, pc, k, j, result>>

\* getFileFromList: the first file of the list with this URL, or none.
GetFileFromList(url) ==
  LET i == SelectInSeq(Files, LAMBDA f : f.URL = url)
  IN IF i = 0 THEN [found |-> FALSE] ELSE [found |-> TRUE, mirror |-> Files[i].Mirrorurl]

Injected(s) == s.type \notin {"repo", "dce"}

Init ==
  /\ serverSet \in BOOLEAN
  /\ svc \in UNION {[1..m -> InputService] : m \in 0..MaxServices}
  /\ out = <<>>
  /\ pc = "check"
  /\ k = 1 /\ j = 1
  /\ result = NoErr

Return(e) == pc' = "done" /\ result' = e

-----------------------------------------------------------------------------
\* ProviderIP == "" || RegistryPort == "": return errNoServerPort.
CheckServer ==
  /\ pc = "check"
  /\ IF serverSet THEN pc' = "auth" /\ UNCHANGED result ELSE Return(ErrNoServerPort)
  /\ UNCHANGED <<serverSet, svc, out, k, j>>

\* docker.GetAuthConf(...); an error is returned.
Auth(ok) ==
  /\ pc = "auth"
  /\ IF ok THEN pc' = "loop" /\ UNCHANGED result ELSE Return(ExtErr)
  /\ UNCHANGED <<serverSet, svc, out, k, j>>

\* for _, service := range Components: the loop ends and nil is returned.
LoopEnd ==
  /\ pc = "loop" /\ k > Len(svc)
  /\ Return(NoErr)
  /\ UNCHANGED <<serverSet, svc, out, k, j>>

LoopNext ==
  /\ pc = "loop" /\ k <= Len(svc)
  /\ pc' = "url"
  /\ UNCHANGED <<serverSet, svc, out, k, j, result>>

\* Mutant: the URL of a "repo" or "dce" service is looked up as well.
ResolveURLAnyType ==
  /\ pc = "url"
  /\ LET f == GetFileFromList(svc[k].url) IN
     IF ~f.found
       THEN pc' = "loop" /\ k' = k + 1 /\ UNCHANGED svc
       ELSE /\ pc' = "chart" /\ UNCHANGED k
            /\ svc' = IF Injected(svc[k]) THEN [svc EXCEPT ![k].url = f.mirror] ELSE svc
  /\ UNCHANGED <<serverSet, out, j, result>>

\* Neither "repo" nor "dce": a URL not in the download list skips the
\* service (continue); otherwise service.URL becomes the mirror.
ResolveURL ==
  /\ pc = "url"
  /\ LET f == GetFileFromList(svc[k].url) IN
     IF Injected(svc[k]) /\ ~f.found
       THEN pc' = "loop" /\ k' = k + 1 /\ UNCHANGED svc
       ELSE /\ pc' = "chart" /\ UNCHANGED k
            /\ svc' = IF Injected(svc[k]) THEN [svc EXCEPT ![k].url = f.mirror] ELSE svc
  /\ UNCHANGED <<serverSet, out, j, result>>

\* A chart override of a service that is neither "repo" nor "dce": when it
\* is not in the download list the loop stops (break) and nil is returned;
\* otherwise service.Chartoverride becomes the mirror.
ResolveChart ==
  /\ pc = "chart"
  /\ LET f == GetFileFromList(svc[k].chart)
         rewrite == Injected(svc[k]) /\ svc[k].chart # NoChart IN
     IF rewrite /\ ~f.found
       THEN Return(NoErr) /\ UNCHANGED <<svc, j>>
       ELSE /\ pc' = "images" /\ j' = 1 /\ UNCHANGED result
            /\ svc' = IF rewrite THEN [svc EXCEPT ![k].chart = f.mirror] ELSE svc
  /\ UNCHANGED <<serverSet, out, k>>

\* Mutant: the new tag is not stored back into service.Images.
TagImageNotStored(ok) ==
  /\ pc = "images" /\ j <= Len(svc[k].images) /\ svc[k].images[j] = "remote"
  /\ IF ok THEN j' = j + 1 /\ UNCHANGED <<svc, pc, result>>
           ELSE Return(ExtErr) /\ UNCHANGED <<svc, j>>
  /\ UNCHANGED <<serverSet, out, k>>

\* strings.Index(wanted_image, "/") > 0: TagImageToLocal; an error is
\* returned, else service.Images[i] = newTag.
TagImage(ok) ==
  /\ pc = "images" /\ j <= Len(svc[k].images) /\ svc[k].images[j] = "remote"
  /\ IF ok THEN svc' = [svc EXCEPT ![k].images[j] = "local"] /\ j' = j + 1 /\ UNCHANGED <<pc, result>>
           ELSE Return(ExtErr) /\ UNCHANGED <<svc, j>>
  /\ UNCHANGED <<serverSet, out, k>>

\* An image without a "/" after its first character is left as it is.
KeepImage ==
  /\ pc = "images" /\ j <= Len(svc[k].images) /\ svc[k].images[j] # "remote"
  /\ j' = j + 1
  /\ UNCHANGED <<serverSet, svc, out, pc, k, result>>

\* Mutant: the next element of the list is appended instead.
AppendServiceNextIndex ==
  /\ pc = "images" /\ j > Len(svc[k].images)
  /\ out' = Append(out, k + 1)
  /\ pc' = "loop" /\ k' = k + 1
  /\ UNCHANGED <<serverSet, svc, j, result>>

\* output_serviceconfig.Components = append(..., service)
AppendService ==
  /\ pc = "images" /\ j > Len(svc[k].images)
  /\ out' = Append(out, k)
  /\ pc' = "loop" /\ k' = k + 1
  /\ UNCHANGED <<serverSet, svc, j, result>>

Next ==
  \/ CheckServer \/ LoopEnd \/ LoopNext \/ ResolveURL \/ ResolveChart
  \/ KeepImage \/ AppendService
  \/ \E ok \in BOOLEAN : Auth(ok) \/ TagImage(ok)

Spec == Init /\ [][Next]_vars /\ WF_vars(Next)

-----------------------------------------------------------------------------
(* Properties.                                                             *)

\* A service getFileFromList cannot resolve: its URL, or its chart override.
Unavailable(s) ==
  /\ Injected(s)
  /\ \/ ~GetFileFromList(s.url).found
     \/ s.chart # NoChart /\ ~GetFileFromList(s.chart).found

TypeOK ==
  /\ serverSet \in BOOLEAN
  /\ \E m \in 0..MaxServices : svc \in [1..m -> Service]
  /\ out \in Seq(DOMAIN svc)
  /\ pc \in {"check", "auth", "loop", "url", "chart", "images", "done"}
  /\ k \in 1..MaxServices + 1 /\ j \in 1..MaxImages + 1
  /\ result \in {NoErr, ErrNoServerPort, ExtErr}

\* Every service PluginMain puts in the output points at the local mirror:
\* unless it is "repo" or "dce", its URL and chart override are mirror
\* URLs, and none of its images still names a remote registry.  The
\* rewriting is spread over the URL, chart and image steps of the loop and
\* is done in place on the shared service.
OutputRewritten ==
  \A p \in 1..Len(out) :
    LET s == svc[out[p]] IN
    /\ Injected(s) => s.url \in Mirrors /\ s.chart \in Mirrors \cup {NoChart}
    /\ \A i \in DOMAIN s.images : s.images[i] # "remote"

\* The loop leaves a service it has passed out of the output only when the
\* download list cannot resolve it ("Service %s is not downloaded",
\* continue), never a "repo" or "dce" service, and it appends each service
\* at most once, in input order.
SkippedOnlyIfUnavailable ==
  /\ \A p, q \in 1..Len(out) : p < q => out[p] < out[q]
  /\ \A q \in 1..k - 1 : q \notin Range(out) => Unavailable(svc[q])

\* When PluginMain returns nil, the output holds every service except
\* those it could not resolve: a missing chart override drops that
\* service, as a missing URL does, and not the services after it.
NothingDroppedOnSuccess ==
  pc = "done" /\ result = NoErr =>
    \A q \in DOMAIN svc : q \in Range(out) \/ Unavailable(svc[q])
==============================================================================
