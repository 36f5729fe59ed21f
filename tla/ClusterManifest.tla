--------------------------- MODULE ClusterManifest ---------------------------
(***************************************************************************)
(* The cluster-manifest lookups of pkg/eputils/conductorutils/cluster.go.  *)
(* GetClusterManifest, GetImageFromProvider, GetBinaryFromProvider and     *)
(* GetResourceValueFromProvider share one loop: range over a list of       *)
(* entries and return the first whose Name equals the name asked for, else *)
(* a not-found error.  An entry is abstracted to its Name and the value    *)
(* the lookup returns (the provider, RepoTag, <<URL, Sha256>> or Value).   *)
(* The lookups are pure operators, used by the plugins ProviderPlugins    *)
(* models.                                                                 *)
(***************************************************************************)
EXTENDS Naturals, Sequences

CONSTANT NotFound   \* the error return (errManifest, errImage, errBinary, errResource)

\* for _, e := range entries { if e.Name == name { return e..., nil } }
\* return ..., errNotFound
RECURSIVE FirstByName(_, _, _)
FirstByName(es, n, i) ==
  IF i > Len(es) THEN NotFound
  ELSE IF es[i].Name = n THEN es[i].val
  ELSE FirstByName(es, n, i + 1)

GetClusterManifest(es, n) == FirstByName(es, n, 1)
GetImageFromProvider(es, n) == FirstByName(es, n, 1)
GetBinaryFromProvider(es, n) == FirstByName(es, n, 1)
GetResourceValueFromProvider(es, n) == FirstByName(es, n, 1)

\* imagelist = append(imagelist, i.RepoTag) for every image, in order.
GetImageListFromProvider(es) == [i \in 1..Len(es) |-> es[i].val]

==============================================================================
