------------------------------ MODULE MacImage ------------------------------
(***************************************************************************)
(* The macOS base image (pkg/vm/macos_install_darwin.go): the manifest of  *)
(* a moving tag, the NVRAM, machine id and hardware model beside the disk, *)
(* the disk's layers appended one by one to base.img.partial, the rename,  *)
(* and the LaunchDaemons written into the image once.  Each start of the   *)
(* daemon tries once; it may be killed anywhere and the next one resumes.  *)
(***************************************************************************)
EXTENDS Naturals, Sequences

CONSTANTS
  Layers,         \* the disk layers of a manifest
  LayerRetries,   \* maxRetries
  MaxPushes,      \* a bound on manifests the tag moves to
  MaxPullErrs,    \* a bound on failed fetches
  MaxPullKills    \* a bound on killed daemons

ASSUME MacImageAssumption ==
  {Layers, LayerRetries, MaxPushes} \subseteq Nat \ {0} /\ {MaxPullErrs, MaxPullKills} \subseteq Nat

VARIABLES
  imgAt,        \* where EnsureMacOSVMDisk is
  tag,          \* the manifest the tag names
  manifest,     \* the one this pull fetched
  sidecars,     \* the manifest of the NVRAM, machine id and hardware model; 0: none or torn
  partial,      \* base.img.partial: the manifest of each whole layer, 0 for 512 MiB of anything else
  tail,         \* it ends in a part of a layer
  layerTries,   \* attempts at the current layer
  base,         \* base.img
  daemons,      \* it holds the LaunchDaemons
  marker,       \* .provisioned-v7
  pullErrs, pullKills

imgPull == <<manifest, sidecars, partial, tail, layerTries>>
macImageVars == <<imgAt, tag, imgPull, base, daemons, marker, pullErrs, pullKills>>

Pulling == {"manifest", "sidecars", "open", "layer", "rename", "inject", "consolidate", "mark"}

MacImageTypeOK ==
  /\ imgAt \in {"idle", "failed", "ready"} \cup Pulling
  /\ tag \in 1..MaxPushes /\ manifest \in 0..MaxPushes /\ sidecars \in 0..MaxPushes
  /\ partial \in Seq(0..MaxPushes) /\ Len(partial) <= Layers /\ tail \in BOOLEAN
  /\ layerTries \in 0..LayerRetries /\ base \in Seq(0..MaxPushes) /\ Len(base) \in {0, Layers}
  /\ daemons \in BOOLEAN /\ marker \in BOOLEAN
  /\ pullErrs \in 0..MaxPullErrs /\ pullKills \in 0..MaxPullKills

MacImageInit ==
  /\ imgAt = "idle" /\ tag = 1 /\ manifest = 0 /\ sidecars = 0 /\ partial = <<>> /\ tail = FALSE
  /\ layerTries = 0 /\ base = <<>> /\ daemons = FALSE /\ marker = FALSE /\ pullErrs = 0 /\ pullKills = 0

ImgTo(from, to) == imgAt = from /\ imgAt' = to
ImgSame == UNCHANGED <<tag, pullKills>>
Errs == pullErrs < MaxPullErrs /\ pullErrs' = pullErrs + 1

(* EnsureMacOSVMDisk: an image that is there is used; without the marker it *)
(* is provisioned first.                                                    *)
EnsureMacOSVMDisk ==
  /\ \/ base = <<>> /\ ImgTo("idle", "manifest")
     \/ base # <<>> /\ marker /\ ImgTo("idle", "ready")
     \/ base # <<>> /\ ~marker /\ ImgTo("idle", "inject")
  /\ UNCHANGED <<imgPull, base, daemons, marker, pullErrs>> /\ ImgSame

(* getRegistryToken, fetchManifest *)
fetchManifest ==
  /\ \/ ImgTo("manifest", "sidecars") /\ manifest' = tag /\ sidecars' = 0 /\ UNCHANGED pullErrs
     \/ ImgTo("manifest", "failed") /\ Errs /\ UNCHANGED <<manifest, sidecars>>
  /\ UNCHANGED <<partial, tail, layerTries, base, daemons, marker>> /\ ImgSame

(* fetchBlob of the config and the NVRAM, written file by file. *)
writeSidecars ==
  /\ \/ ImgTo("sidecars", "open") /\ sidecars' = manifest /\ UNCHANGED pullErrs
     \/ ImgTo("sidecars", "failed") /\ Errs /\ UNCHANGED sidecars
  /\ UNCHANGED <<manifest, partial, tail, layerTries, base, daemons, marker>> /\ ImgSame

(* The partial file of an earlier pull is resumed at its last whole layer; *)
(* one that has every layer is the image.                                  *)
openPartial ==
  /\ \/ partial = <<>> /\ ImgTo("open", "layer") /\ tail' = FALSE /\ UNCHANGED <<partial, base>>
     \/ Len(partial) \in 1..(Layers - 1) /\ ImgTo("open", "layer") /\ UNCHANGED <<partial, tail, base>>
     \/ Len(partial) = Layers /\ ImgTo("open", "inject") /\ base' = partial /\ partial' = <<>> /\ UNCHANGED tail
  /\ layerTries' = 0
  /\ UNCHANGED <<manifest, sidecars, daemons, marker, pullErrs>> /\ ImgSame

(* A retry that goes on where the failed attempt stopped. *)
pullAndDecompressDiskLayer_NoSeek ==
  /\ imgAt = "layer"
  /\ \/ /\ partial' = Append(partial, IF tail THEN 0 ELSE manifest) /\ tail' = FALSE /\ layerTries' = 0
        /\ imgAt' = (IF Len(partial') = Layers THEN "rename" ELSE "layer") /\ UNCHANGED pullErrs
     \/ /\ Errs /\ layerTries' = layerTries + 1 /\ tail' \in {tail, TRUE} /\ UNCHANGED partial
        /\ imgAt' = (IF layerTries' = LayerRetries THEN "failed" ELSE "layer")
  /\ UNCHANGED <<manifest, sidecars, base, daemons, marker>> /\ ImgSame

(* pullAndDecompressDiskLayer: every attempt starts at the layer's offset;  *)
(* a retry cuts what the failed one wrote.  The last failure leaves it.     *)
pullAndDecompressDiskLayer ==
  /\ imgAt = "layer"
  /\ \/ /\ partial' = Append(partial, manifest) /\ tail' = FALSE /\ layerTries' = 0
        /\ imgAt' = (IF Len(partial') = Layers THEN "rename" ELSE "layer") /\ UNCHANGED pullErrs
     \/ /\ Errs /\ layerTries' = layerTries + 1 /\ UNCHANGED partial
        /\ IF layerTries' = LayerRetries
             THEN imgAt' = "failed" /\ tail' \in {tail, TRUE}
             ELSE imgAt' = "layer" /\ tail' = FALSE
  /\ UNCHANGED <<manifest, sidecars, base, daemons, marker>> /\ ImgSame

renamePartial ==
  /\ ImgTo("rename", "inject") /\ base' = partial /\ partial' = <<>>
  /\ UNCHANGED <<manifest, sidecars, tail, layerTries, daemons, marker, pullErrs>> /\ ImgSame

(* injectLaunchDaemons: attach and mount the image, write into it, detach, *)
(* rewrite it (a failure is only logged), and leave the marker.            *)
injectLaunchDaemons ==
  /\ \/ ImgTo("inject", "consolidate") /\ daemons' = TRUE /\ UNCHANGED <<marker, pullErrs>>
     \/ ImgTo("inject", "failed") /\ Errs /\ UNCHANGED <<daemons, marker>>
     \/ ImgTo("consolidate", "mark") /\ UNCHANGED <<daemons, marker, pullErrs>>
     \/ ImgTo("mark", "ready") /\ marker' = TRUE /\ UNCHANGED <<daemons, pullErrs>>
  /\ UNCHANGED <<imgPull, base>> /\ ImgSame

(* The daemon is killed, or restarted after a failure (no pull is tried    *)
(* twice by one daemon).  A layer that was being written stays in part.    *)
RestartDaemon ==
  /\ \/ imgAt = "failed" /\ UNCHANGED <<tail, pullKills>>
     \/ /\ imgAt \in Pulling /\ pullKills < MaxPullKills /\ pullKills' = pullKills + 1
        /\ tail' \in (IF imgAt = "layer" THEN {tail, TRUE} ELSE {tail})
  /\ imgAt' = "idle"
  /\ UNCHANGED <<tag, manifest, sidecars, partial, layerTries, base, daemons, marker, pullErrs>>

(* The tag is moved in the registry. *)
PushTag ==
  /\ tag < MaxPushes /\ tag' = tag + 1
  /\ UNCHANGED <<imgAt, imgPull, base, daemons, marker, pullErrs, pullKills>>

ImageReady == imgAt = "ready" /\ UNCHANGED macImageVars

MacImageStep ==
  \/ EnsureMacOSVMDisk \/ fetchManifest \/ writeSidecars \/ openPartial
  \/ pullAndDecompressDiskLayer \/ renamePartial \/ injectLaunchDaemons \/ RestartDaemon

MacImageNext == MacImageStep \/ PushTag \/ ImageReady

(* The service manager restarts a daemon; fetches fail finitely often. *)
MacImageFairness == WF_macImageVars(MacImageStep)
MacImageSpec == MacImageInit /\ [][MacImageNext]_macImageVars /\ MacImageFairness

(* base.img is never a torn download: every layer in it is a whole layer of *)
(* a manifest at its own offset, and the files it boots with are written,   *)
(* whatever was interrupted and resumed on the way.                         *)
ImageWhole == base # <<>> => (\A i \in 1..Layers : base[i] # 0) /\ sidecars # 0

(* An image that is handed to the scheduler holds the LaunchDaemons that    *)
(* start the runner (macos_install_darwin.go:83-87), also when an earlier   *)
(* daemon was killed while it wrote them.                                   *)
ReadyIsProvisioned == imgAt = "ready" => daemons /\ marker

(* A layer that is on disk is not fetched again: the partial file only      *)
(* grows, until it becomes the image (macos_install_darwin.go:271-287).     *)
LayersKept == [][Len(partial') >= Len(partial) \/ base' = partial]_macImageVars

(* A pull that was begun ends, once fetches stop failing and the daemon is  *)
(* left alone, with an image that is complete and provisioned.              *)
ImageArrives == imgAt = "manifest" ~> imgAt = "ready"
=============================================================================
