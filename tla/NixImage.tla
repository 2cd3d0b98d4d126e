------------------------------ MODULE NixImage ------------------------------
(***************************************************************************)
(* `nix2container build`: from a config, a closure and copyToRoot lists to *)
(* an OCI archive (pkg/command/build.go, pkg/nix2container/build.go,       *)
(* generate.go and export.go).                                             *)
(*                                                                         *)
(* The image gets the layers of its base image and one layer of its own,   *)
(* whose tarball holds a mountpoint for each store path of the closure and *)
(* a symlink for each file of copyToRoot, and whose annotations name the   *)
(* store paths for the snapshotter to mount.                               *)
(***************************************************************************)
EXTENDS Naturals, Sequences, SequencesExt

CONSTANTS
  Paths,     \* Nix store paths
  FileType,  \* what each of them is: "dir", "file" or "missing"
  Names,     \* names relative to a root file system
  Parent,    \* of a name; the name itself at the top
  Tree,      \* what is below a path of type "dir", by name: "dir", "file", or
             \* "dirlink", a symlink to a directory
  Requests,  \* what the command is called with
  Faults     \* what may go wrong in a run

\* "io"     a read, a write or another system call fails
\* "close"  closing the output file reports that some of it is not on disk
ASSUME FaultsAssumption == Faults \subseteq {"io", "close"}
ASSUME FilesAssumption ==
  /\ FileType \in [Paths -> {"dir", "file", "missing"}]
  /\ Parent \in [Names -> Names]
  /\ \A p \in Paths : \E D \in SUBSET Names :
       Tree[p] \in [D -> {"dir", "file", "dirlink"}]

\* package.nix:59-61: the closure is that of the config, a text file, and of
\* the copyToRoot list.
ASSUME RequestsAssumption == \A r \in Requests :
  /\ r.config \in Paths /\ FileType[r.config] = "file"
  /\ r.closure \in Seq(Paths) /\ r.copyToRoots \in Seq(Paths)
  /\ Range(r.copyToRoots) \subseteq Range(r.closure)

\* A blob is known by what its tarball holds and whether it is compressed.
\* The diff ID names the former alone.
ClosureBlob(paths, links) ==
  [gzip |-> TRUE, holds |-> [mountpoints |-> paths, links |-> links]]

\* A layer descriptor: media type, blob, and the annotations: whether it has
\* NixLayerAnnotation, and the paths under NixStorePrefixAnnotation.
Desc(media, blob, nix, paths) ==
  [media |-> media, blob |-> blob, nix |-> nix, paths |-> paths]

\* An archive, or a manifest with its config in the making.
Image(layers, diffIDs, annotations) ==
  [layers |-> layers, diffIDs |-> diffIDs, annotations |-> annotations]

NoImage == Image(<<>>, <<>>, {})

\* A base image has a diff ID for each of its layers, in their order: what
\* manifest.json and the config say is believed (generate.go:198-232).
Aligned(img) ==
  /\ img.layers \in Seq(Range(img.layers)) /\ img.diffIDs \in Seq(Range(img.diffIDs))
  /\ Len(img.layers) = Len(img.diffIDs)
  /\ \A i \in DOMAIN img.layers : img.diffIDs[i] = img.layers[i].blob.holds
ASSUME BasesAssumption == \A r \in Requests : Aligned(r.base.image)

VARIABLES
  step,    \* the next step of the command
  req,     \* its arguments: config, closure, copyToRoot, base (or NoBase)
  paths,   \* image.NixStorePaths, whose order numbers the annotations
  image,   \* the manifest and its config
  blobs,   \* layer blobs in the temporary content store
  out      \* the output file: "none", "partial", or an archive, either
           \* "written" or "unsynced", when Close reported an error

vars == <<step, req, paths, image, blobs, out>>

NoBase == [image |-> NoImage, manifests |-> 0]
None == [state |-> "none", image |-> NoImage]
Partial == [state |-> "partial", image |-> NoImage]

Init ==
  /\ step = "read"
  /\ req \in Requests
  /\ paths = {}
  /\ image = NoImage
  /\ blobs = {}
  /\ out = None

\* Every error is returned at once.  The output file stays as it is.
Fail == step' = "failed" /\ UNCHANGED <<req, paths, image, blobs, out>>

\* A system call of the step fails.
IOError ==
  /\ "io" \in Faults
  /\ step \in {"read", "base", "layer", "export"}
  /\ Fail

-----------------------------------------------------------------------------
(* Build                                                                   *)

\* Mutants of ReadClosure: the config stays in the closure; a last line is
\* taken only with its newline.
ReadClosureAll(config, closure) == Range(closure)
ReadClosureTerminated(config, closure) == Range(Front(closure)) \ {config}

\* readClosure (build.go:78-99): every line but the config itself.
ReadClosure(config, closure) == Range(closure) \ {config}

\* Build (build.go:30-76) and the creation of the output (command/build.go:64).
ReadInputs ==
  /\ step = "read"
  /\ paths' = ReadClosure(req.config, req.closure)
  /\ out' = Partial
  /\ step' = "base"
  /\ UNCHANGED <<req, image, blobs>>

-----------------------------------------------------------------------------
(* The base image                                                          *)

\* Mutant of ParseOCITarball: the layers are listed from the top.
ParseOCITarballReversed(base) ==
  Image(Reverse([i \in DOMAIN base.layers |-> Desc("tar", base.layers[i].blob, FALSE, {})]),
        base.diffIDs, {})

\* parseOCITarball (generate.go:160-232): manifest.json names the layer blobs
\* and the config; the descriptors are made anew, as plain tar and without
\* annotations, and the manifest has none.
ParseOCITarball(base) ==
  Image([i \in DOMAIN base.layers |-> Desc("tar", base.layers[i].blob, FALSE, {})],
        base.diffIDs, {})

\* Mutant of InitializeManifest: diff IDs alone are inherited.
InitializeManifestNoLayers ==
  /\ step = "base"
  /\ req.base # NoBase => req.base.manifests = 1
  /\ LET base == ParseOCITarball(req.base.image) IN
       IF req.base = NoBase THEN UNCHANGED <<image, blobs>>
       ELSE /\ image' = Image(image.layers, base.diffIDs, image.annotations)
            /\ blobs' = blobs \cup {base.layers[i].blob : i \in DOMAIN base.layers}
  /\ step' = "layer"
  /\ UNCHANGED <<req, paths, out>>

\* initializeManifest (lines 119-156).  The loop over annotations ranges over
\* those of the new manifest, which has none, and not over those of the base.
InitializeManifest ==
  /\ step = "base"
  /\ req.base # NoBase => req.base.manifests = 1
  /\ LET base == ParseOCITarball(req.base.image) IN
       IF req.base = NoBase THEN UNCHANGED <<image, blobs>>
       ELSE /\ image' = Image(base.layers, base.diffIDs, image.annotations)
            /\ blobs' = blobs \cup {base.layers[i].blob : i \in DOMAIN base.layers}
  /\ step' = "layer"
  /\ UNCHANGED <<req, paths, out>>

\* Lines 194-196: the archive must hold exactly one manifest.
BadBase ==
  /\ step = "base"
  /\ req.base # NoBase /\ req.base.manifests # 1
  /\ Fail

-----------------------------------------------------------------------------
(* The layer of the image itself, writeNixClosureLayer (lines 241-300)     *)

\* Walking the root b after the root a fails (os.Symlink or os.MkdirAll) on a
\* name that is taken: a symlink by anything, a directory by a file, and what
\* is below a directory when its place is a symlink into the read-only store.
Clash(a, b) == \E n \in DOMAIN a \cap DOMAIN b :
  \/ b[n] # "dir"
  \/ a[n] = "file"
  \/ a[n] = "dirlink" /\ \E m \in DOMAIN b \ {n} : Parent[m] = n

\* os.Stat of each path (249-252), and the walks of copyToRoot (278-298).
LayerFails(ps, roots) ==
  \/ \E p \in ps : FileType[p] = "missing"
  \/ \E r \in Range(roots) : FileType[r] # "dir"
  \/ \E i, j \in DOMAIN roots : i < j /\ Clash(Tree[roots[i]], Tree[roots[j]])

\* A symlink at its relative name for each file below a root, by the root.
Links(roots) ==
  UNION {{<<n, r>> : n \in {m \in DOMAIN Tree[r] : Tree[r][m] # "dir"}} :
         r \in Range(roots)}

\* Generate (lines 63-84): the blob goes to the store, its diff ID and its
\* descriptor with the annotations to the image.
WriteLayer ==
  /\ step = "layer"
  /\ ~LayerFails(paths, req.copyToRoots)
  /\ LET blob == ClosureBlob(paths, Links(req.copyToRoots)) IN
       /\ image' = Image(Append(image.layers, Desc("gzip", blob, TRUE, paths)),
                         Append(image.diffIDs, blob.holds), image.annotations)
       /\ blobs' = blobs \cup {blob}
  /\ step' = "export"
  /\ UNCHANGED <<req, paths, out>>

BadLayer ==
  /\ step = "layer"
  /\ LayerFails(paths, req.copyToRoots)
  /\ Fail

-----------------------------------------------------------------------------
(* The archive                                                             *)

\* Generate (86-94) and Export (export.go:26-37): config, manifest and all
\* blobs they refer to are written out.
Export ==
  /\ step = "export"
  /\ out' = [state |-> "written", image |-> image]
  /\ step' = "close"
  /\ UNCHANGED <<req, paths, image, blobs>>

\* The deferred Close (command/build.go:68-72): its error is dropped, because
\* the condition asks for another one.
Close ==
  /\ step = "close"
  /\ \/ UNCHANGED out
     \/ "close" \in Faults /\ out' = [out EXCEPT !.state = "unsynced"]
  /\ step' = "ok"
  /\ UNCHANGED <<req, paths, image, blobs>>

Next ==
  \/ ReadInputs
  \/ InitializeManifest \/ BadBase
  \/ WriteLayer \/ BadLayer
  \/ Export \/ Close
  \/ IOError

Spec == Init /\ [][Next]_vars

-----------------------------------------------------------------------------
(* Properties                                                              *)

\* The shape of the state.  The temporary content store holds the layers of
\* the manifest, no more and no fewer, so that Export finds what it writes.
TypeOK ==
  /\ step \in {"read", "base", "layer", "export", "close", "ok", "failed"}
  /\ req \in Requests
  /\ paths \subseteq Paths
  /\ blobs = {image.layers[i].blob : i \in DOMAIN image.layers}
  /\ out.state \in {"none", "partial", "written", "unsynced"}

\* containerd applies layer i and checks it against diff ID i; the chain of
\* diff IDs names the snapshots.  The two lists stay in step, over the layers
\* of the base image and the one that is added.
LayersAligned == Aligned(image)

Mounted(img) == UNION {img.layers[i].paths : i \in DOMAIN img.layers}
Mountpoints(img) == UNION {img.layers[i].blob.holds.mountpoints : i \in DOMAIN img.layers}

\* "it will then mount the store paths into these mountpoints"
\* (generate.go:234-236): the snapshotter is told to mount what the base image
\* mounted and the closure but for the config, and all of it on mountpoints
\* that the layers create.
MountsComplete == step = "ok" =>
  /\ Mounted(out.image) = Mounted(req.base.image) \cup (Range(req.closure) \ {req.config})
  /\ Mounted(out.image) = Mountpoints(out.image)

\* "these symlinks will be broken until the containerd-shim finally mounts
\* what nix-snapshotter has generated" (generate.go:238-240): each symlink of
\* the image's own layer leads into a store path that is mounted.
LinksResolve == step = "ok" =>
  \A l \in Last(out.image.layers).blob.holds.links : l[2] \in Mounted(out.image)

\* "add the base image's layers, annotations and diff IDs to the new image's
\* manifest" (generate.go:139-140): the layers of the base come first, with
\* the descriptors they had.
BaseInherited == step = "ok" /\ req.base # NoBase =>
  /\ \A i \in DOMAIN req.base.image.layers : out.image.layers[i] = req.base.image.layers[i]
  /\ req.base.image.annotations \subseteq out.image.annotations
=============================================================================
