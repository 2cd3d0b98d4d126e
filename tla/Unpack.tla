------------------------------- MODULE Unpack -------------------------------
(***************************************************************************)
(* From an image to the mounts of its containers.  nix2container writes    *)
(* the store paths of an image in two places: as mountpoints into the tar  *)
(* of the nix layer, and as annotations of that layer.  containerd unpacks *)
(* an image layer by layer into snapshots named by chain ID, which is made *)
(* of the tars alone, and skips a layer whose chain ID is there, whoever   *)
(* unpacked it.  The snapshotter gets the annotations as labels of Prepare *)
(* and takes the bind mounts of a container from the labels of the chain.  *)
(*                                                                         *)
(* Composes Snapshotter with the layers that Generate makes, and with      *)
(* containerd as this code uses it (external): two clients unpack images,  *)
(* start and stop containers, and collect chains, one call at a time each. *)
(***************************************************************************)
EXTENDS Snapshotter, Sequences

Seqs == INSTANCE SequencesExt

CONSTANTS
  BaseDiffs,   \* diff IDs of the layers of base images
  Requests,    \* images: a plain base, store paths, links of the copyToRoots
  Containers,  \* keys of container snapshots
  NoImage,     \* no image
  NoMounts     \* no list of mounts

ASSUME RequestsAssumption ==
  /\ Requests \subseteq [base : Seq(BaseDiffs), paths : SUBSET Paths,
                         links : SUBSET Paths]
  /\ NoImage \notin Requests

VARIABLES
  client,  \* the goroutine of containerd that uses goroutine p of the server
  image,   \* the image each container runs, if any
  given    \* the mounts each container was last given

clientVars == <<client, image, given>>
allVars == <<vars, clientVars>>

-----------------------------------------------------------------------------
(* Images                                                                  *)

Plain == [nix |-> FALSE, paths |-> {}]

\* Mutant of ClosureDiff: the tar has no mountpoints.
ClosureDiffBare(r) == [links |-> r.links]

\* writeNixClosureLayer: the uncompressed tar, which the diff ID stands for,
\* has a mountpoint per store path and the links of the copyToRoots.
ClosureDiff(r) == [mountpoints |-> r.paths, links |-> r.links]

\* Generate: the layers of the base, and the nix layer with its annotations.
Image(r) ==
  [i \in 1..Len(r.base) |-> [diff |-> r.base[i], labels |-> Plain]]
    \o <<[diff |-> ClosureDiff(r), labels |-> [nix |-> TRUE, paths |-> r.paths]]>>

\* The layers of an image by number, and their parts.
Numbers(r) == 1..Len(Image(r))
Diff(r, n) == Image(r)[n].diff
Labels(r, n) == Image(r)[n].labels

\* The chain ID of the first n layers, the name of their snapshot.
Chain(r, n) ==
  IF n = 0 THEN NoKey ELSE [i \in 1..n |-> Diff(r, i)]
Top(r) == Chain(r, Len(Image(r)))

\* A plain base has no nix layer.
ASSUME DiffsAssumption == \A r \in Requests : ClosureDiff(r) \notin BaseDiffs

\* The snapshots the clients use: those of chain IDs, of containers, and an
\* extraction key for each client.
ASSUME NamesAssumption ==
  /\ Procs \cup Containers \subseteq Keys
  /\ Procs \cap Containers = {}
  /\ \A r \in Requests : \A n \in Numbers(r) :
       /\ Chain(r, n) \in Keys \ (Procs \cup Containers)
       /\ Labels(r, n) \in Layers
  /\ Plain \in Layers

-----------------------------------------------------------------------------
(* Lists of mounts                                                         *)

\* The loop of withNixBindMounts, from the snapshot to its parents: of each
\* one the paths of its labels not seen before, and which one is next.
BindMounts(k) ==
  LET chain == Ancestry(k) IN
    [j \in chain |->
      [paths |-> meta[j].paths \ UNION {meta[i].paths : i \in chain \ Ancestry(j)},
       next |-> meta[j].parent]]

\* Mutant of LabelOrders: the labels are not sorted, and a map of Go has
\* another order each time.
LabelOrdersOfMap(paths) == Seqs!SetToSeqs(paths)

\* The orders in which the loop may take the labels of a snapshot (lines
\* 324-329): sorted by name there is one, whichever paths it puts first.
LabelOrders(paths) == {Seqs!SetToSeq(paths)}

\* The orders for the snapshots the loop visits.
ChainOrders(k) ==
  LET chain == Ancestry(k) IN
    {order \in [chain -> UNION {LabelOrders(meta[j].paths) : j \in chain}] :
       \A j \in chain : order[j] \in LabelOrders(meta[j].paths)}

\* The mounts WithNixBindMounts returns for key k on top of the overlay mount,
\* which it is handed and leaves alone.
MountList(k, order) == [binds |-> BindMounts(k), order |-> order]

-----------------------------------------------------------------------------
(* The client                                                              *)

\* "stat", "prepare", "apply" and "drop" are about layer n of the image being
\* unpacked, "start" and "recover" about container key.
NoWork == [step |-> "idle", image |-> NoImage, n |-> 0, key |-> NoKey]

UnpackInit ==
  /\ Init
  /\ client = [p \in Procs |-> NoWork]
  /\ image = [c \in Containers |-> NoImage]
  /\ given = [c \in Containers |-> NoMounts]

\* The client's call has returned and it goes on, or it has no call.
Ready(p, step) == client[p].step = step /\ call[p].step = "idle"

\* An unpack begins (load.go:33, image.WithUnpack).
Pull(p, r) ==
  /\ Ready(p, "idle")
  /\ client' = [client EXCEPT ![p] = [step |-> "stat", image |-> r, n |-> 1,
                                      key |-> NoKey]]
  /\ UNCHANGED <<vars, image, given>>

\* The next layer of client p's image, or the end of the unpack.
NextLayer(p) ==
  client' = [client EXCEPT ![p] =
    IF client[p].n = Len(Image(client[p].image)) THEN NoWork
    ELSE [step |-> "stat", image |-> client[p].image, n |-> client[p].n + 1,
          key |-> NoKey]]

\* A layer whose chain ID is there is skipped, whatever its labels.
Stat(p) ==
  /\ Ready(p, "stat")
  /\ IF Chain(client[p].image, client[p].n) \in Live
     THEN NextLayer(p)
     ELSE client' = [client EXCEPT ![p].step = "prepare"]
  /\ UNCHANGED <<vars, image, given>>

\* Prepare with the annotations of the layer as labels.  The extraction key
\* is unique: the client's own.
PrepareLayer(p) ==
  /\ Ready(p, "prepare")
  /\ Prepare(p, p, Chain(client[p].image, client[p].n - 1),
               Labels(client[p].image, client[p].n))
  /\ client' = [client EXCEPT ![p].step = "apply"]
  /\ UNCHANGED <<image, given>>

\* The tar is applied and the snapshot is committed to its chain ID.
CommitLayer(p) ==
  /\ Ready(p, "apply")
  /\ Commit(p, Chain(client[p].image, client[p].n))
  /\ NextLayer(p)
  /\ UNCHANGED <<image, given>>

\* Another client committed the chain ID first: the snapshot is removed.
AlreadyExists(p) ==
  /\ Ready(p, "apply")
  /\ Chain(client[p].image, client[p].n) \in Live
  /\ Remove(p, p)
  /\ NextLayer(p)
  /\ UNCHANGED <<image, given>>

\* The tar cannot be fetched or applied: the unpack ends.
Abort(p) ==
  /\ \/ Ready(p, "apply") /\ Remove(p, p)
     \/ Ready(p, "stat") /\ UNCHANGED vars
     \/ Ready(p, "prepare") /\ UNCHANGED vars
  /\ client' = [client EXCEPT ![p] = NoWork]
  /\ UNCHANGED <<image, given>>

\* A container of an image that is unpacked: a snapshot on top of its chain.
Start(p, c, r) ==
  /\ Ready(p, "idle")
  /\ image[c] = NoImage
  /\ Prepare(p, c, Top(r), Plain)
  /\ client' = [client EXCEPT ![p].step = "start", ![p].key = c]
  /\ image' = [image EXCEPT ![c] = r]
  /\ UNCHANGED given

\* The client asks again for the mounts of a container that runs.
Recover(p, c) ==
  /\ Ready(p, "idle")
  /\ Mounts(p, c)
  /\ client' = [client EXCEPT ![p].step = "recover", ![p].key = c]
  /\ UNCHANGED <<image, given>>

\* withNixBindMounts for a container, at the end of Prepare (line 125) and of
\* Mounts (line 185).
GiveMounts(p) ==
  /\ client[p].step \in {"start", "recover"}
  /\ WithNixBindMounts(p)
  /\ \E order \in ChainOrders(client[p].key) :
       given' = [given EXCEPT ![client[p].key] = MountList(client[p].key, order)]
  /\ client' = [client EXCEPT ![p] = NoWork]
  /\ UNCHANGED image

\* A container ends and its snapshot is removed.
Stop(p, c) ==
  /\ Ready(p, "idle")
  /\ given[c] # NoMounts
  /\ \A q \in Procs : client[q].key # c
  /\ Remove(p, c)
  /\ image' = [image EXCEPT ![c] = NoImage]
  /\ given' = [given EXCEPT ![c] = NoMounts]
  /\ UNCHANGED client

\* containerd collects a chain that no image being unpacked and, by its
\* children, no container needs.
Evict(p, k) ==
  /\ Ready(p, "idle")
  /\ k \in Live
  /\ meta[k].kind = "committed"
  /\ \A q \in Procs : client[q].step # "idle" /\ client[q].image # NoImage =>
       \A n \in Numbers(client[q].image) : k # Chain(client[q].image, n)
  /\ Remove(p, k)
  /\ UNCHANGED clientVars

\* After a collection containerd has the snapshotter clean up.
Clean(p) ==
  /\ Ready(p, "idle")
  /\ Cleanup(p)
  /\ UNCHANGED clientVars

-----------------------------------------------------------------------------
\* The server goes on with a call for which the client takes no note.
Serve(p) ==
  /\ call[p].step # "mounts" \/ client[p].step = "apply"
  /\ Continue(p)
  /\ UNCHANGED clientVars

UnpackNext ==
  \/ \E p \in Procs :
       \/ \E r \in Requests : Pull(p, r)
       \/ Stat(p) \/ PrepareLayer(p) \/ CommitLayer(p) \/ AlreadyExists(p)
       \/ Abort(p)
       \/ \E c \in Containers, r \in Requests : Start(p, c, r)
       \/ \E c \in Containers : Recover(p, c) \/ Stop(p, c)
       \/ GiveMounts(p)
       \/ \E k \in Keys : Evict(p, k)
       \/ Clean(p)
       \/ Serve(p)
  \/ \E path \in Paths : NixGC(path) /\ UNCHANGED clientVars

UnpackSpec == UnpackInit /\ [][UnpackNext]_allVars

-----------------------------------------------------------------------------
(* Properties                                                              *)

\* "When the snapshotter prepares this layer, it will then mount the store
\* paths into these mountpoints" (generate.go:236-238): a container gets the
\* store paths of its own image, all of them and no others, also when its
\* layers were unpacked as part of another image, and they stay in the store
\* while it runs.
ClosureMounted ==
  \A c \in Containers : given[c] # NoMounts =>
    LET binds == given[c].binds IN
      /\ UNION {binds[j].paths : j \in DOMAIN binds} = image[c].paths
      /\ mounted[c] = image[c].paths
      /\ image[c].paths \subseteq store

\* Mounts "can be used to recover mounts after calling View or Prepare"
\* (snapshotter.go:179), and "the order of the bind mounts" is deterministic
\* (line 324): for the life of a container it returns the bind mounts that
\* Prepare returned, in their order, whatever is unpacked and removed in
\* between.
MountsRecovered ==
  [][\A c \in Containers : given[c] # NoMounts /\ given'[c] # NoMounts =>
       /\ given'[c].binds = given[c].binds
       /\ given'[c].order = given[c].order]_allVars

-----------------------------------------------------------------------------
(* Inductive invariants, for the proofs                                    *)

ClientSteps == {"idle", "stat", "prepare", "apply", "start", "recover"}

UnpackTypeOK ==
  /\ client \in [Procs -> [step : ClientSteps, image : Requests \cup {NoImage},
                          n : Nat, key : Keys \cup {NoKey}]]
  /\ image \in [Containers -> Requests \cup {NoImage}]
  /\ given = [c \in Containers |-> given[c]]

\* What client p has under way: a layer of an image, its extraction snapshot
\* with the labels and the parent of that layer, or mounts for a container.
ClientOK(p) ==
  LET w == client[p] IN
    /\ w.step \in {"stat", "prepare", "apply"} =>
         w.image \in Requests /\ w.n \in Numbers(w.image)
    /\ w.step \in {"idle", "stat", "prepare"} => ~call[p].waiting
    /\ w.step = "apply" =>
         /\ meta[p].kind = "active"
         /\ meta[p].parent = Chain(w.image, w.n - 1)
         /\ meta[p].paths = Labels(w.image, w.n).paths
         /\ call[p].waiting => call[p].key = p
    /\ w.step \in {"start", "recover"} =>
         /\ call[p].waiting /\ call[p].step = "mounts" /\ call[p].key = w.key
         /\ w.key \in Containers /\ image[w.key] # NoImage
ClientInv ==
  /\ \A p \in Procs : ClientOK(p)
  /\ \A c \in Containers : image[c] = NoImage => meta[c].kind = "absent"

\* A chain ID determines the labels of its snapshot, and the chain below it.
ChainInv ==
  \A r \in Requests : \A n \in Numbers(r) :
    Chain(r, n) \in Live =>
      /\ meta[Chain(r, n)].kind = "committed"
      /\ meta[Chain(r, n)].parent = Chain(r, n - 1)
      /\ meta[Chain(r, n)].paths = Labels(r, n).paths

\* A container is a snapshot without labels on top of the chain of its image,
\* and the bind mounts it was given are those it would be given now.
ContainerOK(c) ==
  /\ image[c] = NoImage => given[c] = NoMounts
  /\ image[c] # NoImage => /\ meta[c].kind = "active"
                           /\ meta[c].parent = Top(image[c])
                           /\ meta[c].paths = {}
  /\ given[c] # NoMounts => /\ c \in acked
                            /\ given[c].binds = BindMounts(c)
                            /\ given[c].order \in ChainOrders(c)
                            /\ mounted[c] = image[c].paths
ContainerInv == \A c \in Containers : ContainerOK(c)
=============================================================================
