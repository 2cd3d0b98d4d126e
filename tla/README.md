# A verification of nix-snapshotter in TLA+

nix-snapshotter is a containerd snapshotter whose image layers are backed by Nix
store paths. A *nix layer* is a tarball of mountpoints, annotated with the store
paths to mount there. The snapshotter asks Nix for each path, protects it with a GC
root for as long as the snapshot lives, and adds a bind mount for it to the mounts of
the container. An image service lets the kubelet pull such images by store path, and
the command `nix2container` builds, loads and pushes them.

This directory models that system in TLA+, checks the models with TLC on small
instances and proves the most important invariants with TLAPS for all instances.
Line numbers refer to files of the repository; `snapshotter.go`, `nix.go` and
`image_service.go` are in `pkg/nix`, `generate.go`, `build.go`, `export.go`, `load.go`
and `push.go` in `pkg/nix2container`, `dockerconfigresolver.go`, `config.go` and
`plugin.go` in packages of their names.

## The system

### Components

| Component | Code | State | Operations |
|---|---|---|---|
| Snapshotter | `snapshotter.go` | bolt database with the snapshot records (durable), `<root>/snapshots/<id>`, `<root>/gcroots/<id>/<n>` (durable) | Prepare, View, Mounts, Commit, Update, Remove, Cleanup |
| Overlay snapshotter (containerd, external) | embedded at `snapshotter.go:55` | shares database and `snapshots/` with the above | createSnapshot, Commit, Update, Mounts |
| Nix builder | `nix.go` | the Nix store | realise a path, with an out-link or without |
| Image service | `image_service.go` | two containerd clients, set once under a mutex | ListImages, ImageStatus, PullImage, RemoveImage, ImageFsInfo |
| Loading | `load.go` | images and content of containerd | Load |
| Image generation | `build.go`, `generate.go`, `export.go`, `types/types.go` | a manifest, a config and a temporary content store | Build, Generate, Export |
| Registry push | `push.go`, `dockerconfigresolver.go` | credentials of the Docker config | Push, NewAuthCreds |
| Configuration | `config.go` | settings | load, merge |
| Daemon, plugin | `main.go`, `plugin.go` | a gRPC server, its socket file (durable), the lock of the database | start, serve until a signal |
| Command line | `pkg/command`, `cmd/nix2container` | the output file | build, load, push |
| Packaging | `package.nix`, `modules` | none | `buildImage` |

### How they interact

* containerd and the kubelet call the daemon over gRPC. Every call gets a goroutine of
  its own; nothing orders them but bolt's transactions and, in the image service, the
  mutex.
* The snapshotter and the overlay snapshotter inside it work on the same database. A
  call is several transactions in a row: Prepare records the snapshot in one and reads
  its id for the GC roots in another; Remove and Cleanup list directories in one and
  delete them when it is over.
* The Nix builder is a child process. It does not get the context of the call
  (`nix.go:67`, `:80`) and so outlives a client that gave up.
* Nix collects garbage at any time, and looks at GC roots alone.
* PullImage of a `nix:0...` reference asks the builder for the archive and has
  containerd import it, which unpacks its layers and so calls the snapshotter again.
* Generate decides by annotations what the snapshotter will mount: the two meet in the
  labels of Prepare. containerd names the snapshots of layers by chain ID, that is by
  the contents of their tars, so that images share them.
* Under the transactions are bolt's locks. A read transaction of the snapshotter stays
  open while the builder runs, and shares a lock that a writer needs to grow the file.
* systemd restarts the daemon whenever it ends, over the socket file it left. The plugin
  does the same inside containerd, and its default root is that of the daemon.

### What is hard, and what makes each component correct

* **Snapshotter.** Sweeps work from a list that is already old, in parallel with
  Prepares that add directories and roots; processes die between a directory and its
  record, and between a directory and its roots; errors are replaced or only logged. It
  is correct if no sweep touches a recorded snapshot, if the paths of a prepared layer
  stay rooted until it is removed, if what was mounted stays in the store, and if the
  roots of what was removed go away.
* **Image service.** Two fields, one mutex, one reader without it; containerd may be
  down, or go down at any step; archives are not protected from collection, and images
  are removed while they are loaded. It is correct if no nil client is used, if every
  call returns, if a running containerd is found and if retried pulls get there.
* **Image generation.** Sequential, with errors at every step. It is correct if layers
  and diff IDs agree, if mountpoints, annotations and closure agree, if symlinks lead
  to what is mounted, and if a step that failed is not reported as done.
* **Unpacking.** Two clients unpack images with common layers, lose races for a chain ID,
  abort, and collect chains. It is correct if a container gets the closure of its own
  image, the same list each time, and if no root is left over or missing.
* **Metadata store.** Calls of several transactions with early returns. It is correct if
  every transaction ends on every way out and if nobody waits in a circle.
* **Registry push.** It is correct if a secret answers only challenges of the registry it
  is for and if a login is used.
* **Daemon and plugin.** It is correct if settings come from where they were given last,
  if a process that ends does no harm to another, and if a service comes back.

The hazards, each with its line and the properties aimed at it, are listed in
`PROJECT.json`.

## Modules

| Module | What it is |
|---|---|
| `Snapshotter` | the snapshotter, with database, directories, GC roots, Nix store, crashes and client |
| `MCSnapshotter` | two paths, three label sets and the symmetry for TLC |
| `SnapshotterProofs` | theorems about `Snapshotter` |
| `ImageService` | connector, calls of the image service, Load, containerd and kubelet |
| `ImageServiceProofs` | theorems about `ImageService` |
| `NixImage` | `nix2container build`, from its arguments to the archive |
| `NixImageProofs` | theorems about `NixImage` |
| `MCNixImage` | six paths with their contents, closures, copyToRoot lists and base images |
| `PinnedStore` | the abstract promise: a store, and holders whose paths are not collected |
| `PinnedStoreProofs` | theorems about mounted paths, and that `Snapshotter` implements `PinnedStore` |
| `Unpack` | extends `Snapshotter` with the layers of images and containerd's unpacking by chain ID |
| `MCUnpack` | three images that share a base |
| `UnpackProofs` | theorems about `Unpack`, among them that it implements `Snapshotter` |
| `MetaStoreLocks` | transactions and bolt's locks under the calls of the snapshotter |
| `MetaStoreLocksProofs` | theorems about `MetaStoreLocks` |
| `Push` | `nix2container push`: credentials, scheme, and who is given a secret |
| `PushProofs` | theorems about `Push` |
| `Daemon` | settings, socket file and database lock of daemon and plugin processes |
| `MCDaemon` | configuration files and command lines |
| `DaemonProofs` | theorems about `Daemon` |

A definition whose comment starts with "Mutant of" is a plausible bug of the
definition it names, used to see that a property would notice it. It is part of no
specification.

### Snapshotter

The state and the code:

| Variable | Code |
|---|---|
| `meta`, `seq` | the records of containerd's metadata store and its id sequence. Both change only when a write transaction commits, and both survive |
| `snapDirs`, `gcRoots` | `<root>/snapshots/<id>` and the links in `<root>/gcroots/<id>` |
| `store` | what is in `/nix/store` |
| `call` | the stack of each goroutine: what it does next, about which key and id, paths still to build (`todo`), ids still to remove (`doomed`), and whether the client waits |
| `acked`, `mounted` | what the client knows: keys whose Prepare or View returned success, and the store paths in the mounts it was given |

A bolt transaction is one step: writers are serialised and readers have a frozen view.
File system work in between and after is in steps of its own:

* Prepare is `Prepare` (the transaction of createSnapshot), `OpenGCRoots` (GetInfo),
  `BuildGCRoot` once per path, `FinishGCRoots`. Labels are visited in the order of
  their keys, which is unrelated to paths, so any order may happen. For layers without
  the annotation it is `Prepare`, `WithNixBindMounts`.
* View and Mounts end in `WithNixBindMounts`, which collects the paths of the chain
  of parents (`Ancestry`).
* Remove is one transaction with the list of directories, then `SweepDir` and
  `SweepGCRoots` for each; Cleanup is the same from a transaction that changes nothing.
* `CreateFails` and `Reclaim` are the error path of createSnapshot.
* Errors are as the code returns them: the deferred `err = t.Rollback()`
  (`snapshotter.go:134`) makes `OpenGCRoots` and `BuildGCRootFails` succeed.

* `View` is given labels only with the fault `"relabel"`: they are bind mounted without GC
  roots, like those of Update, and containerd gives none to a view.

`Faults` names what may go wrong in a run; an action asks for its fault in its guard,
so each run says what it assumes. The client is containerd: it commits and
removes no snapshot while it waits for a call about it (`Busy`), removes no parent
before its children, and commits with the labels it prepared with.

### ImageService

`conn` is the goroutine of NewImageService (dial, lock, two assignments, unlock), `mu`
the mutex, `client` and `cri` the two fields, `call` the goroutines of the calls. Calls
that are passed on unchanged are the operation "proxy"; RemoveImage also changes what
containerd holds. PullImage is Lock, Read, Stat, BuildArchive, OpenArchive, Transfer,
GetImage, StoreImage, ReadConfig, in the order of the code. `images` are records and
`content` is what they refer to. `Attempts` is 100 in the code; a smaller number is
the same loop.

### NixImage

The command is one sequence of steps with an error exit at each. A blob is what its
tarball holds plus whether it is compressed; a diff ID is the former alone. A
descriptor has the media type, the blob and the annotations. `req` holds the arguments
and `out` the output file. `paths` is a set: the order of the closure numbers the
annotations and decides nothing else. Assumed of the arguments: the closure contains the
copyToRoot list and the config is a file, as `package.nix:59-61` makes them; and a base
image has a diff ID for each of its layers, which `parseOCITarball` believes. copyToRoot paths are trees of names so that the walk of
`generate.go:278-298` may fail where `os.Symlink` and `os.MkdirAll` do (`Clash`).

### PinnedStore

What the client may rely on, in five actions. `Snapshotter` implements it (`Pinned`,
`ImplementsPinnedStore`) with `store` as it is and `held` mapped to `Held`: for a key
whose Prepare or View succeeded the paths of its labels and of its mounts. Success is
`Acquire`, for paths that must be there; Commit is `HandOver` from the extraction key to
the layer's; Remove is `Release`; a build is `Fetch`; a Nix collection is `Collect`, which
the abstract store allows only for paths that nobody holds. Crashes, sweeps and everything
on disk but the store are stutters.

### Unpack

The module extends `Snapshotter`, whose actions are conjuncts of its own; `client` is what
each goroutine of containerd is doing with them, and `Procs` are the clients, so that a
client has one call at a time. Chain IDs are sequences of diff IDs, and the diff ID of a nix layer is a
record of its mountpoints and links (`ClosureDiff`), which are what
`writeNixClosureLayer` puts into the tar. An unpack is, layer by layer, `Stat` (skip what is
there), `PrepareLayer` with the annotations as labels, `CommitLayer`, or `AlreadyExists` when
the other client was first. A container is `Start`, any number of `Recover`, `Stop`.
`MountList` is what withNixBindMounts returns: per snapshot of the chain the paths not
seen before (`BindMounts`, a function over the chain from the container downwards), and the
order in which the loop takes them. That is one of `ChainOrders`, chosen at each call; since
the labels are sorted (`snapshotter.go:324-329`), `LabelOrders` has one order for a snapshot, and
`LabelOrdersOfMap`, its mutant, all of them. The overlay mount is left out.
That names are told apart is assumed by name: keys of containers and of extraction
snapshots are no chain IDs, and the diff ID of a nix layer is none of a base's layer
(`DiffsAssumption`, `NamesAssumption`).

### MetaStoreLocks

A call is a list of parts (`Calls`), each a transaction or a sweep. `rwlock`, `metalock` and
`readers` with `remapper` (the two sides of mmaplock) are bolt's; a writer that waits for
mmaplock keeps new readers out, as Go's RWMutex does, and a new reader waits for it with
metalock held. `building` is the step in which prepareNixGCRoots waits for the builder.
Any part may fail, and any writer may have to remap. bolt's locks are modelled from how
its transactions use them, and are marked external.

### Push

One run of the command. `config` is the answer of the Docker config, or of a credential
helper, for each name that is looked up: an error, nothing, or an entry with its secrets and
server address. `LookUp` is one turn of the loop in NewAuthCreds. `Challenge` is credFunc,
called by whichever host asks, also one that the registry redirects to. Where containerd's
authorizer takes a secret that credFunc returned, such as the token server that a registry names
in a bearer challenge, is outside of the model.

### Daemon

`inst` holds for each process its step through `serve` or the plugin's InitFn, and the
settings it has so far. `file` and `flags` are what was given; a setting left out is `Unset`.
`socket` is the file at each address, with the process that bound it or `Stale`; it outlives a
process that is ended, because nobody closes the listener. `open` says that a grpc server of the
process serves a listener. If that server fails (`ServeFails`) it closes the listener, which unlinks
the path it was bound to, whoever bound it since: the daemon ends, the plugin runs on
without it. A plugin whose start fails after that (`Fails` at `build`) is `broken`, and its server
goes on in a containerd that runs. `dbLock` is the file lock of bolt.Open,
which the first call takes. Files and command lines are any settings, except that the
command line has only the two of `main.go:66-77`. `calm` ends the faults for the liveness property.

## Runs

### Runs that pass

| Run | Instance | Question |
|---|---|---|
| `snapshotter_safety` | 2 keys, 2 goroutines, 3 ids, 2 paths; crashes, cancelled calls, failing removals | Are recorded snapshots safe from sweeps (`LiveHasDir`, `DoomedDead`), are promised paths rooted (`AckedRooted`), are mounted paths present (`MountedPresent`)? |
| `snapshotter_restart` | 3 keys, 1 goroutine, 3 ids; also deaths and failures inside createSnapshot | Do the promises survive directories without a record and reused ids, if calls come one at a time? |
| `snapshotter_reclaim` | 2 keys, 2 goroutines, 2 ids; failing builder, changed labels; fairness | Do the roots of removed snapshots go away (`NoLeakedRoots`, `RootsReclaimed`), and no others (`RootsStay`)? |
| `unpack` | 2 clients, 3 images with a common base and equal copyToRoots, 1 container, 5 ids; Nix collects | Does a container get exactly the closure of its image (`ClosureMounted`), and the same bind mounts in the same order when it asks again (`MountsRecovered`)? Are the roots those of the unpacked layers (`RootsExact`)? |
| `metastore_locks` | 3 goroutines; fairness | Does every way out of a call end its transaction (`LocksHeld`)? Can all calls wait for each other (`SomebodyRuns`)? Does every call return (`CallsReturn`)? |
| `image_service` | 2 goroutines, 1 archive, 2 attempts, all faults; fairness | Is the unprotected read harmless (`NoNilClient`)? Does every call return (`CallsReturn`), is containerd found (`Connects`), and do retried pulls succeed in the end, whatever was left behind (`PullsSucceed`)? |
| `nix_image_plain` | all duplicate-free closures of up to 4 of 6 paths, up to 2 copyToRoot paths, 4 kinds of base that mount nothing | Is the archive of a successful build consistent (`LayersAligned`, `MountsComplete`, `LinksResolve`)? |
| `push` | 4 domains, 1 stranger, 5 sets of secrets, all configs | Does a secret answer a challenge it is not for, or in plain HTTP unasked (`SecretsStayHome`)? Is the login used (`LoginUsed`)? |
| `daemon` | 2 processes, each daemon or plugin, 6 files, 2 command lines, all faults; fairness | Are settings taken from the right place (`SettingsTaken`)? Does an old process that is ended take a newer one's socket file along (`KeepsSocket`)? Does a single service answer again (`Answers`)? |

Why the bounds are enough. Two keys allow a parent and a child, or a snapshot that is
removed while another is made; with the third, a chain and an unrelated snapshot.
`snapshotter_safety` also checks the refinement of `PinnedStore`.
Two goroutines are one that works from old data and one that changes it. Three ids let
an id be swept while the next two are in use, and let one be given back and used
again. Two paths let a layer share one path with another and own one. For the image
service, two calls and the connector are all parties of the mutex, and two attempts
have a first and a last. In `unpack`, two clients can lose a race for a
chain ID on the base and on the nix layer, which takes five ids with the container; the
images differ in their closures alone, or in their base alone. In `metastore_locks`, three calls
are a builder with its transaction open, a writer that waits for it, and a newcomer that
waits for the writer: every lock has an owner and somebody who waits. In `push`, Docker Hub
under both names, a registry and a local one are the cases of the code. In `daemon`,
two processes are an old and a new one, and each setting is left out, given once
or given twice. In `nix_image_plain` two roots suffice since a clash is
between two. `snapshotter_safety` bounds ids by `MaxId` and no other counter grows.
Where the theorems below apply, the bounds do not matter.

Deadlock is checked except in the runs of `NixImage` and `Push`, whose commands end, and of
`Daemon`, where a daemon whose socket file was removed runs on and is never called again.

### Runs that find a disagreement with the docs or comments

| Run | What happens |
|---|---|
| `swallowed_builder_error` | The builder fails, the deferred rollback replaces the error by nil, and Prepare succeeds without the GC root. |
| `crash_in_sweep` | A death between the removal of `snapshots/<id>` and `gcroots/<id>` leaves roots that no later Cleanup can find: it looks for names under `snapshots/` only. |
| `nix_image_base` | Annotations and media types of a base image are lost: over an image of nix2container, the store paths of the base are not mounted. |

Each is described, with the line that promises otherwise, under "findings" in
`PROJECT.json`. The passing runs leave out the faults and inputs of these by name.

Further observations, without a run of their own:

* Add `"cancel"` to the faults of `SnapshotterReclaim.cfg` and `NoLeakedRoots` is violated: the builder
  ignores the context, so a Prepare goes on after its client gave up and removed the
  snapshot, and builds roots that no Cleanup finds (`snapshotter.go:159`).
* The deferred function at `command/build.go:68-72` tests `err` where it means `cerr`, so a
  build whose output fails at Close succeeds (`Close` of `NixImage`). No property says that a build
  that succeeds is on disk.
* convertToOverlayMountType assigns to the copy of its loop, so `WithFuseOverlayfs` has no effect,
  against its comment (`snapshotter.go:37-41`). Nobody calls it; the type of the overlay mount is
  not modelled.
* Add `"tornCreate"` to the faults of `SnapshotterSafety.cfg` and `DoomedDead` is violated, and `AckedRooted` if it is checked alone: a Cleanup
  holds the id of a directory without a record, the id is given to a new snapshot, and the
  Cleanup removes its roots (`snapshotter.go:241`).
* A RemoveImage between the two record operations of Load (`load.go:52` and `:62`) leaves a
  record whose content is gone, until the next pull: `PullsSucceed` shows that the next
  pull repairs it.
* `nix_image_base` has a consequence beyond the image itself. Its layers have the chain IDs
  of the base, without annotations: once it is unpacked, or its unpack got to that layer and
  was aborted, containers of the base image find the chain there and get no bind mounts.
  Add a request whose base holds the `ClosureDiff` of another one to `MCUnpack` to see it.
* Prepare does not call convertToOverlayMountType (`snapshotter.go:125`), Mounts does (`:185`): if its loop
  worked, a container would get another type of overlay mount when it asks again.
* A daemon whose grpc server fails unlinks its path on the way out. If a newer daemon
  has bound the path by then, that one is out of reach: `KeepsSocket` names the case.
* The defaults give the daemon the root that containerd gives the plugin (`config.go:16`). Two
  services with one root wait for each other at the first call, for as long as both run.
* A start removes the socket file of a daemon that runs, and if it then fails, the daemon
  is out of reach until somebody restarts it. `Answers` excludes this by `SocketLeft`.
* `enable = false` and empty strings in the file are taken for settings that are not given
  (`config.go:47`). A plugin with the image service on and no address binds a socket without
  a name. The external builder reaches the snapshotter but not the image service
  (`main.go:126-137`).
* An entry of the Docker config with a registry token alone ends the search and pushes without
  credentials (`dockerconfigresolver.go:217-221`); the temporary store of a push is never
  removed (`command/push.go:36`).

### Fairness

* `Snapshotter!FairSpec`: a goroutine that can go on does (weak fairness of
  `Continue(p)`). The Go scheduler gives that, provided the builder's process ends and the
  disk answers. Nothing is assumed of the client, of Nix, or of Cleanup, which nobody
  has to call.
* `ImageService!FairSpec`: the same for calls and connector. Taking the mutex is
  strongly fair, because Go's mutex is handed to a waiter that starved for a
  millisecond. Whether containerd is up, and what Nix or the kubelet take away, is not
  fair; the properties that need calm say so with `calm`.
* `MetaStoreLocks!FairSpec`: a goroutine that can run does, the builder returns, and a lock
  that is free again and again is had at some time (bolt uses Go's mutexes). Clients need
  not call.
* `Daemon!FairSpec`: a process that can run does; systemd starts the service when it is off
  (`Restart = "always"`, `modules/common/nix-snapshotter.nix:74`); containerd calls; a call that is
  retried gets the database if it is free again and again. That nothing goes wrong any more, that
  one process runs, and that its socket file was not taken is the antecedent of `Answers`.
* `PullsSucceed` assumes in its own antecedent (`Retry`) that the kubelet pulls an image
  until it is there, and only there.

## Proofs

All are for any number of keys, goroutines, paths, ids, archives and attempts, and for
every set of faults but those named.

**`SnapshotterProofs`.**

* `TypeCorrect`: `Spec => []TypeOK`, with any faults. Among the types: a recorded snapshot has an
  id that was handed out, and roots are built and swept under such ids only, never in `gcroots` itself.
* `DirsKept`: `Spec => []LiveHasDir`, and `NoneDoomed`: `Spec => []DoomedDead`, if calls are
  `Orderly`: either `"tornCreate"` and `"commitFails"` are no faults, with any number of
  goroutines, or there is one goroutine, with every fault. `LiveHasDir` alone is not
  inductive: a sweep might hold the id of a later snapshot. `DirsInv` adds that ids of
  snapshots are distinct and at most `seq`, and that neither a sweep nor a failed
  createSnapshot is about to remove the directory of one. Every step keeps it (`DirsStep`) if
  no call holds the id that is handed out next (`NextIdFree`), and that is so for two
  reasons. If createSnapshot leaves no directory behind, all ids in directories and sweeps were
  handed out before (`HandedOut`). If it may, a directory above `seq` can be on the list
  of a sweep; but with one goroutine the sweep is over, by its end or by death, when the
  next snapshot is created. With neither, a sweep that listed the directory of a torn
  createSnapshot can outlive it and remove that of the snapshot that gets the id.
* `RootsKept`: `Spec => []AckedRooted` if calls are `Orderly`, the builder does not fail and
  labels do not change. `RootsInv` says of each call a client waits for (`Progress`) that the
  paths of its snapshot are rooted or still to do, and that its key is recorded; the
  second is where the client's discipline (`Busy`) enters. Sweeps leave these roots
  alone because of `DirsInv`. `swallowed_builder_error` shows why the builder must not fail.
  For one goroutine these are the questions of `snapshotter_restart`.
* `RootsOnlyGrow`: `Spec => RootsStay` if calls are `Orderly`, with every other fault: only
  a sweep takes roots away, and by `DirsInv` it has no recorded snapshot on its list. So
  where the builder fails or labels change, `RootsKept` is lost to roots that were not made,
  never to roots that were removed.
* `NothingLeaks`: `Spec => []NoLeakedRoots` if at most the builder fails and labels change.
  A root is made under an id that came from a record (`OpenGCRoots`); `TidyInv` says that
  the record is still there while the builder runs, since the client waits, so the id has
  its directory. Each of the other faults breaks the property by itself in TLC: a call that
  goes on after it was cancelled, a death between the two removals or inside
  createSnapshot, a removal or a commit that fails.
* `RootsAreExact`: `Spec => []RootsExact` if nothing goes wrong. `ExactInv` bounds the roots
  from above by the labels, says that every snapshot is acknowledged or waited for (which
  with `RootsInv` bounds them from below), and that each directory without a snapshot is on
  the list of some sweep, so that none is left when all calls are over.

**`ImageServiceProofs`.**

* `TypeCorrect`: who holds the mutex, among others. That failed attempts stay in range
  needs the conjunct that a connector that still dials has one left.
* `ClientSet`: `Spec => []NoNilClient`. The invariant `Handed`: the CRI client is set only
  after the other one, both are never unset, and a call beyond getClient saw the
  former.

**`PinnedStoreProofs`**, under the assumptions of `RootsKept`.

* `MountsKept`: `Spec => []MountedPresent`. `AckedRooted` says nothing of the parents of a
  snapshot, whose paths its mounts contain. `MountsInv` adds that a parent is recorded and
  committed and that the client was told of every committed snapshot, so that `AckedRooted`
  holds for the whole chain (`ChainRooted`); that what was mounted is within the paths of the
  chain; and that rooted paths are in the store. Chains are least closed sets: a step that
  leaves the records of a closed set alone takes nothing from the chains of its members
  (`ChainKept`). That is so for Prepare, whose key is new, for Remove, since a snapshot with
  children is refused, and for Commit, since nothing has an active snapshot for a parent.
* `ImplementsStore`: `Spec => ImplementsPinnedStore`. With `HeldRooted` (what is held is
  rooted and in the store) every step maps as described under `PinnedStore` above:
  a collection by Nix is `Collect` because of `HeldRooted` before the step, and a call that
  returns is `Acquire` because of `HeldRooted` after it.

The module needs the builder's errors and relabelling away for a reason: each of them breaks
`AckedRooted` in a few steps.

**`UnpackProofs`**, for any images, containers and clients.

* `UnpackImplements`: `UnpackSpec => Spec`. Each step of containerd is a call of `Snapshotter`
  with labels and a parent of an image, or leaves it alone. `ClientInv` is needed because
  `Snapshotter` lets a client commit only what it does not wait for, and with the labels it
  prepared with: the extraction snapshot of a client has the parent and the labels of the
  layer that the client is at. `UnpackRootsExact` is `RootsAreExact` carried over.
* `ClosuresMounted`: `UnpackSpec => []ClosureMounted`, under the assumptions of
  `RootsKept`. `ChainInv`: a chain ID determines labels and parent of its snapshot, whichever
  image it was unpacked for, since the diff ID of a nix layer determines its store paths.
  `ContainerInv`: a container is on top of the chain of its image. The chain of a container is
  then that of its image, whose only labels are the paths of the image; that they are in the
  store is `ChainRooted`.
* `MountsAreRecovered`: `UnpackSpec => MountsRecovered`, under the same. A container keeps its
  record, and no record of its chain changes while it lives: a snapshot with children is not
  removed, and a commit makes a name that nothing has for a parent. `BindMounts` and `ChainOrders`
  are determined by the records of the chain, and sorted labels have one order (`OneOrder`), so the
  list is the same.

**`NixImageProofs`**, for any store, closure, copyToRoot list, base image and failing step.

* The inductive invariant (`ImageInv`) says that the image is at every step one of three:
  nothing, the base image (`BaseImage`), or that with the layer on top (`Whole`); a build that failed stops at
  one of them. `LayersAreAligned` and `TypeCorrect` follow from
  what these three are. `LinksAreMounted` and `MountsAreComplete` need `InputsInv`: the layer was made from the
  closure without the config, and from roots that are directories, so that no root is the
  config.
* `MountsAreComplete` assumes `PlainBases`: base images that mount nothing. `nix_image_base` shows
  what becomes of those that do.

**`DaemonProofs`**, for any number of processes, files, command lines and faults.

* `TypeCorrect` and `SettingsAreTaken`: `Spec => []SettingsTaken`. The property begins when the
  command line was merged; the invariant adds what a daemon has before (`FileTaken`: the
  defaults with the file). The lemmas say what `Merge` makes of each setting.
* `SocketIsKept`: `Spec => KeepsSocket`, by the actions that change `socket`: a process that
  is ended marks its own files alone, one that listens takes an address where nothing is, and a
  server that fails unlinks the path of its own address.
  That the address of a daemon that serves is a name is by `SettingsTaken`.

**`MetaStoreLocksProofs`**, with any failures and any sizes of the file.

* `TypeCorrect`: the types say that what a call has left is a rest of one of the lists of
  the code (`Parts`), which bounds what may come next. `LocksKept`: `Spec => []LocksHeld`.
* `NoCircle`: `Spec => []SomebodyRuns`. The argument follows the order of the locks: a writer
  that waits to remap waits for readers, and a reader, with the builder or without, waits
  for nothing (`ReaderRuns`); metalock is held by somebody who waits at most for mmaplock
  (`MetaLockRuns`); and the one writer waits for these only (`WriterRuns`). `IInv` is
  these two and that a step inside a call has a part it works on
  (`Working`); a call that asked for a second transaction inside one would break it.

**`PushProofs`**, for any domains, hosts, entries and configs.

* `TypeCorrect`: `Spec => []TypeOK`.
* `StaysHome`: `Spec => []SecretsStayHome`. `HomeInv` says that nobody is answered before the
  loop over the names has ended, so that the credentials do not change under an answer, and
  that credentials have no address or one of the registry. The latter is where the
  comparison in the loop enters, and that the names to look up are always a rest of those
  of the registry (`NamesInv`).
* `LoginKept`: `Spec => []LoginUsed`. `LoginInv`: a login that can be used is under the first
  name, so no other entry is looked at.

Every invariant and action property of the passing runs is stated by a theorem, under
assumptions that the run satisfies. `MetaStoreLocks!TypeOK` is proved only: it says that the
records of the model are well formed, and is needed for the other theorems of its module. Only model-checked are the liveness properties
(`RootsReclaimed`, `CallsReturn`, `Connects`, `PullsSucceed`, `Answers`), which are out of
reach of the prover.

## Not modelled

* The inside of containerd: overlay mounts, content store, transfer service. Their
  actions are written from how this code uses them and are marked as external.
* The transfer to a registry, TLS and the directories of registry hosts
  (`dockerconfigresolver.go:55-104`, which this repository does not use); gRPC itself, argument
  parsing, log levels, packaging.
* The type of the overlay mount (`WithFuseOverlayfs`, `snapshotter.go:297-304`).
* File modes, owners, timestamps, digests, JSON and names.
* The progress callback of Load (`load.go:40-44`): that its last event is handled before Transfer
  returns is up to containerd's stream.
* Unpacking with crashes: `Unpack` has no faults, those of `Snapshotter` are checked in its own runs.
* A Nix collection in the middle of one realisation; Nix protects what it is building.

## Plan

Done: `Snapshotter` first, as the component that everything depends on and the only
one with durable state and concurrency at once; then `ImageService`, `NixImage`; then the
abstract `PinnedStore`, the composition `Unpack`, `MetaStoreLocks`, `Push` and `Daemon`;
theorems about every module, two refinements among them (`Snapshotter` of `PinnedStore`,
`Unpack` of `Snapshotter`).

Next, in this order:

1. With `RootsOnlyGrow`, `MountsKept` and `ImplementsStore` with a builder that fails or
   labels that change, for the snapshots that neither happened to.
2. The safety part of `ImageService!PullsSucceed`: what a pull that succeeds leaves behind.
3. `Unpack` with crashes of the daemon and images without annotations.
