---------------------------- MODULE Snapshotter ----------------------------
(***************************************************************************)
(* The nix snapshotter (pkg/nix/snapshotter.go): an overlay snapshotter    *)
(* whose layers are backed by Nix store paths.  Preparing a nix layer      *)
(* builds one GC root per store path, so that Nix does not collect a path  *)
(* while the snapshot is alive; removing a snapshot deletes its directory  *)
(* and its GC roots.                                                       *)
(*                                                                         *)
(* The gRPC server runs every call in a goroutine of its own.  A call is a *)
(* few bolt transactions (each one step, since bolt serialises writers and *)
(* gives readers a frozen view) with file system work between and after    *)
(* them, which is where calls interleave.                                  *)
(*                                                                         *)
(* External, modelled as this code uses them: the embedded overlay         *)
(* snapshotter with its metadata store, the client (containerd), and Nix.  *)
(***************************************************************************)
EXTENDS Naturals

CONSTANTS
  Keys,     \* snapshot keys and names the client uses
  NoKey,    \* the empty key: no parent
  Paths,    \* Nix store paths
  Layers,   \* the label sets a client attaches to a snapshot
  Procs,    \* goroutines of the gRPC server, one call each
  MaxId,    \* bound: snapshot ids the metadata store may hand out
  Faults    \* what may go wrong in a run

\* "crash"        the process dies; systemd starts it again
\* "tornCreate"   it dies after a snapshot directory is in place and before
\*                the transaction that records the snapshot commits
\* "commitFails"  that transaction fails to commit
\* "builderFails" the nix builder returns an error
\* "removeFails"  os.RemoveAll returns an error
\* "cancel"       the client gives up on a call that is still running
\* "relabel"      a snapshot gets labels that no roots are built for: from an
\*                Update, or from a View
AllFaults == {"crash", "tornCreate", "commitFails", "builderFails",
              "removeFails", "cancel", "relabel"}

ASSUME KeysAssumption == NoKey \notin Keys
ASSUME BoundAssumption == MaxId \in Nat
ASSUME FaultsAssumption == Faults \subseteq AllFaults

\* A label set: whether it has NixLayerAnnotation, and the store paths under
\* NixStorePrefixAnnotation.  Generate never writes the second without the
\* first (pkg/nix2container/generate.go:77-83).
ASSUME LayersAssumption ==
  /\ Layers \subseteq [nix : BOOLEAN, paths : SUBSET Paths]
  /\ \A l \in Layers : ~l.nix => l.paths = {}

VARIABLES
  meta,      \* durable: the metadata store, a snapshot record per key
  seq,       \* durable: the last id the metadata store handed out
  snapDirs,  \* durable: ids with a directory <root>/snapshots/<id>
  gcRoots,   \* durable: the out-links in <root>/gcroots/<id>, by id
  store,     \* durable: the paths present in the Nix store
  call,      \* volatile: what each goroutine is doing
  acked,     \* the client's: keys whose Prepare or View returned success
  mounted    \* the client's: store paths in the mounts it was last given

vars == <<meta, seq, snapDirs, gcRoots, store, call, acked, mounted>>

Ids == 1..MaxId

Kinds == {"absent", "active", "view", "committed"}
Snapshot == [kind : Kinds, id : Nat, parent : Keys \cup {NoKey},
             paths : SUBSET Paths]
Absent == [kind |-> "absent", id |-> 0, parent |-> NoKey, paths |-> {}]

Live == {k \in Keys : meta[k].kind # "absent"}
LiveIds == {meta[k].id : k \in Live}

\* Mutant of IDMap: views are forgotten.
IDMapNoViews(m) == {m[k].id : k \in {j \in Keys : m[j].kind \notin {"absent", "view"}}}

\* storage.IDMap: the ids of the snapshots recorded in m.
IDMap(m) == {m[k].id : k \in {j \in Keys : m[j].kind # "absent"}}

\* "gcRoots" and "mounts" are calls between their two transactions,
\* "building" is the loop over the nix builder, "sweepDir"/"sweepRoots" the
\* loop over the directories to remove (id is the current one), and
\* "reclaim" the clean-up of a failed createSnapshot.
Steps == {"idle", "reclaim", "gcRoots", "building", "mounts",
          "sweepDir", "sweepRoots"}
Call == [step : Steps, key : Keys \cup {NoKey}, id : Nat,
         todo : SUBSET Paths, doomed : SUBSET Nat, waiting : BOOLEAN]
Idle == [step |-> "idle", key |-> NoKey, id |-> 0,
         todo |-> {}, doomed |-> {}, waiting |-> FALSE]

\* A call that the client waits for, about key k.
Request(step, k, todo) == [step |-> step, key |-> k, id |-> 0, todo |-> todo,
                           doomed |-> {}, waiting |-> TRUE]

\* The types of the variables.  A call works on the GC roots, or on the
\* directory, of one id: never of none, which would be the parent directory.
TypeOK ==
  /\ meta \in [Keys -> Snapshot]
  /\ \A k \in Live : meta[k].id \in Ids
  /\ seq \in 0..MaxId
  /\ snapDirs \subseteq Ids
  /\ gcRoots \in [Ids -> SUBSET Paths]
  /\ store \subseteq Paths
  /\ call \in [Procs -> Call]
  /\ acked \subseteq Keys
  /\ mounted \in [Keys -> SUBSET Paths]
  /\ \A p \in Procs : /\ call[p].step = "idle" => call[p] = Idle
                      /\ call[p].waiting =>
                           /\ call[p].key \in Keys
                           /\ call[p].step \in {"gcRoots", "building", "mounts"}
                      /\ call[p].step \in {"building", "sweepRoots", "reclaim"} =>
                           call[p].id \in Ids

Init ==
  /\ meta = [k \in Keys |-> Absent]
  /\ seq = 0
  /\ snapDirs = {}
  /\ gcRoots = [i \in Ids |-> {}]
  /\ store \in SUBSET Paths
  /\ call = [p \in Procs |-> Idle]
  /\ acked = {}
  /\ mounted = [k \in Keys |-> {}]

-----------------------------------------------------------------------------
(* Prepare and View                                                        *)

\* The conditions storage.CreateSnapshot checks: the key is free, and the
\* parent, if any, is a committed snapshot.
CanCreate(k, parent) ==
  /\ k \notin Live
  /\ parent = NoKey \/ (parent \in Live /\ meta[parent].kind = "committed")
  /\ seq < MaxId

\* overlay.createSnapshot: one write transaction takes the next id, moves the
\* new directory to snapshots/<id> and records the snapshot.  The id is only
\* used up if the transaction commits.
Create(k, kind, parent, paths) ==
  /\ CanCreate(k, parent)
  /\ seq + 1 \notin snapDirs
  /\ seq' = seq + 1
  /\ snapDirs' = snapDirs \cup {seq + 1}
  /\ meta' = [meta EXCEPT ![k] = [kind |-> kind, id |-> seq + 1,
                                  parent |-> parent, paths |-> paths]]

\* Prepare (lines 98-126): create the snapshot, then go on to the GC roots if
\* the labels have NixLayerAnnotation and to the bind mounts otherwise.
Prepare(p, k, parent, layer) ==
  /\ call[p].step = "idle"
  /\ Create(k, "active", parent, layer.paths)
  /\ call' = [call EXCEPT ![p] =
       Request(IF layer.nix THEN "gcRoots" ELSE "mounts", k, layer.paths)]
  /\ UNCHANGED <<gcRoots, store, acked, mounted>>

\* View (lines 168-174): the same without the GC roots, whatever the labels.
\* containerd gives a view none.
View(p, k, parent, layer) ==
  /\ call[p].step = "idle"
  /\ layer.paths = {} \/ "relabel" \in Faults
  /\ Create(k, "view", parent, layer.paths)
  /\ call' = [call EXCEPT ![p] = Request("mounts", k, {})]
  /\ UNCHANGED <<gcRoots, store, acked, mounted>>

\* createSnapshot fails with its directory in place: the rename found one
\* already there, or the commit failed.  The transaction rolls back, giving
\* the id back, and the directory is still to be removed.
CreateFails(p, k, parent) ==
  /\ call[p].step = "idle"
  /\ CanCreate(k, parent)
  /\ seq + 1 \in snapDirs \/ "commitFails" \in Faults
  /\ snapDirs' = snapDirs \cup {seq + 1}
  /\ call' = [call EXCEPT ![p] =
       [step |-> "reclaim", key |-> NoKey, id |-> seq + 1,
        todo |-> {}, doomed |-> {}, waiting |-> FALSE]]
  /\ UNCHANGED <<meta, seq, gcRoots, store, acked, mounted>>

\* createSnapshot's deferred os.RemoveAll(path), after the transaction.
Reclaim(p) ==
  /\ call[p].step = "reclaim"
  /\ snapDirs' = snapDirs \ {call[p].id}
  /\ call' = [call EXCEPT ![p] = Idle]
  /\ UNCHANGED <<meta, seq, gcRoots, store, acked, mounted>>

\* The goroutine returns; a client that still waits takes note of success and
\* of the store paths among the mounts.
Return(p, ok, paths) ==
  /\ call' = [call EXCEPT ![p] = Idle]
  /\ IF ok /\ call[p].waiting
     THEN /\ acked' = acked \cup {call[p].key}
          /\ mounted' = [mounted EXCEPT ![call[p].key] = paths]
     ELSE UNCHANGED <<acked, mounted>>

-----------------------------------------------------------------------------
(* GC roots                                                                *)

\* Mutant of OpenGCRoots: the error of GetInfo is ignored, and the links of a
\* snapshot that is gone are made in <root>/gcroots itself.
OpenGCRootsBlind(p) ==
  /\ call[p].step = "gcRoots"
  /\ call' = [call EXCEPT ![p].step = "building", ![p].id = meta[call[p].key].id]
  /\ UNCHANGED <<meta, seq, snapDirs, gcRoots, store, acked, mounted>>

\* prepareNixGCRoots (lines 129-149): a read transaction looks up the id.  If
\* the key is gone GetInfo fails, but the deferred `err = t.Rollback()`
\* (lines 133-135) replaces the error, so Prepare returns success.
OpenGCRoots(p) ==
  /\ call[p].step = "gcRoots"
  /\ IF call[p].key \in Live
     THEN /\ call' = [call EXCEPT ![p].step = "building",
                                  ![p].id = meta[call[p].key].id]
          /\ UNCHANGED <<acked, mounted>>
     ELSE Return(p, TRUE, {})
  /\ UNCHANGED <<meta, seq, snapDirs, gcRoots, store>>

\* Mutant of BuildGCRoot: nix build --no-link.
BuildGCRootNoLink(p, path) ==
  /\ call[p].step = "building"
  /\ path \in call[p].todo
  /\ store' = store \cup {path}
  /\ call' = [call EXCEPT ![p].todo = @ \ {path}]
  /\ UNCHANGED <<meta, seq, snapDirs, gcRoots, acked, mounted>>

\* One turn of the loop (lines 150-163): the builder realises the path and
\* links it in gcroots/<id>.  The labels are visited in the order of their
\* keys, which says nothing about the paths: any order of paths may happen.
BuildGCRoot(p, path) ==
  /\ call[p].step = "building"
  /\ path \in call[p].todo
  /\ store' = store \cup {path}
  /\ gcRoots' = [gcRoots EXCEPT ![call[p].id] = @ \cup {path}]
  /\ call' = [call EXCEPT ![p].todo = @ \ {path}]
  /\ UNCHANGED <<meta, seq, snapDirs, acked, mounted>>

\* The builder fails (lines 159-162).  `return err` ends the loop, and the
\* deferred `err = t.Rollback()` replaces the error: Prepare returns success.
BuildGCRootFails(p) ==
  /\ "builderFails" \in Faults
  /\ call[p].step = "building"
  /\ call[p].todo # {}
  /\ Return(p, TRUE, {})
  /\ UNCHANGED <<meta, seq, snapDirs, gcRoots, store>>

\* Mutant of FinishGCRoots: Prepare returns before the roots are built.
FinishGCRootsEarly(p) ==
  /\ call[p].step = "building"
  /\ Return(p, TRUE, {})
  /\ UNCHANGED <<meta, seq, snapDirs, gcRoots, store>>

\* All roots are built (lines 165 and 122).
FinishGCRoots(p) ==
  /\ call[p].step = "building"
  /\ call[p].todo = {}
  /\ Return(p, TRUE, {})
  /\ UNCHANGED <<meta, seq, snapDirs, gcRoots, store>>

-----------------------------------------------------------------------------
(* Bind mounts                                                             *)

\* The snapshots withNixBindMounts visits (lines 317-357), k and all its
\* parents: the least set that contains k and the parent of each member.
ParentClosed(S) == \A j \in S : meta[j].parent \in S \cup {NoKey}
Ancestry(k) ==
  {j \in Keys : \A S \in SUBSET Keys : k \in S /\ ParentClosed(S) => j \in S}

\* The store paths it bind mounts: those of their labels, each once.
ChainPaths(k) == UNION {meta[j].paths : j \in Ancestry(k)}

\* withNixBindMounts, one read transaction; an error if the key is gone.
WithNixBindMounts(p) ==
  /\ call[p].step = "mounts"
  /\ IF call[p].key \in Live
     THEN Return(p, TRUE, ChainPaths(call[p].key))
     ELSE Return(p, FALSE, {})
  /\ UNCHANGED <<meta, seq, snapDirs, gcRoots, store>>

\* Mounts (lines 180-186): a transaction of the overlay snapshotter, which
\* refuses a committed snapshot, then withNixBindMounts in another one.  The
\* client asks for a snapshot whose Prepare or View it saw succeed.
Mounts(p, k) ==
  /\ call[p].step = "idle"
  /\ k \in acked \cap Live
  /\ meta[k].kind \in {"active", "view"}
  /\ call' = [call EXCEPT ![p] = Request("mounts", k, {})]
  /\ UNCHANGED <<meta, seq, snapDirs, gcRoots, store, acked, mounted>>

-----------------------------------------------------------------------------
(* Commit and Update, inherited from the overlay snapshotter               *)

\* A client neither commits nor removes a snapshot while it waits for a call
\* about it.
Busy(k) == \E p \in Procs : call[p].waiting /\ call[p].key = k

\* The record moves to its name and keeps its id.  The labels are replaced by
\* those of the call: containerd's unpacker passes the ones it prepared with.
Commit(k, name) ==
  /\ k \in acked \cap Live
  /\ meta[k].kind = "active"
  /\ name \notin Live
  /\ ~Busy(k)
  /\ meta' = [meta EXCEPT ![name] = [meta[k] EXCEPT !.kind = "committed"],
                          ![k] = Absent]
  /\ acked' = (acked \ {k}) \cup {name}
  /\ mounted' = [mounted EXCEPT ![k] = {}]
  /\ UNCHANGED <<seq, snapDirs, gcRoots, store, call>>

\* Update is not overridden: new labels do not reach the GC roots.
Update(k, layer) ==
  /\ "relabel" \in Faults
  /\ k \in acked \cap Live
  /\ meta' = [meta EXCEPT ![k].paths = layer.paths]
  /\ UNCHANGED <<seq, snapDirs, gcRoots, store, call, acked, mounted>>

-----------------------------------------------------------------------------
(* Remove and Cleanup                                                      *)

\* Mutant of CleanupDirectories: the ids are not compared.
CleanupDirectoriesAll(m) == snapDirs

\* getCleanupDirectories (lines 265-295): the directories under snapshots/
\* whose name is no id of the metadata store.  gcroots/ is not scanned: the
\* GC roots to remove are those of the same ids.
CleanupDirectories(m) == snapDirs \ IDMap(m)

\* The removals start once the transaction is over.
Sweep(p, ids) ==
  call' = [call EXCEPT ![p] =
    IF ids = {} THEN Idle
    ELSE [step |-> "sweepDir", key |-> NoKey, id |-> 0,
          todo |-> {}, doomed |-> ids, waiting |-> FALSE]]

\* Mutant of Remove: asyncRemove leaves the directories to a later Cleanup.
RemoveAsync(p, k) ==
  /\ call[p].step = "idle"
  /\ k \in Live
  /\ \A j \in Live : meta[j].parent # k
  /\ ~Busy(k)
  /\ meta' = [meta EXCEPT ![k] = Absent]
  /\ acked' = acked \ {k}
  /\ mounted' = [mounted EXCEPT ![k] = {}]
  /\ UNCHANGED <<seq, snapDirs, gcRoots, store, call>>

\* Mutant of Remove: a snapshot goes although it has children.
RemoveParent(p, k) ==
  /\ call[p].step = "idle"
  /\ k \in Live
  /\ ~Busy(k)
  /\ meta' = [meta EXCEPT ![k] = Absent]
  /\ acked' = acked \ {k}
  /\ mounted' = [mounted EXCEPT ![k] = {}]
  /\ Sweep(p, CleanupDirectories(meta'))
  /\ UNCHANGED <<seq, snapDirs, gcRoots, store>>

\* Remove (lines 191-231): one write transaction deletes the record, unless
\* it has children, and lists the directories without a snapshot.
Remove(p, k) ==
  /\ call[p].step = "idle"
  /\ k \in Live
  /\ \A j \in Live : meta[j].parent # k
  /\ ~Busy(k)
  /\ meta' = [meta EXCEPT ![k] = Absent]
  /\ acked' = acked \ {k}
  /\ mounted' = [mounted EXCEPT ![k] = {}]
  /\ Sweep(p, CleanupDirectories(meta'))
  /\ UNCHANGED <<seq, snapDirs, gcRoots, store>>

\* Cleanup (lines 235-263): the transaction only scans, and is rolled back.
Cleanup(p) ==
  /\ call[p].step = "idle"
  /\ Sweep(p, CleanupDirectories(meta))
  /\ UNCHANGED <<meta, seq, snapDirs, gcRoots, store, acked, mounted>>

\* Mutant of SweepDir: the GC roots are not in the list.
SweepDirOnly(p, d) ==
  /\ call[p].step = "sweepDir"
  /\ d \in call[p].doomed
  /\ snapDirs' = snapDirs \ {d}
  /\ Sweep(p, call[p].doomed \ {d})
  /\ UNCHANGED <<meta, seq, gcRoots, store, acked, mounted>>

\* os.RemoveAll(snapshots/<d>), in the order of Readdirnames, which is any.
\* An error is only logged.
SweepDir(p, d) ==
  /\ call[p].step = "sweepDir"
  /\ d \in call[p].doomed
  /\ \/ snapDirs' = snapDirs \ {d}
     \/ "removeFails" \in Faults /\ UNCHANGED snapDirs
  /\ call' = [call EXCEPT ![p].step = "sweepRoots", ![p].id = d,
                          ![p].doomed = @ \ {d}]
  /\ UNCHANGED <<meta, seq, gcRoots, store, acked, mounted>>

\* Mutant of SweepGCRoots: <root>/gcroots itself is removed.
SweepGCRootsAll(p) ==
  /\ call[p].step = "sweepRoots"
  /\ gcRoots' = [i \in Ids |-> {}]
  /\ Sweep(p, call[p].doomed)
  /\ UNCHANGED <<meta, seq, snapDirs, store, acked, mounted>>

\* os.RemoveAll(gcroots/<d>), the entry after snapshots/<d> in the list.
SweepGCRoots(p) ==
  /\ call[p].step = "sweepRoots"
  /\ \/ gcRoots' = [gcRoots EXCEPT ![call[p].id] = {}]
     \/ "removeFails" \in Faults /\ UNCHANGED gcRoots
  /\ Sweep(p, call[p].doomed)
  /\ UNCHANGED <<meta, seq, snapDirs, store, acked, mounted>>

-----------------------------------------------------------------------------
(* The environment                                                         *)

\* The client stops waiting; neither the handler nor the builder, started by
\* exec.Command without the context (pkg/nix/nix.go:67 and 80), takes notice.
Cancel(p) ==
  /\ "cancel" \in Faults
  /\ call[p].waiting
  /\ call' = [call EXCEPT ![p].waiting = FALSE]
  /\ UNCHANGED <<meta, seq, snapDirs, gcRoots, store, acked, mounted>>

\* The process ends, on a signal (main.go:172-184 does not wait for handlers)
\* or a crash, and starts again: NewSnapshotter reads the same root.
Crash ==
  /\ "crash" \in Faults
  /\ call' = [p \in Procs |-> Idle]
  /\ UNCHANGED <<meta, seq, snapDirs, gcRoots, store, acked, mounted>>

\* A crash inside createSnapshot, its directory in place and nothing recorded.
TornCreate ==
  /\ "tornCreate" \in Faults
  /\ seq < MaxId
  /\ snapDirs' = snapDirs \cup {seq + 1}
  /\ call' = [p \in Procs |-> Idle]
  /\ UNCHANGED <<meta, seq, gcRoots, store, acked, mounted>>

\* nix-collect-garbage deletes a path no GC root protects.
NixGC(path) ==
  /\ path \in store
  /\ \A i \in Ids : path \notin gcRoots[i]
  /\ store' = store \ {path}
  /\ UNCHANGED <<meta, seq, snapDirs, gcRoots, call, acked, mounted>>

-----------------------------------------------------------------------------
\* A goroutine takes a call of the client.
Begin(p) ==
  \/ \E k \in Keys, parent \in Keys \cup {NoKey} :
       \/ \E layer \in Layers :
            Prepare(p, k, parent, layer) \/ View(p, k, parent, layer)
       \/ CreateFails(p, k, parent)
  \/ \E k \in Keys : Mounts(p, k) \/ Remove(p, k)
  \/ Cleanup(p)

\* The goroutine of a call takes its next step.
Continue(p) ==
  \/ Reclaim(p)
  \/ OpenGCRoots(p)
  \/ \E path \in Paths : BuildGCRoot(p, path)
  \/ BuildGCRootFails(p)
  \/ FinishGCRoots(p)
  \/ WithNixBindMounts(p)
  \/ \E d \in Ids : SweepDir(p, d)
  \/ SweepGCRoots(p)

Environment ==
  \/ \E k, name \in Keys : Commit(k, name)
  \/ \E k \in Keys, layer \in Layers : Update(k, layer)
  \/ \E p \in Procs : Cancel(p)
  \/ Crash
  \/ TornCreate
  \/ \E path \in Paths : NixGC(path)

Next ==
  \/ \E p \in Procs : Begin(p) \/ Continue(p)
  \/ Environment

Spec == Init /\ [][Next]_vars

\* The Go scheduler runs a goroutine that can go on, and the builder returns.
Fairness == \A p \in Procs : WF_vars(Continue(p))
FairSpec == Spec /\ Fairness

-----------------------------------------------------------------------------
(* Properties                                                              *)

\* A recorded snapshot has its directory: no sweep of another call, which
\* works from a list made in an earlier transaction, takes it away.
LiveHasDir == LiveIds \subseteq snapDirs

\* "Cleanup cleans up disk resources from removed or abandoned snapshots"
\* (snapshotter.go:234): what a sweep still has to delete, from a list made
\* in an earlier transaction, belongs to no snapshot recorded since.
DoomedDead ==
  \A p \in Procs :
    /\ call[p].doomed \cap LiveIds = {}
    /\ call[p].step = "sweepRoots" => call[p].id \notin LiveIds

\* "we need to prepare gc roots to ensure nix doesn't GC the underlying paths
\* while this snapshot is alive" (snapshotter.go:111-114): once the client was
\* told that Prepare succeeded, every store path of the layer has its GC root,
\* through Commit and until Remove.
AckedRooted == \A k \in acked : meta[k].paths \subseteq gcRoots[meta[k].id]

\* Until "deleted snapshots will remove the corresponding Nix GC roots"
\* (docs/architecture.md:63-64) a snapshot keeps the roots it has: whatever
\* builders fail and labels change, no step of any call takes one away.
RootsStay == [][\A i \in LiveIds \cap LiveIds' : gcRoots[i] \subseteq gcRoots'[i]]_vars

\* The bind mounts the client was given, over the whole chain of parents, are
\* of paths that are in the Nix store for as long as the snapshot lives.
MountedPresent == \A k \in acked : mounted[k] \subseteq store

\* What the holder of snapshot k relies on: the store paths of its labels,
\* once Prepare succeeded, and those of the mounts it was given.
Held == [k \in Keys |-> IF k \in acked THEN meta[k].paths \cup mounted[k] ELSE {}]

Pinned == INSTANCE PinnedStore WITH Holders <- Keys, held <- Held

\* The snapshotter implements PinnedStore: a Prepare, View or Mounts that
\* succeeds acquires paths that are all present, Commit hands them over to the
\* name, and whatever calls, sweeps and crashes do to GC roots, Nix collects
\* no path that a snapshot holds ("to ensure nix doesn't GC the underlying
\* paths while this snapshot is alive", snapshotter.go:111-114).
ImplementsPinnedStore == Pinned!Spec

\* No GC root is out of reach: either the directory of the same id still
\* exists, so that getCleanupDirectories will list it, or the sweep that
\* deleted that directory is about to delete the roots.
NoLeakedRoots ==
  \A i \in Ids : gcRoots[i] # {} =>
    \/ i \in snapDirs
    \/ \E p \in Procs : call[p].step = "sweepRoots" /\ call[p].id = i

\* "deleted snapshots will remove the corresponding Nix GC roots"
\* (docs/architecture.md:63-64): without another call, the GC roots of a
\* snapshot that is no longer recorded go away.
RootsReclaimed ==
  \A i \in Ids : (gcRoots[i] # {} /\ i \notin LiveIds) ~> (gcRoots[i] = {})

\* "Nix store paths referenced by container images will be garbage collected
\* as designed by both systems" (docs/architecture.md:68-70): when no call is
\* under way, the GC roots are those of the recorded snapshots, and of nothing
\* that was removed, aborted or prepared twice.
RootsExact ==
  (\A p \in Procs : call[p].step = "idle") =>
    \A i \in Ids :
      gcRoots[i] = UNION {meta[k].paths : k \in {j \in Live : meta[j].id = i}}

-----------------------------------------------------------------------------
(* Inductive invariants, for the proofs                                    *)

\* The ids of recorded snapshots are distinct, none is beyond the last one handed
\* out, and nobody is about to remove the directory of one.
DirsInv ==
  /\ \A k, j \in Live : meta[k].id = meta[j].id => k = j
  /\ LiveIds \subseteq 1..seq
  /\ \A p \in Procs : call[p].step = "reclaim" => call[p].id \notin LiveIds
  /\ DoomedDead
  /\ LiveHasDir

\* If createSnapshot leaves no directory behind, every id in use anywhere was
\* handed out: the next one is new to the directories and the sweeps.
HandedOut ==
  /\ snapDirs \subseteq 1..seq
  /\ \A p \in Procs :
       /\ call[p].step # "reclaim"
       /\ call[p].doomed \subseteq 1..seq
       /\ call[p].step = "sweepRoots" => call[p].id \in 1..seq

\* What the call of goroutine p has achieved so far, if the client waits for
\* it: the roots of the layer are built or still to do.
Progress(p) ==
  LET k == call[p].key IN
    /\ k \in Live
    /\ call[p].step = "gcRoots" => meta[k].paths \subseteq call[p].todo
    /\ call[p].step = "building" =>
         /\ call[p].id = meta[k].id
         /\ meta[k].paths \subseteq gcRoots[meta[k].id] \cup call[p].todo
    /\ call[p].step = "mounts" => meta[k].paths = {} \/ k \in acked

RootsInv ==
  /\ acked \subseteq Live
  /\ \A p \in Procs : call[p].waiting => Progress(p)
  /\ AckedRooted

\* Chains of parents are of committed snapshots, which the client was told of,
\* so that what it was given to mount is held through them; and what has a
\* root is in the store.
MountsInv ==
  /\ \A i \in Ids : gcRoots[i] \subseteq store
  /\ \A k \in Live :
       /\ meta[k].parent = NoKey \/
            (meta[k].parent \in Live /\ meta[meta[k].parent].kind = "committed")
       /\ meta[k].kind = "committed" => k \in acked
  /\ \A k \in Keys :
       IF k \in acked THEN mounted[k] \subseteq ChainPaths(k) ELSE mounted[k] = {}

\* Without crashes and cancelled calls, roots are built for recorded snapshots
\* alone, since the client waits, and so under ids with a directory.
TidyInv ==
  /\ \A p \in Procs : call[p].step \in {"gcRoots", "building"} =>
       /\ call[p].waiting
       /\ call[p].key \in Live
       /\ call[p].step = "building" => call[p].id = meta[call[p].key].id
  /\ NoLeakedRoots

\* If nothing goes wrong at all, roots are of the labels, every snapshot is
\* either acknowledged or waited for, and some sweep has each directory that
\* belongs to no snapshot on its list.
ExactInv ==
  /\ \A p \in Procs : call[p].step \in {"gcRoots", "building"} =>
       call[p].todo \subseteq meta[call[p].key].paths
  /\ \A p \in Procs : call[p].step \in {"gcRoots", "building", "mounts"} =>
       call[p].waiting /\ call[p].doomed = {}
  /\ \A k \in Live :
       /\ gcRoots[meta[k].id] \subseteq meta[k].paths
       /\ k \in acked \/ \E p \in Procs : call[p].waiting /\ call[p].key = k
  /\ \A i \in snapDirs \ LiveIds : \E p \in Procs : i \in call[p].doomed
=============================================================================
