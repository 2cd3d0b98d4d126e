------------------------- MODULE PinnedStoreProofs -------------------------
(***************************************************************************)
(* Proofs about the store paths of mounts, and that Snapshotter implements *)
(* PinnedStore, for any number of keys, store paths and goroutines.        *)
(***************************************************************************)
EXTENDS SnapshotterProofs

-----------------------------------------------------------------------------
(* Chains of parents                                                       *)

\* A set that has the parents of its members has their whole chains.
LEMMA AncestryIn ==
  ASSUME NEW k, NEW C \in SUBSET Keys, k \in C, ParentClosed(C)
  PROVE  Ancestry(k) \subseteq C
BY DEF Ancestry

\* Parents are recorded, and those of acknowledged snapshots acknowledged.
LEMMA ClosedSets ==
  ASSUME MountsInv, RootsInv
  PROVE  ParentClosed(Live) /\ ParentClosed(acked) /\ acked \in SUBSET Keys
BY DEF MountsInv, RootsInv, ParentClosed, Live

\* A step that leaves the records of such a set alone takes nothing from the
\* chains of its members.
LEMMA ChainKept ==
  ASSUME NEW k, NEW C \in SUBSET Keys, k \in C, ParentClosed(C),
         \A j \in C : meta'[j] = meta[j]
  PROVE  ChainPaths(k) \subseteq ChainPaths(k)'
<1>1. Ancestry(k) \subseteq C
  BY AncestryIn
<1>2. Ancestry(k) \subseteq Ancestry(k)'
  <2> SUFFICES ASSUME NEW j \in Ancestry(k), NEW S \in SUBSET Keys,
                      k \in S, ParentClosed(S)'
               PROVE  j \in S
    BY DEF Ancestry
  <2>1. ParentClosed(S \cap C)
    BY DEF ParentClosed
  <2>2. QED
    BY <2>1 DEF Ancestry
<1>3. \A j \in Ancestry(k) : meta'[j].paths = meta[j].paths
  BY <1>1
<1>4. QED
  BY <1>2, <1>3 DEF ChainPaths

\* The paths that the client relies on have GC roots, and so are in the store.
LEMMA ChainRooted ==
  ASSUME TypeOK, DirsInv, RootsInv, MountsInv, NEW k \in acked
  PROVE  /\ \A path \in ChainPaths(k) : \E i \in Ids : path \in gcRoots[i]
         /\ ChainPaths(k) \subseteq store
<1>1. Ancestry(k) \subseteq acked
  BY ClosedSets, AncestryIn
<1>2. \A j \in acked : meta[j].id \in Ids /\ meta[j].paths \subseteq gcRoots[meta[j].id]
  BY DEF RootsInv, AckedRooted, TypeOK
<1>3. QED
  BY <1>1, <1>2 DEF ChainPaths, MountsInv

-----------------------------------------------------------------------------
(* The invariant                                                           *)

\* A step that leaves records and client alone.
LEMMA QuietMounts ==
  ASSUME MountsInv, UNCHANGED <<meta, acked, mounted>>,
         \A i \in Ids : gcRoots'[i] \subseteq store'
  PROVE  MountsInv'
<1>1. Live' = Live /\ \A k \in Keys : ChainPaths(k)' = ChainPaths(k)
  BY DEF Live, ChainPaths, Ancestry, ParentClosed
<1>2. QED
  BY <1>1 DEF MountsInv

\* A new snapshot is nobody's parent yet.
LEMMA CreateMounts ==
  ASSUME TypeOK, RootsInv, MountsInv, NEW k \in Keys, NEW kind \in {"active", "view"},
         NEW parent, NEW paths, Create(k, kind, parent, paths),
         UNCHANGED <<gcRoots, store, acked, mounted>>
  PROVE  MountsInv'
<1>1. /\ k \notin Live
      /\ meta'[k].kind = kind /\ meta'[k].parent = parent
      /\ \A j \in Keys \ {k} : meta'[j] = meta[j]
      /\ parent = NoKey \/ (parent \in Live /\ meta[parent].kind = "committed")
  BY DEF Create, CanCreate, TypeOK
<1>2. Live \subseteq Keys /\ Live' = Live \cup {k} /\ \A j \in Live : meta'[j] = meta[j]
  BY <1>1 DEF Live
<1>3. \A j \in Live' :
        /\ meta'[j].parent = NoKey \/
             (meta'[j].parent \in Live' /\ meta'[meta'[j].parent].kind = "committed")
        /\ meta'[j].kind = "committed" => j \in acked'
  BY <1>1, <1>2 DEF MountsInv
<1>4. \A j \in acked : ChainPaths(j) \subseteq ChainPaths(j)'
  BY <1>2, ClosedSets, ChainKept DEF RootsInv
<1>5. QED
  BY <1>3, <1>4 DEF MountsInv

\* A call returns mounts of the chain of its snapshot, or none.
LEMMA ReturnMounts ==
  ASSUME TypeOK, MountsInv, NEW p \in Procs, NEW ok, NEW paths,
         Return(p, ok, paths), UNCHANGED <<meta, gcRoots, store>>,
         ok /\ call[p].waiting => paths \subseteq ChainPaths(call[p].key)
  PROVE  MountsInv'
<1>1. Live' = Live /\ \A k \in Keys : ChainPaths(k)' = ChainPaths(k)
  BY DEF Live, ChainPaths, Ancestry, ParentClosed
<1>2. CASE ok /\ call[p].waiting
  <2>1. /\ acked' = acked \cup {call[p].key} /\ call[p].key \in Keys
        /\ \A k \in Keys : mounted'[k] = IF k = call[p].key THEN paths ELSE mounted[k]
    BY <1>2 DEF Return, TypeOK
  <2>2. QED
    BY <1>1, <1>2, <2>1 DEF MountsInv
<1>3. CASE ~(ok /\ call[p].waiting)
  BY <1>3, QuietMounts DEF Return, MountsInv
<1>4. QED
  BY <1>2, <1>3

\* Only a snapshot that is nobody's parent is removed.
LEMMA RemoveMounts ==
  ASSUME TypeOK, RootsInv, MountsInv, NEW p \in Procs, NEW k \in Keys, Remove(p, k)
  PROVE  MountsInv'
<1>1. /\ \A j \in Live : meta[j].parent # k
      /\ meta'[k] = Absent /\ \A j \in Keys \ {k} : meta'[j] = meta[j]
      /\ acked' = acked \ {k} /\ UNCHANGED <<gcRoots, store>>
      /\ mounted'[k] = {} /\ \A j \in Keys \ {k} : mounted'[j] = mounted[j]
  BY DEF Remove, TypeOK
<1>2. Live' = Live \ {k} /\ Live \subseteq Keys
  BY <1>1 DEF Live, Absent
<1>3. ParentClosed(Live \ {k})
  BY <1>1, ClosedSets DEF ParentClosed
<1>4. \A j \in acked' : ChainPaths(j) \subseteq ChainPaths(j)'
  BY <1>1, <1>2, <1>3, ChainKept DEF RootsInv
<1>5. \A j \in Live' :
        /\ meta'[j].parent = NoKey \/
             (meta'[j].parent \in Live' /\ meta'[meta'[j].parent].kind = "committed")
        /\ meta'[j].kind = "committed" => j \in acked'
  BY <1>1, <1>2 DEF MountsInv
<1>6. QED
  BY <1>1, <1>4, <1>5 DEF MountsInv

\* A snapshot that is committed was nobody's parent, and its name was free.
LEMMA CommitMounts ==
  ASSUME TypeOK, RootsInv, MountsInv, NEW k \in Keys, NEW name \in Keys,
         Commit(k, name)
  PROVE  MountsInv'
<1>1. /\ k \in Live /\ k # name /\ name \notin Live /\ name \notin acked
      /\ meta[k].kind = "active"
      /\ acked' = (acked \ {k}) \cup {name} /\ UNCHANGED <<gcRoots, store>>
      /\ mounted'[k] = {} /\ \A j \in Keys \ {k} : mounted'[j] = mounted[j]
  BY DEF Commit, TypeOK, RootsInv
<1>2. /\ meta'[name].parent = meta[k].parent /\ meta'[name].kind = "committed"
      /\ meta'[k] = Absent /\ \A j \in Keys \ {k, name} : meta'[j] = meta[j]
  BY CommitRecords
<1>3. Live' = (Live \ {k}) \cup {name} /\ Live \subseteq Keys
  BY <1>1, <1>2 DEF Live, Absent
<1>4. ParentClosed(Live \ {k})
  BY <1>1, ClosedSets DEF ParentClosed, MountsInv
<1>5. \A j \in acked \ {k} : ChainPaths(j) \subseteq ChainPaths(j)'
  BY <1>1, <1>2, <1>3, <1>4, ChainKept DEF RootsInv
<1>6. \A j \in Live' :
        /\ meta'[j].parent = NoKey \/
             (meta'[j].parent \in Live' /\ meta'[meta'[j].parent].kind = "committed")
        /\ meta'[j].kind = "committed" => j \in acked'
  BY <1>1, <1>2, <1>3 DEF MountsInv
<1>7. mounted'[name] = {}
  BY <1>1 DEF MountsInv
<1>8. QED
  BY <1>1, <1>5, <1>6, <1>7 DEF MountsInv

\* What holds in every state, under the conditions of RootsKept.
Safe == TypeOK /\ DirsInv /\ RootsInv /\ MountsInv

\* Every step keeps MountsInv.
LEMMA MountsStep ==
  ASSUME "builderFails" \notin Faults, "relabel" \notin Faults
  PROVE  Safe /\ [Next]_vars => MountsInv'
<1> SUFFICES ASSUME Safe, [Next]_vars
             PROVE  MountsInv'
  OBVIOUS
<1> USE DEF Safe
<1>0. MountsInv /\ \A i \in Ids : gcRoots[i] \subseteq store
  BY DEF MountsInv
<1>1. ASSUME NEW p \in Procs, NEW k \in Keys, NEW parent \in Keys \cup {NoKey},
             NEW layer \in Layers, Prepare(p, k, parent, layer)
      PROVE  MountsInv'
  BY <1>1, CreateMounts DEF Prepare
<1>2. ASSUME NEW p \in Procs, NEW k \in Keys, NEW parent \in Keys \cup {NoKey},
             NEW layer \in Layers, View(p, k, parent, layer)
      PROVE  MountsInv'
  BY <1>2, CreateMounts DEF View
<1>3. ASSUME NEW p \in Procs, NEW k \in Keys, NEW parent \in Keys \cup {NoKey},
             CreateFails(p, k, parent)
      PROVE  MountsInv'
  BY <1>0, <1>3, QuietMounts DEF CreateFails
<1>4. ASSUME NEW p \in Procs, NEW k \in Keys, Mounts(p, k)
      PROVE  MountsInv'
  BY <1>0, <1>4, QuietMounts DEF Mounts
<1>5. ASSUME NEW p \in Procs, NEW k \in Keys, Remove(p, k)
      PROVE  MountsInv'
  BY <1>5, RemoveMounts
<1>6. ASSUME NEW p \in Procs, Cleanup(p)
      PROVE  MountsInv'
  BY <1>0, <1>6, QuietMounts DEF Cleanup
<1>7. ASSUME NEW p \in Procs, Reclaim(p)
      PROVE  MountsInv'
  BY <1>0, <1>7, QuietMounts DEF Reclaim
<1>8. ASSUME NEW p \in Procs, OpenGCRoots(p)
      PROVE  MountsInv'
  <2>1. CASE call[p].key \in Live
    BY <1>0, <1>8, <2>1, QuietMounts DEF OpenGCRoots
  <2>2. CASE call[p].key \notin Live
    BY <1>8, <2>2, ReturnMounts DEF OpenGCRoots
  <2>3. QED
    BY <2>1, <2>2
<1>9. ASSUME NEW p \in Procs, NEW path \in Paths, BuildGCRoot(p, path)
      PROVE  MountsInv'
  <2>1. \A i \in Ids : gcRoots'[i] \subseteq store'
    BY <1>0, <1>9 DEF BuildGCRoot, TypeOK
  <2>2. QED
    BY <1>9, <2>1, QuietMounts DEF BuildGCRoot
<1>10. ASSUME NEW p \in Procs, BuildGCRootFails(p)
       PROVE  FALSE
  BY <1>10 DEF BuildGCRootFails
<1>11. ASSUME NEW p \in Procs, FinishGCRoots(p)
       PROVE  MountsInv'
  BY <1>11, ReturnMounts DEF FinishGCRoots
<1>12. ASSUME NEW p \in Procs, WithNixBindMounts(p)
       PROVE  MountsInv'
  BY <1>12, ReturnMounts DEF WithNixBindMounts
<1>13. ASSUME NEW p \in Procs, NEW d \in Ids, SweepDir(p, d)
       PROVE  MountsInv'
  BY <1>0, <1>13, QuietMounts DEF SweepDir
<1>14. ASSUME NEW p \in Procs, SweepGCRoots(p)
       PROVE  MountsInv'
  <2>1. \A i \in Ids : gcRoots'[i] \subseteq store'
    BY <1>0, <1>14 DEF SweepGCRoots, TypeOK
  <2>2. QED
    BY <1>14, <2>1, QuietMounts DEF SweepGCRoots
<1>15. ASSUME NEW k \in Keys, NEW name \in Keys, Commit(k, name)
       PROVE  MountsInv'
  BY <1>15, CommitMounts
<1>16. ASSUME NEW k \in Keys, NEW layer \in Layers, Update(k, layer)
       PROVE  FALSE
  BY <1>16 DEF Update
<1>17. ASSUME NEW p \in Procs, Cancel(p)
       PROVE  MountsInv'
  BY <1>0, <1>17, QuietMounts DEF Cancel
<1>18. CASE Crash
  BY <1>0, <1>18, QuietMounts DEF Crash
<1>19. CASE TornCreate
  BY <1>0, <1>19, QuietMounts DEF TornCreate
<1>20. ASSUME NEW path \in Paths, NixGC(path)
       PROVE  MountsInv'
  <2>1. \A i \in Ids : gcRoots'[i] \subseteq store'
    BY <1>0, <1>20 DEF NixGC
  <2>2. QED
    BY <1>20, <2>1, QuietMounts DEF NixGC
<1>21. CASE UNCHANGED vars
  BY <1>0, <1>21, QuietMounts DEF vars
<1>22. QED
  BY <1>1, <1>2, <1>3, <1>4, <1>5, <1>6, <1>7, <1>8, <1>9, <1>10, <1>11, <1>12,
     <1>13, <1>14, <1>15, <1>16, <1>17, <1>18, <1>19, <1>20, <1>21
     DEF Next, Begin, Continue, Environment

\* The parts of Safe together, in every behaviour.
LEMMA SafeAlways ==
  ASSUME Orderly, "builderFails" \notin Faults, "relabel" \notin Faults
  PROVE  Spec => []Safe
<1>1. Init => RootsInv /\ MountsInv
  BY DEF Init, RootsInv, MountsInv, AckedRooted, Live, Absent, Idle
<1>2. Safe /\ [Next]_vars => RootsInv' /\ MountsInv'
  BY RootsStep, MountsStep DEF Safe
<1>3. QED
  BY <1>1, <1>2, TypeCorrect, DirsAlways, PTL DEF Spec, Safe

\* What a client was given to mount stays in the Nix store until it removes
\* the snapshot, over the whole chain of parents, under the conditions of
\* RootsKept and whatever sweeps, crashes, cancelled calls and collections
\* happen (snapshotter.go:315-357).
THEOREM MountsKept ==
  ASSUME Orderly, "builderFails" \notin Faults, "relabel" \notin Faults
  PROVE  Spec => []MountedPresent
<1>1. Safe => MountedPresent
  BY ChainRooted DEF Safe, MountsInv, MountedPresent, RootsInv, Live
<1>2. QED
  BY <1>1, SafeAlways, PTL

-----------------------------------------------------------------------------
(* Refinement                                                              *)

\* What is held is in the store, under a GC root.
HeldRooted ==
  \A k \in Keys :
    /\ Held[k] \subseteq store
    /\ \A path \in Held[k] : \E i \in Ids : path \in gcRoots[i]

LEMMA SafeHeld == Safe => HeldRooted
<1> SUFFICES ASSUME Safe, NEW k \in acked, k \in Keys
             PROVE  /\ meta[k].paths \cup mounted[k] \subseteq store
                    /\ \A path \in meta[k].paths \cup mounted[k] :
                         \E i \in Ids : path \in gcRoots[i]
  BY DEF HeldRooted, Held
<1>1. mounted[k] \subseteq ChainPaths(k)
  BY DEF Safe, MountsInv
<1>2. /\ \A path \in ChainPaths(k) : \E i \in Ids : path \in gcRoots[i]
      /\ ChainPaths(k) \subseteq store
  BY ChainRooted DEF Safe
<1>3. meta[k].paths \subseteq gcRoots[meta[k].id] /\ meta[k].id \in Ids
  BY DEF Safe, RootsInv, AckedRooted, TypeOK
<1>4. gcRoots[meta[k].id] \subseteq store
  BY <1>3 DEF Safe, MountsInv
<1>5. QED
  BY <1>1, <1>2, <1>3, <1>4

\* A step that changes nothing the client relies on is a stutter.
LEMMA HeldSame ==
  ASSUME Safe, UNCHANGED <<store, acked, mounted>>,
         \A k \in acked : meta'[k] = meta[k]
  PROVE  UNCHANGED Pinned!vars
BY DEF Held, Pinned!vars

\* A call that returns acquires, or tells nobody.
LEMMA HeldReturn ==
  ASSUME Safe, HeldRooted', NEW p \in Procs, NEW ok, NEW paths,
         Return(p, ok, paths), UNCHANGED <<meta, store>>
  PROVE  [Pinned!Next]_(Pinned!vars)
<1>1. CASE ok /\ call[p].waiting
  <2> DEFINE k == call[p].key
  <2>1. /\ k \in Keys /\ acked' = acked \cup {k}
        /\ \A j \in Keys \ {k} : mounted'[j] = mounted[j]
    BY <1>1 DEF Return, Safe, TypeOK
  <2>2. Held' = [Held EXCEPT ![k] = Held'[k]]
    BY <2>1 DEF Held
  <2>3. Held'[k] \subseteq store
    BY <2>1 DEF HeldRooted
  <2>4. store \subseteq Paths
    BY DEF Safe, TypeOK
  <2>5. Pinned!Acquire(k, Held'[k])
    BY <2>2, <2>3 DEF Pinned!Acquire
  <2>6. Held'[k] \in SUBSET Paths
    BY <2>3, <2>4
  <2>7. QED
    BY <2>1, <2>5, <2>6 DEF Pinned!Next
<1>2. CASE ~(ok /\ call[p].waiting)
  BY <1>2, HeldSame DEF Return
<1>3. QED
  BY <1>1, <1>2

\* Commit hands the paths of a snapshot over to its name, which holds none.
LEMMA HeldCommit ==
  ASSUME Safe, NEW k \in Keys, NEW name \in Keys, Commit(k, name)
  PROVE  Pinned!HandOver(k, name, meta[k].paths)
<1>1. /\ k \in acked /\ k # name /\ name \notin acked
      /\ acked' = (acked \ {k}) \cup {name} /\ UNCHANGED store
      /\ mounted'[k] = {} /\ \A j \in Keys \ {k} : mounted'[j] = mounted[j]
      /\ mounted[name] = {}
  BY DEF Commit, Safe, TypeOK, RootsInv, MountsInv, Live
<1>2. meta'[name].paths = meta[k].paths /\ \A j \in Keys \ {k, name} : meta'[j] = meta[j]
  BY CommitRecords DEF Safe
<1>3. Held[name] = {} /\ meta[k].paths \subseteq Held[k]
  BY <1>1 DEF Held
<1>4. Held' = [Held EXCEPT ![k] = {}, ![name] = meta[k].paths]
  BY <1>1, <1>2 DEF Held
<1>5. QED
  BY <1>1, <1>3, <1>4 DEF Pinned!HandOver

\* Every step of the snapshotter is a step of PinnedStore or a stutter.
LEMMA PinnedStep ==
  ASSUME "builderFails" \notin Faults, "relabel" \notin Faults
  PROVE  Safe /\ HeldRooted /\ HeldRooted' /\ [Next]_vars
           => [Pinned!Next]_(Pinned!vars)
<1> SUFFICES ASSUME Safe, HeldRooted, HeldRooted', [Next]_vars
             PROVE  [Pinned!Next]_(Pinned!vars)
  OBVIOUS
<1>0. acked \subseteq Live /\ acked \subseteq Keys
  BY DEF Safe, RootsInv, Live
<1>1. ASSUME NEW p \in Procs, NEW k \in Keys, NEW parent \in Keys \cup {NoKey},
             NEW layer \in Layers, Prepare(p, k, parent, layer)
      PROVE  UNCHANGED Pinned!vars
  BY <1>0, <1>1, HeldSame DEF Prepare, Create, CanCreate, Safe, TypeOK
<1>2. ASSUME NEW p \in Procs, NEW k \in Keys, NEW parent \in Keys \cup {NoKey},
             NEW layer \in Layers, View(p, k, parent, layer)
      PROVE  UNCHANGED Pinned!vars
  BY <1>0, <1>2, HeldSame DEF View, Create, CanCreate, Safe, TypeOK
<1>3. ASSUME NEW p \in Procs, NEW k \in Keys, NEW parent \in Keys \cup {NoKey},
             CreateFails(p, k, parent)
      PROVE  UNCHANGED Pinned!vars
  BY <1>3, HeldSame DEF CreateFails
<1>4. ASSUME NEW p \in Procs, NEW k \in Keys, Mounts(p, k)
      PROVE  UNCHANGED Pinned!vars
  BY <1>4, HeldSame DEF Mounts
<1>5. ASSUME NEW p \in Procs, NEW k \in Keys, Remove(p, k)
      PROVE  [Pinned!Next]_(Pinned!vars)
  <2>1. /\ acked' = acked \ {k} /\ UNCHANGED store
        /\ \A j \in Keys \ {k} : meta'[j] = meta[j] /\ mounted'[j] = mounted[j]
    BY <1>5 DEF Remove, Safe, TypeOK
  <2>2. Held' = [Held EXCEPT ![k] = {}]
    BY <2>1 DEF Held
  <2>3. QED
    BY <2>1, <2>2 DEF Pinned!Release, Pinned!Next
<1>6. ASSUME NEW p \in Procs, Cleanup(p)
      PROVE  UNCHANGED Pinned!vars
  BY <1>6, HeldSame DEF Cleanup
<1>7. ASSUME NEW p \in Procs, Reclaim(p)
      PROVE  UNCHANGED Pinned!vars
  BY <1>7, HeldSame DEF Reclaim
<1>8. ASSUME NEW p \in Procs, OpenGCRoots(p)
      PROVE  [Pinned!Next]_(Pinned!vars)
  <2>1. CASE call[p].key \in Live
    BY <1>8, <2>1, HeldSame DEF OpenGCRoots
  <2>2. CASE call[p].key \notin Live
    BY <1>8, <2>2, HeldReturn DEF OpenGCRoots
  <2>3. QED
    BY <2>1, <2>2
<1>9. ASSUME NEW p \in Procs, NEW path \in Paths, BuildGCRoot(p, path)
      PROVE  [Pinned!Next]_(Pinned!vars)
  <2>1. Held' = Held /\ store' = store \cup {path}
    BY <1>9 DEF BuildGCRoot, Held
  <2>2. QED
    BY <2>1 DEF Pinned!Fetch, Pinned!Next
<1>10. ASSUME NEW p \in Procs, BuildGCRootFails(p)
       PROVE  FALSE
  BY <1>10 DEF BuildGCRootFails
<1>11. ASSUME NEW p \in Procs, FinishGCRoots(p)
       PROVE  [Pinned!Next]_(Pinned!vars)
  BY <1>11, HeldReturn DEF FinishGCRoots
<1>12. ASSUME NEW p \in Procs, WithNixBindMounts(p)
       PROVE  [Pinned!Next]_(Pinned!vars)
  BY <1>12, HeldReturn DEF WithNixBindMounts
<1>13. ASSUME NEW p \in Procs, NEW d \in Ids, SweepDir(p, d)
       PROVE  UNCHANGED Pinned!vars
  BY <1>13, HeldSame DEF SweepDir
<1>14. ASSUME NEW p \in Procs, SweepGCRoots(p)
       PROVE  UNCHANGED Pinned!vars
  BY <1>14, HeldSame DEF SweepGCRoots
<1>15. ASSUME NEW k \in Keys, NEW name \in Keys, Commit(k, name)
       PROVE  [Pinned!Next]_(Pinned!vars)
  <2>1. meta[k].paths \in SUBSET Paths
    BY DEF Safe, TypeOK, Snapshot
  <2>2. QED
    BY <1>15, <2>1, HeldCommit DEF Pinned!Next
<1>16. ASSUME NEW k \in Keys, NEW layer \in Layers, Update(k, layer)
       PROVE  FALSE
  BY <1>16 DEF Update
<1>17. ASSUME NEW p \in Procs, Cancel(p)
       PROVE  UNCHANGED Pinned!vars
  BY <1>17, HeldSame DEF Cancel
<1>18. CASE Crash
  BY <1>18, HeldSame DEF Crash
<1>19. CASE TornCreate
  BY <1>19, HeldSame DEF TornCreate
<1>20. ASSUME NEW path \in Paths, NixGC(path)
       PROVE  [Pinned!Next]_(Pinned!vars)
  <2>1. \A k \in Keys : path \notin Held[k]
    BY <1>20 DEF NixGC, HeldRooted
  <2>2. Held' = Held /\ store' = store \ {path}
    BY <1>20 DEF NixGC, Held
  <2>3. QED
    BY <2>1, <2>2 DEF Pinned!Collect, Pinned!Next
<1>21. CASE UNCHANGED vars
  BY <1>21, HeldSame DEF vars
<1>22. QED
  BY <1>1, <1>2, <1>3, <1>4, <1>5, <1>6, <1>7, <1>8, <1>9, <1>10, <1>11, <1>12,
     <1>13, <1>14, <1>15, <1>16, <1>17, <1>18, <1>19, <1>20, <1>21
     DEF Next, Begin, Continue, Environment

\* Nobody holds anything to begin with.
LEMMA PinnedInit == Init => Pinned!Init
BY DEF Init, Pinned!Init, Held

\* The snapshotter implements PinnedStore: whatever calls, sweeps, crashes and
\* cancelled calls do, Nix collects no path that a snapshot holds, and a call
\* that succeeds acquires only paths that are present (snapshotter.go:98-186).
THEOREM ImplementsStore ==
  ASSUME Orderly, "builderFails" \notin Faults, "relabel" \notin Faults
  PROVE  Spec => ImplementsPinnedStore
<1>1. Safe => HeldRooted
  BY SafeHeld
<1>2. Safe /\ HeldRooted /\ HeldRooted' /\ [Next]_vars => [Pinned!Next]_(Pinned!vars)
  BY PinnedStep
<1>3. QED
  BY <1>1, <1>2, PinnedInit, SafeAlways, PTL DEF Spec, ImplementsPinnedStore, Pinned!Spec
=============================================================================
