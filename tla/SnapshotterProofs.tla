------------------------- MODULE SnapshotterProofs -------------------------
(***************************************************************************)
(* Proofs about Snapshotter, for any number of keys, store paths and       *)
(* goroutines.                                                             *)
(***************************************************************************)
EXTENDS Snapshotter, TLAPS

-----------------------------------------------------------------------------
(* Type correctness                                                        *)

\* The records of goroutines and their relation, which every action keeps.
CallsOK ==
  /\ call \in [Procs -> Call]
  /\ \A p \in Procs : /\ call[p].step = "idle" => call[p] = Idle
                      /\ call[p].waiting =>
                           /\ call[p].key \in Keys
                           /\ call[p].step \in {"gcRoots", "building", "mounts"}
                      /\ call[p].step \in {"building", "sweepRoots", "reclaim"} =>
                           call[p].id \in Ids

\* A goroutine without a call has a well-typed record.
LEMMA IdleType == Idle \in Call /\ ~Idle.waiting /\ Idle.step = "idle"
BY DEF Idle, Call, Steps

\* A goroutine whose record is replaced by c, the others being left alone.
LEMMA MoveType ==
  ASSUME TypeOK, NEW p \in Procs, NEW c \in Call,
         c.step # "idle",
         c.step \in {"building", "sweepRoots", "reclaim"} => c.id \in Ids,
         c.waiting => c.key \in Keys /\ c.step \in {"gcRoots", "building", "mounts"},
         call' = [call EXCEPT ![p] = c]
  PROVE  CallsOK'
<1>1. call' \in [Procs -> Call]
  BY DEF TypeOK
<1>2. \A q \in Procs : call'[q] = IF q = p THEN c ELSE call[q]
  BY DEF TypeOK
<1>3. QED
  BY <1>1, <1>2 DEF TypeOK, CallsOK

\* A goroutine that returns leaves the client with well-typed records.
LEMMA ReturnType ==
  ASSUME TypeOK, NEW p \in Procs, NEW ok \in BOOLEAN,
         NEW paths \in SUBSET Paths, Return(p, ok, paths)
  PROVE  CallsOK' /\ acked' \subseteq Keys /\ mounted' \in [Keys -> SUBSET Paths]
<1>1. CallsOK'
  BY IdleType DEF Return, TypeOK, CallsOK
<1>2. acked' \subseteq Keys /\ mounted' \in [Keys -> SUBSET Paths]
  BY DEF Return, TypeOK
<1>3. QED
  BY <1>1, <1>2

\* A goroutine that starts a sweep, or goes on with it, has a typed record.
LEMMA SweepType ==
  ASSUME TypeOK, NEW p \in Procs, NEW ids \in SUBSET Nat, Sweep(p, ids)
  PROVE  CallsOK'
BY IdleType DEF Sweep, TypeOK, CallsOK, Idle, Call, Steps

\* createSnapshot hands out an id within the bound and records a snapshot.
LEMMA CreateType ==
  ASSUME TypeOK, NEW k \in Keys, NEW kind \in Kinds,
         NEW parent \in Keys \cup {NoKey}, NEW paths \in SUBSET Paths,
         Create(k, kind, parent, paths)
  PROVE  /\ meta' \in [Keys -> Snapshot]
         /\ \A j \in Live' : meta'[j].id \in Ids
         /\ seq' \in 0..MaxId
         /\ snapDirs' \subseteq Ids
<1>1. seq + 1 \in Ids /\ seq + 1 \in 0..MaxId /\ seq + 1 \in Nat
  BY BoundAssumption DEF TypeOK, Create, CanCreate, Ids
<1>2. [kind |-> kind, id |-> seq + 1, parent |-> parent, paths |-> paths]
        \in Snapshot
  BY <1>1 DEF Snapshot
<1>3. \A j \in Live' : j = k \/ j \in Live
  BY DEF Create, TypeOK, Live
<1>4. QED
  BY <1>1, <1>2, <1>3 DEF TypeOK, Create

\* What is listed for removal are ids.
LEMMA CleanupType ==
  ASSUME TypeOK, NEW m
  PROVE  CleanupDirectories(m) \in SUBSET Nat
<1>1. snapDirs \subseteq Nat
  BY BoundAssumption DEF TypeOK, Ids
<1>2. CleanupDirectories(m) \subseteq snapDirs
  BY DEF CleanupDirectories
<1>3. QED
  BY <1>1, <1>2

\* Every step keeps the types.
LEMMA TypeStep == TypeOK /\ [Next]_vars => TypeOK'
<1> SUFFICES ASSUME TypeOK, [Next]_vars
             PROVE  TypeOK'
  OBVIOUS
<1>0. UNCHANGED meta => \A k \in Live' : meta'[k].id \in Ids
  BY DEF TypeOK, Live
<1> USE <1>0 DEF CallsOK
<1>1. ASSUME NEW p \in Procs, NEW k \in Keys, NEW parent \in Keys \cup {NoKey},
             NEW layer \in Layers, Prepare(p, k, parent, layer)
      PROVE  TypeOK'
  <2>1. layer.paths \in SUBSET Paths
    BY LayersAssumption
  <2>2. /\ meta' \in [Keys -> Snapshot] /\ \A j \in Live' : meta'[j].id \in Ids
        /\ seq' \in 0..MaxId /\ snapDirs' \subseteq Ids
    BY <1>1, <2>1, CreateType DEF Prepare, Kinds
  <2>3. CallsOK'
    BY <1>1, <2>1 DEF Prepare, Request, TypeOK, Idle, Call, Steps
  <2>4. QED
    BY <1>1, <2>2, <2>3 DEF Prepare, TypeOK
<1>2. ASSUME NEW p \in Procs, NEW k \in Keys, NEW parent \in Keys \cup {NoKey},
             NEW layer \in Layers, View(p, k, parent, layer)
      PROVE  TypeOK'
  <2>1. /\ meta' \in [Keys -> Snapshot] /\ \A j \in Live' : meta'[j].id \in Ids
        /\ seq' \in 0..MaxId /\ snapDirs' \subseteq Ids
    BY <1>2, LayersAssumption, CreateType DEF View, Kinds
  <2>2. CallsOK'
    BY <1>2 DEF View, Request, TypeOK, Idle, Call, Steps
  <2>3. QED
    BY <1>2, <2>1, <2>2 DEF View, TypeOK
<1>3. ASSUME NEW p \in Procs, NEW k \in Keys, NEW parent \in Keys \cup {NoKey},
             CreateFails(p, k, parent)
      PROVE  TypeOK'
  <2>1. seq + 1 \in Ids /\ seq + 1 \in Nat
    BY <1>3, BoundAssumption DEF TypeOK, CreateFails, CanCreate, Ids
  <2>2. CallsOK'
    BY <1>3, <2>1 DEF CreateFails, TypeOK, Idle, Call, Steps
  <2>3. QED
    BY <1>3, <2>1, <2>2 DEF CreateFails, TypeOK
<1>4. ASSUME NEW p \in Procs, NEW k \in Keys, Mounts(p, k)
      PROVE  TypeOK'
  <2> DEFINE c == Request("mounts", k, {})
  <2>1. call' = [call EXCEPT ![p] = c]
    BY <1>4 DEF Mounts
  <2>2. c \in Call /\ c.step = "mounts" /\ c.key \in Keys
    BY DEF Request, Call, Steps
  <2>3. CallsOK'
    <3> HIDE DEF c
    <3> QED BY <2>1, <2>2, MoveType
  <2>4. QED
    BY <1>4, <2>3 DEF Mounts, TypeOK
<1>5. ASSUME NEW p \in Procs, NEW k \in Keys, Remove(p, k)
      PROVE  TypeOK'
  <2>1. Absent \in Snapshot
    BY DEF Absent, Snapshot, Kinds
  <2>2. CleanupDirectories(meta') \in SUBSET Nat
    BY CleanupType
  <2>3. CallsOK'
    BY <1>5, <2>2, SweepType DEF Remove
  <2>4. \A j \in Live' : j \in Live /\ meta'[j] = meta[j]
    BY <1>5 DEF Remove, TypeOK, Live, Absent
  <2>5. QED
    BY <1>5, <2>1, <2>3, <2>4 DEF Remove, TypeOK
<1>6. ASSUME NEW p \in Procs, Cleanup(p)
      PROVE  TypeOK'
  <2>1. CleanupDirectories(meta) \in SUBSET Nat
    BY CleanupType
  <2>2. CallsOK'
    BY <1>6, <2>1, SweepType DEF Cleanup
  <2>3. QED
    BY <1>6, <2>2 DEF Cleanup, TypeOK
<1>7. ASSUME NEW p \in Procs, Reclaim(p)
      PROVE  TypeOK'
  BY <1>7, IdleType DEF Reclaim, TypeOK
<1>8. ASSUME NEW p \in Procs, OpenGCRoots(p)
      PROVE  TypeOK'
  <2>1. CASE call[p].key \in Live
    <3> DEFINE c == [call[p] EXCEPT !.step = "building", !.id = meta[call[p].key].id]
    <3>1. call' = [call EXCEPT ![p] = c]
      BY <1>8, <2>1 DEF OpenGCRoots
    <3>2. call[p] \in Call /\ meta[call[p].key].id \in Nat
      BY <2>1 DEF TypeOK, Live, Snapshot
    <3>3. c \in Call /\ c.step = "building" /\ c.id \in Ids
      BY <2>1, <3>2 DEF Call, Steps, TypeOK
    <3>4. c.waiting => c.key \in Keys
      BY <3>2 DEF TypeOK, Call
    <3>5. CallsOK'
      <4> HIDE DEF c
      <4> QED BY <3>1, <3>3, <3>4, MoveType
    <3> QED
      BY <1>8, <2>1, <3>5 DEF OpenGCRoots, TypeOK
  <2>2. CASE call[p].key \notin Live
    BY <1>8, <2>2, ReturnType DEF OpenGCRoots, TypeOK
  <2>3. QED
    BY <2>1, <2>2
<1>9. ASSUME NEW p \in Procs, NEW path \in Paths, BuildGCRoot(p, path)
      PROVE  TypeOK'
  <2> DEFINE c == [call[p] EXCEPT !.todo = @ \ {path}]
  <2>1. call' = [call EXCEPT ![p] = c]
    BY <1>9 DEF BuildGCRoot
  <2>2. call[p] \in Call /\ call[p].step = "building"
    BY <1>9 DEF BuildGCRoot, TypeOK
  <2>3. c \in Call /\ c.step = "building" /\ c.id \in Ids
    BY <2>2 DEF Call, TypeOK
  <2>4. c.waiting => c.key \in Keys
    BY <2>2 DEF TypeOK, Call
  <2>5. CallsOK'
    <3> HIDE DEF c
    <3> QED BY <2>1, <2>3, <2>4, MoveType
  <2>6. store' \subseteq Paths /\ gcRoots' \in [Ids -> SUBSET Paths]
    BY <1>9 DEF BuildGCRoot, TypeOK
  <2>7. QED
    BY <1>9, <2>5, <2>6 DEF BuildGCRoot, TypeOK
<1>10. ASSUME NEW p \in Procs, BuildGCRootFails(p)
       PROVE  TypeOK'
  BY <1>10, ReturnType DEF BuildGCRootFails, TypeOK
<1>11. ASSUME NEW p \in Procs, FinishGCRoots(p)
       PROVE  TypeOK'
  BY <1>11, ReturnType DEF FinishGCRoots, TypeOK
<1>12. ASSUME NEW p \in Procs, WithNixBindMounts(p)
       PROVE  TypeOK'
  <2>1. ChainPaths(call[p].key) \in SUBSET Paths
    BY DEF ChainPaths, Ancestry, TypeOK, Snapshot
  <2>2. QED
    BY <1>12, <2>1, ReturnType DEF WithNixBindMounts, TypeOK
<1>13. ASSUME NEW p \in Procs, NEW d \in Ids, SweepDir(p, d)
       PROVE  TypeOK'
  <2> DEFINE c == [call[p] EXCEPT !.step = "sweepRoots", !.id = d, !.doomed = @ \ {d}]
  <2>1. call' = [call EXCEPT ![p] = c]
    BY <1>13 DEF SweepDir
  <2>2. call[p] \in Call /\ call[p].step = "sweepDir" /\ d \in Nat
    BY <1>13, BoundAssumption DEF SweepDir, TypeOK, Ids
  <2>3. c \in Call /\ c.step = "sweepRoots" /\ c.id \in Ids
    BY <2>2 DEF Call, Steps
  <2>4. ~c.waiting
    BY <2>2 DEF TypeOK, Call
  <2>5. CallsOK'
    <3> HIDE DEF c
    <3> QED BY <2>1, <2>3, <2>4, MoveType
  <2>6. QED
    BY <1>13, <2>5 DEF SweepDir, TypeOK
<1>14. ASSUME NEW p \in Procs, SweepGCRoots(p)
       PROVE  TypeOK'
  <2>1. CallsOK'
    BY <1>14, SweepType DEF SweepGCRoots, TypeOK, Call
  <2>2. QED
    BY <1>14, <2>1 DEF SweepGCRoots, TypeOK
<1>15. ASSUME NEW k \in Keys, NEW name \in Keys, Commit(k, name)
       PROVE  TypeOK'
  <2>1. meta[k] \in Snapshot /\ Absent \in Snapshot
    BY DEF TypeOK, Snapshot, Kinds, Absent
  <2>2. [meta[k] EXCEPT !.kind = "committed"] \in Snapshot
    BY <2>1 DEF Snapshot, Kinds
  <2>3. meta' \in [Keys -> Snapshot]
    BY <1>15, <2>1, <2>2 DEF Commit, TypeOK
  <2>4. \A j \in Live' : meta'[j].id \in Ids
    BY <1>15, <2>1 DEF Commit, TypeOK, Live, Absent, Snapshot
  <2>5. QED
    BY <1>15, <2>3, <2>4 DEF Commit, TypeOK
<1>16. ASSUME NEW k \in Keys, NEW layer \in Layers, Update(k, layer)
       PROVE  TypeOK'
  <2>1. meta' \in [Keys -> Snapshot]
    BY <1>16, LayersAssumption DEF Update, TypeOK, Snapshot
  <2>2. \A j \in Live' : j \in Live /\ meta'[j].id = meta[j].id
    BY <1>16 DEF Update, TypeOK, Live, Snapshot
  <2>3. QED
    BY <1>16, <2>1, <2>2 DEF Update, TypeOK
<1>17. ASSUME NEW p \in Procs, Cancel(p)
       PROVE  TypeOK'
  <2> DEFINE c == [call[p] EXCEPT !.waiting = FALSE]
  <2>1. call' = [call EXCEPT ![p] = c] /\ call[p].waiting
    BY <1>17 DEF Cancel
  <2>2. call[p] \in Call /\ call[p].step # "idle"
    BY <2>1, IdleType DEF TypeOK
  <2>3. /\ c \in Call /\ c.step # "idle" /\ ~c.waiting
        /\ c.step \in {"building", "sweepRoots", "reclaim"} => c.id \in Ids
    BY <2>2 DEF Call, TypeOK
  <2>4. CallsOK'
    <3> HIDE DEF c
    <3> QED BY <2>1, <2>3, MoveType
  <2>5. QED
    BY <1>17, <2>4 DEF Cancel, TypeOK
<1>18. CASE Crash
  BY <1>18, IdleType DEF Crash, TypeOK
<1>19. CASE TornCreate
  <2>1. seq + 1 \in Ids
    BY <1>19, BoundAssumption DEF TornCreate, TypeOK, Ids
  <2>2. CallsOK'
    BY <1>19, IdleType DEF TornCreate
  <2>3. QED
    BY <1>19, <2>1, <2>2 DEF TornCreate, TypeOK
<1>20. ASSUME NEW path \in Paths, NixGC(path)
       PROVE  TypeOK'
  BY <1>20 DEF NixGC, TypeOK
<1>21. CASE UNCHANGED vars
  BY <1>21 DEF vars, TypeOK
<1>22. QED
  BY <1>1, <1>2, <1>3, <1>4, <1>5, <1>6, <1>7, <1>8, <1>9, <1>10, <1>11, <1>12,
     <1>13, <1>14, <1>15, <1>16, <1>17, <1>18, <1>19, <1>20, <1>21
     DEF Next, Begin, Continue, Environment

\* The initial states have their types.
LEMMA InitType ==
  ASSUME Init
  PROVE  TypeOK
<1>1. Absent \in Snapshot /\ Live = {}
  BY DEF Init, Live, Absent, Snapshot, Kinds
<1>2. seq \in 0..MaxId
  BY BoundAssumption DEF Init
<1>3. QED
  BY <1>1, <1>2, IdleType DEF Init, TypeOK

\* The state of the snapshotter, of its callers and of the disk keeps its
\* shape in every behaviour, whatever faults are switched on.
THEOREM TypeCorrect == Spec => []TypeOK
BY InitType, TypeStep, PTL DEF Spec

-----------------------------------------------------------------------------
(* Snapshot ids, directories and sweeps                                    *)

\* No call can be about to remove the directory of the id that createSnapshot
\* hands out next, which it does in a goroutine without a call.
NextIdFree ==
  (\E p \in Procs : call[p].step = "idle") =>
    \A q \in Procs :
      /\ seq + 1 \notin call[q].doomed
      /\ call[q].step \in {"sweepRoots", "reclaim"} => call[q].id # seq + 1

\* That is so if createSnapshot leaves no directory behind, and also if calls
\* come one at a time.
Orderly ==
  \/ "tornCreate" \notin Faults /\ "commitFails" \notin Faults
  \/ \A p, q \in Procs : p = q

LEMMA FreeIfHandedOut == TypeOK /\ HandedOut => NextIdFree
BY DEF TypeOK, HandedOut, NextIdFree

LEMMA FreeIfAlone ==
  ASSUME \A p, q \in Procs : p = q
  PROVE  TypeOK => NextIdFree
<1> SUFFICES ASSUME TypeOK, NEW p \in Procs, call[p].step = "idle", NEW q \in Procs
             PROVE  /\ seq + 1 \notin call[q].doomed
                    /\ call[q].step \notin {"sweepRoots", "reclaim"}
  BY DEF NextIdFree
<1>1. call[q] = Idle
  BY DEF TypeOK
<1>2. QED
  BY <1>1 DEF Idle

\* createSnapshot uses an id that is new to the snapshots and that no call is
\* about to remove, and puts the directory in place with the record.
LEMMA CreateDirs ==
  ASSUME TypeOK, DirsInv, NextIdFree, NEW p \in Procs, call[p].step = "idle",
         NEW k \in Keys, NEW kind, kind # "absent", NEW parent, NEW paths,
         Create(k, kind, parent, paths), NEW step \in {"gcRoots", "mounts"},
         NEW todo, call' = [call EXCEPT ![p] = Request(step, k, todo)]
  PROVE  DirsInv'
<1>1. k \notin Live /\ seq \in Nat /\ seq' = seq + 1
  BY DEF Create, CanCreate, TypeOK
<1>2. meta'[k].id = seq + 1 /\ \A j \in Keys \ {k} : meta'[j] = meta[j]
  BY DEF Create, TypeOK
<1>3. Live' = Live \cup {k}
  BY DEF Create, Live, TypeOK
<1>4. LiveIds' = LiveIds \cup {seq + 1}
  BY <1>1, <1>2, <1>3 DEF LiveIds, Live
<1>5. \A i, j \in Live' : meta'[i].id = meta'[j].id => i = j
  <2>1. \A j \in Live : meta[j].id \in LiveIds
    BY DEF LiveIds
  <2>2. \A j \in Live : meta[j].id # seq + 1
    BY <1>1, <2>1 DEF DirsInv
  <2>3. \A j \in Live : meta'[j].id = meta[j].id
    BY <1>1, <1>2 DEF Live
  <2>4. \A i, j \in Live : meta[i].id = meta[j].id => i = j
    BY DEF DirsInv
  <2>5. QED
    BY <1>2, <1>3, <2>2, <2>3, <2>4
<1>6. LiveIds' \subseteq 1..seq'
  <2>1. 1..seq \cup {seq + 1} \subseteq 1..seq' /\ LiveIds \subseteq 1..seq
    BY <1>1 DEF DirsInv
  <2>2. QED
    BY <1>4, <2>1
<1>7. \A q \in Procs :
        /\ call'[q].step \in {"gcRoots", "mounts"} /\ call'[q].doomed = {}
        \/ call'[q] = call[q]
  BY DEF Request, TypeOK
<1>8. \A q \in Procs :
        /\ seq + 1 \notin call[q].doomed
        /\ call[q].step \in {"sweepRoots", "reclaim"} => call[q].id # seq + 1
  BY DEF NextIdFree
<1>9. /\ \A q \in Procs : call'[q].step = "reclaim" => call'[q].id \notin LiveIds'
      /\ DoomedDead'
  BY <1>4, <1>7, <1>8 DEF DirsInv, DoomedDead
<1>10. LiveHasDir'
  BY <1>4 DEF DirsInv, LiveHasDir, Create
<1>11. QED
  BY <1>5, <1>6, <1>9, <1>10 DEF DirsInv

\* A step that starts no snapshot and records no new id keeps DirsInv, if the
\* removals it leaves are of dead ids and it takes no live directory away.
LEMMA OtherDirs ==
  ASSUME TypeOK, DirsInv, seq' = seq,
         \A k, j \in Live' : meta'[k].id = meta'[j].id => k = j,
         LiveIds' \subseteq LiveIds, LiveIds' \subseteq snapDirs',
         \A q \in Procs :
           /\ call'[q].step \in {"reclaim", "sweepRoots"} => call'[q].id \notin LiveIds'
           /\ call'[q].doomed \cap LiveIds' = {}
  PROVE  DirsInv'
BY DEF DirsInv, DoomedDead, LiveHasDir

\* A step that leaves the metadata and the directories of snapshots alone, and
\* starts no removal.
LEMMA QuietDirs ==
  ASSUME TypeOK, DirsInv, UNCHANGED <<meta, seq>>, LiveIds \subseteq snapDirs',
         \A q \in Procs :
           \/ call'[q] = call[q]
           \/ /\ call'[q].step \notin {"reclaim", "sweepRoots"}
              /\ call'[q].doomed \subseteq call[q].doomed
  PROVE  DirsInv'
<1>1. Live' = Live /\ LiveIds' = LiveIds
  BY DEF Live, LiveIds
<1>2. \A q \in Procs :
        /\ call'[q].step \in {"reclaim", "sweepRoots"} => call'[q].id \notin LiveIds'
        /\ call'[q].doomed \cap LiveIds' = {}
  BY <1>1 DEF DirsInv, DoomedDead
<1>3. \A k, j \in Live' : meta'[k].id = meta'[j].id => k = j
  BY <1>1 DEF DirsInv
<1>4. QED
  BY <1>1, <1>2, <1>3, OtherDirs

\* What a sweep that starts now will delete has no snapshot.
LEMMA SweepIds ==
  ASSUME TypeOK, NEW p \in Procs, Sweep(p, CleanupDirectories(meta'))
  PROVE  \A q \in Procs :
           \/ call'[q] = call[q]
           \/ /\ call'[q].step \in {"idle", "sweepDir"}
              /\ call'[q].doomed \subseteq snapDirs \ LiveIds'
BY DEF Sweep, CleanupDirectories, IDMap, LiveIds, Live, Idle, TypeOK

\* Commit moves the record, with its id, its parent and its labels.
LEMMA CommitRecords ==
  ASSUME TypeOK, NEW k \in Keys, NEW name \in Keys, Commit(k, name)
  PROVE  /\ meta'[name].id = meta[k].id
         /\ meta'[name].parent = meta[k].parent
         /\ meta'[name].paths = meta[k].paths
         /\ meta'[name].kind = "committed"
         /\ meta'[k] = Absent
         /\ \A j \in Keys \ {k, name} : meta'[j] = meta[j]
<1>1. k # name
  BY DEF Commit
<1>2. meta'[name] = [meta[k] EXCEPT !.kind = "committed"] /\ meta'[k] = Absent
  BY <1>1 DEF Commit, TypeOK
<1>3. meta[k] \in Snapshot
  BY DEF TypeOK
<1>4. \A j \in Keys \ {k, name} : meta'[j] = meta[j]
  BY DEF Commit, TypeOK
<1>5. QED
  BY <1>2, <1>3, <1>4 DEF Snapshot

\* Every step keeps DirsInv, if the next id is free.
LEMMA DirsStep == TypeOK /\ DirsInv /\ NextIdFree /\ [Next]_vars => DirsInv'
<1> SUFFICES ASSUME TypeOK, DirsInv, NextIdFree, [Next]_vars
             PROVE  DirsInv'
  OBVIOUS
<1>0. LiveIds \subseteq snapDirs
  BY DEF DirsInv, LiveHasDir
<1>1. ASSUME NEW p \in Procs, NEW k \in Keys, NEW parent \in Keys \cup {NoKey},
             NEW layer \in Layers, Prepare(p, k, parent, layer)
      PROVE  DirsInv'
  BY <1>1, CreateDirs DEF Prepare
<1>2. ASSUME NEW p \in Procs, NEW k \in Keys, NEW parent \in Keys \cup {NoKey},
             NEW layer \in Layers, View(p, k, parent, layer)
      PROVE  DirsInv'
  BY <1>2, CreateDirs DEF View
<1>3. ASSUME NEW p \in Procs, NEW k \in Keys, NEW parent \in Keys \cup {NoKey},
             CreateFails(p, k, parent)
      PROVE  DirsInv'
  <2>1. UNCHANGED <<meta, seq>> /\ snapDirs \subseteq snapDirs'
    BY <1>3 DEF CreateFails
  <2>2. Live' = Live /\ LiveIds' = LiveIds
    BY <2>1 DEF Live, LiveIds
  <2>3. seq + 1 \notin LiveIds
    BY DEF DirsInv, TypeOK
  <2>4. \A q \in Procs :
          \/ call'[q] = call[q]
          \/ call'[q].doomed = {} /\ call'[q].id = seq + 1
    BY <1>3 DEF CreateFails, TypeOK
  <2>5. QED
    BY <1>0, <2>1, <2>2, <2>3, <2>4, OtherDirs DEF DirsInv, DoomedDead
<1>4. ASSUME NEW p \in Procs, NEW k \in Keys, Mounts(p, k)
      PROVE  DirsInv'
  BY <1>0, <1>4, QuietDirs DEF Mounts, Request, TypeOK
<1>5. ASSUME NEW p \in Procs, NEW k \in Keys, Remove(p, k)
      PROVE  DirsInv'
  <2>1. meta' = [meta EXCEPT ![k] = Absent] /\ UNCHANGED <<seq, snapDirs>>
    BY <1>5 DEF Remove
  <2>2. Live' = Live \ {k}
    BY <2>1 DEF Live, Absent, TypeOK
  <2>3. \A j \in Live' : meta'[j] = meta[j]
    BY <2>1, <2>2 DEF TypeOK, Live
  <2>4. LiveIds' \subseteq LiveIds
    BY <2>2, <2>3 DEF LiveIds
  <2>5. \A q \in Procs :
          \/ call'[q] = call[q]
          \/ /\ call'[q].step \in {"idle", "sweepDir"}
             /\ call'[q].doomed \subseteq snapDirs \ LiveIds'
    BY <1>5, SweepIds DEF Remove
  <2>6. \A i, j \in Live' : meta'[i].id = meta'[j].id => i = j
    BY <2>2, <2>3 DEF DirsInv
  <2>7. \A q \in Procs :
          /\ call'[q].step \in {"reclaim", "sweepRoots"} => call'[q].id \notin LiveIds'
          /\ call'[q].doomed \cap LiveIds' = {}
    BY <2>4, <2>5 DEF DirsInv, DoomedDead
  <2>8. QED
    BY <1>0, <2>1, <2>4, <2>6, <2>7, OtherDirs
<1>6. ASSUME NEW p \in Procs, Cleanup(p)
      PROVE  DirsInv'
  <2>1. UNCHANGED <<meta, seq, snapDirs>>
    BY <1>6 DEF Cleanup
  <2>2. Live' = Live /\ LiveIds' = LiveIds
    BY <2>1 DEF Live, LiveIds
  <2>3. Sweep(p, CleanupDirectories(meta'))
    BY <1>6 DEF Cleanup
  <2>4. \A q \in Procs :
          /\ call'[q].step \in {"reclaim", "sweepRoots"} => call'[q].id \notin LiveIds'
          /\ call'[q].doomed \cap LiveIds' = {}
    BY <2>2, <2>3, SweepIds DEF DirsInv, DoomedDead
  <2>5. QED
    BY <1>0, <2>1, <2>2, <2>4, OtherDirs DEF DirsInv
<1>7. ASSUME NEW p \in Procs, Reclaim(p)
      PROVE  DirsInv'
  <2>1. call[p].id \notin LiveIds
    BY <1>7 DEF Reclaim, DirsInv
  <2>2. QED
    BY <1>0, <1>7, <2>1, QuietDirs DEF Reclaim, Idle, TypeOK
<1>8. ASSUME NEW p \in Procs, OpenGCRoots(p)
      PROVE  DirsInv'
  BY <1>0, <1>8, QuietDirs DEF OpenGCRoots, Return, Idle, TypeOK, Call
<1>9. ASSUME NEW p \in Procs, NEW path \in Paths, BuildGCRoot(p, path)
      PROVE  DirsInv'
  BY <1>0, <1>9, QuietDirs DEF BuildGCRoot, TypeOK, Call
<1>10. ASSUME NEW p \in Procs, BuildGCRootFails(p)
       PROVE  DirsInv'
  BY <1>0, <1>10, QuietDirs DEF BuildGCRootFails, Return, Idle, TypeOK
<1>11. ASSUME NEW p \in Procs, FinishGCRoots(p)
       PROVE  DirsInv'
  BY <1>0, <1>11, QuietDirs DEF FinishGCRoots, Return, Idle, TypeOK
<1>12. ASSUME NEW p \in Procs, WithNixBindMounts(p)
       PROVE  DirsInv'
  BY <1>0, <1>12, QuietDirs DEF WithNixBindMounts, Return, Idle, TypeOK
<1>13. ASSUME NEW p \in Procs, NEW d \in Ids, SweepDir(p, d)
       PROVE  DirsInv'
  <2>1. UNCHANGED <<meta, seq>> /\ snapDirs \ {d} \subseteq snapDirs'
    BY <1>13 DEF SweepDir
  <2>2. Live' = Live /\ LiveIds' = LiveIds
    BY <2>1 DEF Live, LiveIds
  <2>3. d \notin LiveIds
    BY <1>13 DEF SweepDir, DirsInv, DoomedDead
  <2>4. \A q \in Procs :
          /\ call'[q].step \in {"reclaim", "sweepRoots"} => call'[q].id \notin LiveIds'
          /\ call'[q].doomed \cap LiveIds' = {}
    BY <1>13, <2>2, <2>3 DEF SweepDir, DirsInv, DoomedDead, TypeOK, Call
  <2>5. QED
    BY <1>0, <2>1, <2>2, <2>3, <2>4, OtherDirs DEF DirsInv
<1>14. ASSUME NEW p \in Procs, SweepGCRoots(p)
       PROVE  DirsInv'
  BY <1>0, <1>14, QuietDirs DEF SweepGCRoots, Sweep, Idle, TypeOK
<1>15. ASSUME NEW k \in Keys, NEW name \in Keys, Commit(k, name)
       PROVE  DirsInv'
  <2>1. k # name
    BY <1>15 DEF Commit
  <2>2. /\ meta'[name].id = meta[k].id /\ meta'[name].kind = "committed"
        /\ meta'[k] = Absent
        /\ \A j \in Keys \ {k, name} : meta'[j] = meta[j]
    BY <1>15, CommitRecords
  <2>3. Live' = (Live \ {k}) \cup {name}
    BY <2>1, <2>2 DEF Live, Absent
  <2>4. /\ k \in Live /\ meta'[name].id = meta[k].id
        /\ \A j \in Live' \ {name} : j \in Live \ {k} /\ meta'[j].id = meta[j].id
    BY <1>15, <2>1, <2>2, <2>3 DEF Commit, Live
  <2>5. LiveIds' \subseteq LiveIds
    BY <2>3, <2>4 DEF LiveIds
  <2>6. \A i, j \in Live' : meta'[i].id = meta'[j].id => i = j
    BY <2>3, <2>4 DEF DirsInv
  <2>7. UNCHANGED <<seq, snapDirs, call>>
    BY <1>15 DEF Commit
  <2>8. QED
    BY <1>0, <2>5, <2>6, <2>7, OtherDirs DEF DirsInv, DoomedDead
<1>16. ASSUME NEW k \in Keys, NEW layer \in Layers, Update(k, layer)
       PROVE  DirsInv'
  <2>1. \A j \in Keys : meta'[j].id = meta[j].id /\ meta'[j].kind = meta[j].kind
    BY <1>16 DEF Update, TypeOK, Snapshot
  <2>2. Live' = Live /\ LiveIds' = LiveIds
    BY <2>1 DEF Live, LiveIds
  <2>3. UNCHANGED <<seq, snapDirs, call>>
    BY <1>16 DEF Update
  <2>4. QED
    BY <1>0, <2>1, <2>2, <2>3, OtherDirs DEF DirsInv, DoomedDead, Live
<1>17. ASSUME NEW p \in Procs, Cancel(p)
       PROVE  DirsInv'
  <2>1. \A q \in Procs : /\ call'[q].step = call[q].step
                         /\ call'[q].id = call[q].id
                         /\ call'[q].doomed = call[q].doomed
    BY <1>17 DEF Cancel, TypeOK, Call
  <2>2. UNCHANGED <<meta, seq, snapDirs>>
    BY <1>17 DEF Cancel
  <2>3. Live' = Live /\ LiveIds' = LiveIds
    BY <2>2 DEF Live, LiveIds
  <2>4. QED
    BY <2>1, <2>2, <2>3 DEF DirsInv, DoomedDead, LiveHasDir
<1>18. CASE Crash
  BY <1>0, <1>18, QuietDirs DEF Crash, Idle, TypeOK
<1>19. CASE TornCreate
  BY <1>0, <1>19, QuietDirs DEF TornCreate, Idle, TypeOK
<1>20. ASSUME NEW path \in Paths, NixGC(path)
       PROVE  DirsInv'
  BY <1>0, <1>20, QuietDirs DEF NixGC
<1>21. CASE UNCHANGED vars
  BY <1>0, <1>21, QuietDirs DEF vars
<1>22. QED
  BY <1>1, <1>2, <1>3, <1>4, <1>5, <1>6, <1>7, <1>8, <1>9, <1>10, <1>11, <1>12,
     <1>13, <1>14, <1>15, <1>16, <1>17, <1>18, <1>19, <1>20, <1>21
     DEF Next, Begin, Continue, Environment

\* A step that hands out no id keeps HandedOut, if it adds no directory and
\* removes only directories, or what a sweep had on its list.
LEMMA QuietHanded ==
  ASSUME HandedOut, seq' = seq, snapDirs' \subseteq snapDirs,
         \A q \in Procs :
           \/ call'[q] = call[q]
           \/ /\ call'[q].step \notin {"reclaim", "sweepRoots"}
              /\ call'[q].doomed \subseteq snapDirs \cup call[q].doomed
           \/ /\ call'[q].step = "sweepRoots"
              /\ call'[q].doomed \subseteq call[q].doomed
              /\ call'[q].id \in call[q].doomed
  PROVE  HandedOut'
BY DEF HandedOut

\* createSnapshot hands out the id of the directory that it makes.
LEMMA CreateHanded ==
  ASSUME TypeOK, HandedOut, NEW p \in Procs, NEW k, NEW kind, NEW parent, NEW paths,
         Create(k, kind, parent, paths), NEW step \in {"gcRoots", "mounts"},
         NEW todo, call' = [call EXCEPT ![p] = Request(step, k, todo)]
  PROVE  HandedOut'
<1>1. 1..seq \cup {seq + 1} \subseteq 1..seq' /\ snapDirs' = snapDirs \cup {seq + 1}
  BY DEF Create, TypeOK
<1>2. \A q \in Procs :
        /\ call'[q].step \in {"gcRoots", "mounts"} /\ call'[q].doomed = {}
        \/ call'[q] = call[q]
  BY DEF Request, TypeOK
<1>3. QED
  BY <1>1, <1>2 DEF HandedOut

\* Every step keeps HandedOut, unless createSnapshot may leave a directory
\* behind.
LEMMA HandedOutStep ==
  ASSUME "tornCreate" \notin Faults, "commitFails" \notin Faults
  PROVE  TypeOK /\ HandedOut /\ [Next]_vars => HandedOut'
<1> SUFFICES ASSUME TypeOK, HandedOut, [Next]_vars
             PROVE  HandedOut'
  OBVIOUS
<1>1. ASSUME NEW p \in Procs, NEW k \in Keys, NEW parent \in Keys \cup {NoKey},
             NEW layer \in Layers, Prepare(p, k, parent, layer)
      PROVE  HandedOut'
  BY <1>1, CreateHanded DEF Prepare
<1>2. ASSUME NEW p \in Procs, NEW k \in Keys, NEW parent \in Keys \cup {NoKey},
             NEW layer \in Layers, View(p, k, parent, layer)
      PROVE  HandedOut'
  BY <1>2, CreateHanded DEF View
<1>3. ASSUME NEW p \in Procs, NEW k \in Keys, NEW parent \in Keys \cup {NoKey},
             CreateFails(p, k, parent)
      PROVE  FALSE
  BY <1>3 DEF CreateFails, HandedOut, TypeOK
<1>4. ASSUME NEW p \in Procs, NEW k \in Keys, Mounts(p, k)
      PROVE  HandedOut'
  BY <1>4, QuietHanded DEF Mounts, Request, TypeOK
<1>5. ASSUME NEW p \in Procs, NEW k \in Keys, Remove(p, k)
      PROVE  HandedOut'
  <2>1. \A q \in Procs :
          \/ call'[q] = call[q]
          \/ /\ call'[q].step \in {"idle", "sweepDir"}
             /\ call'[q].doomed \subseteq snapDirs
    BY <1>5, SweepIds DEF Remove
  <2>2. UNCHANGED <<seq, snapDirs>>
    BY <1>5 DEF Remove
  <2>3. QED
    BY <2>1, <2>2, QuietHanded
<1>6. ASSUME NEW p \in Procs, Cleanup(p)
      PROVE  HandedOut'
  <2>1. Sweep(p, CleanupDirectories(meta')) /\ UNCHANGED <<seq, snapDirs>>
    BY <1>6 DEF Cleanup
  <2>2. \A q \in Procs :
          \/ call'[q] = call[q]
          \/ /\ call'[q].step \in {"idle", "sweepDir"}
             /\ call'[q].doomed \subseteq snapDirs
    BY <2>1, SweepIds
  <2>3. QED
    BY <2>1, <2>2, QuietHanded
<1>7. ASSUME NEW p \in Procs, Reclaim(p)
      PROVE  FALSE
  BY <1>7 DEF Reclaim, HandedOut
<1>8. ASSUME NEW p \in Procs, OpenGCRoots(p)
      PROVE  HandedOut'
  BY <1>8, QuietHanded DEF OpenGCRoots, Return, Idle, TypeOK, Call
<1>9. ASSUME NEW p \in Procs, NEW path \in Paths, BuildGCRoot(p, path)
      PROVE  HandedOut'
  BY <1>9, QuietHanded DEF BuildGCRoot, TypeOK, Call
<1>10. ASSUME NEW p \in Procs, BuildGCRootFails(p)
       PROVE  HandedOut'
  BY <1>10, QuietHanded DEF BuildGCRootFails, Return, Idle, TypeOK
<1>11. ASSUME NEW p \in Procs, FinishGCRoots(p)
       PROVE  HandedOut'
  BY <1>11, QuietHanded DEF FinishGCRoots, Return, Idle, TypeOK
<1>12. ASSUME NEW p \in Procs, WithNixBindMounts(p)
       PROVE  HandedOut'
  BY <1>12, QuietHanded DEF WithNixBindMounts, Return, Idle, TypeOK
<1>13. ASSUME NEW p \in Procs, NEW d \in Ids, SweepDir(p, d)
       PROVE  HandedOut'
  BY <1>13, QuietHanded DEF SweepDir, TypeOK, Call
<1>14. ASSUME NEW p \in Procs, SweepGCRoots(p)
       PROVE  HandedOut'
  BY <1>14, QuietHanded DEF SweepGCRoots, Sweep, Idle, TypeOK
<1>15. ASSUME NEW k \in Keys, NEW name \in Keys, Commit(k, name)
       PROVE  HandedOut'
  BY <1>15, QuietHanded DEF Commit
<1>16. ASSUME NEW k \in Keys, NEW layer \in Layers, Update(k, layer)
       PROVE  HandedOut'
  BY <1>16, QuietHanded DEF Update
<1>17. ASSUME NEW p \in Procs, Cancel(p)
       PROVE  HandedOut'
  BY <1>17, QuietHanded DEF Cancel, TypeOK, Call
<1>18. CASE Crash
  BY <1>18, QuietHanded DEF Crash, Idle, TypeOK
<1>19. CASE TornCreate
  BY <1>19 DEF TornCreate
<1>20. ASSUME NEW path \in Paths, NixGC(path)
       PROVE  HandedOut'
  BY <1>20, QuietHanded DEF NixGC
<1>21. CASE UNCHANGED vars
  BY <1>21, QuietHanded DEF vars
<1>22. QED
  BY <1>1, <1>2, <1>3, <1>4, <1>5, <1>6, <1>7, <1>8, <1>9, <1>10, <1>11, <1>12,
     <1>13, <1>14, <1>15, <1>16, <1>17, <1>18, <1>19, <1>20, <1>21
     DEF Next, Begin, Continue, Environment

\* Nothing is recorded, on disk or under way to begin with.
LEMMA DirsInit == Init => DirsInv /\ HandedOut
BY DEF Init, DirsInv, HandedOut, DoomedDead, LiveHasDir, LiveIds, Live, Absent, Idle

\* The ids in use were all handed out, in every behaviour.
LEMMA HandedOutAlways ==
  ASSUME "tornCreate" \notin Faults, "commitFails" \notin Faults
  PROVE  Spec => []HandedOut
<1>1. TypeOK /\ HandedOut /\ [Next]_vars => HandedOut'
  BY HandedOutStep
<1>2. QED
  BY <1>1, DirsInit, TypeCorrect, PTL DEF Spec

\* The next id is free, in every behaviour, for one reason or the other.
LEMMA NextIdFreeAlways ==
  ASSUME Orderly
  PROVE  Spec => []NextIdFree
<1>1. CASE "tornCreate" \notin Faults /\ "commitFails" \notin Faults
  <2>1. Spec => []HandedOut
    BY <1>1, HandedOutAlways
  <2>2. QED
    BY <2>1, FreeIfHandedOut, TypeCorrect, PTL
<1>2. CASE \A p, q \in Procs : p = q
  <2>1. TypeOK => NextIdFree
    BY <1>2, FreeIfAlone
  <2>2. QED
    BY <2>1, TypeCorrect, PTL
<1>3. QED
  BY <1>1, <1>2 DEF Orderly

LEMMA DirsAlways ==
  ASSUME Orderly
  PROVE  Spec => []DirsInv
BY DirsInit, DirsStep, NextIdFreeAlways, TypeCorrect, PTL DEF Spec

\* No sweep of any call, started at any time, takes away the directory of a
\* recorded snapshot (snapshotter.go:222-250), whatever goes wrong and however
\* many calls there are, if createSnapshot is never interrupted between its
\* rename and its commit; and over such interruptions if calls come one at a
\* time, when an id is used again that has a directory already.
THEOREM DirsKept ==
  ASSUME Orderly
  PROVE  Spec => []LiveHasDir
<1>1. DirsInv => LiveHasDir
  BY DEF DirsInv
<1>2. QED
  BY <1>1, DirsAlways, PTL

\* Nor does any sweep have such a directory on its list, which is why no later
\* step of one can take it away (snapshotter.go:222-250).
THEOREM NoneDoomed ==
  ASSUME Orderly
  PROVE  Spec => []DoomedDead
<1>1. DirsInv => DoomedDead
  BY DEF DirsInv
<1>2. QED
  BY <1>1, DirsAlways, PTL

-----------------------------------------------------------------------------
(* GC roots                                                                *)

\* A step keeps the promises about the keys it leaves alone: their records
\* stay, and their roots are not taken away.
LEMMA RootsFrame ==
  ASSUME TypeOK, RootsInv,
         \A k \in acked' : k \in acked /\ k \in Live' /\ meta'[k] = meta[k],
         \A k \in acked \cap acked' :
           gcRoots[meta[k].id] \subseteq gcRoots'[meta[k].id]
  PROVE  acked' \subseteq Live' /\ AckedRooted'
BY DEF RootsInv, AckedRooted

\* A goroutine other than the one that moves keeps its progress.
LEMMA ProgressFrame ==
  ASSUME TypeOK, NEW q \in Procs, Progress(q), call[q].key \in Keys,
         call'[q] = call[q], meta'[call[q].key] = meta[call[q].key],
         call[q].key \in acked => call[q].key \in acked',
         gcRoots[meta[call[q].key].id] \subseteq gcRoots'[meta[call[q].key].id]
  PROVE  Progress(q)'
BY DEF Progress, Live

\* A new snapshot disturbs no promise about another key.
LEMMA CreateRoots ==
  ASSUME TypeOK, RootsInv, NEW p \in Procs, NEW k \in Keys, NEW kind,
         kind # "absent", NEW parent, NEW paths,
         Create(k, kind, parent, paths), UNCHANGED <<gcRoots, acked>>,
         NEW step, NEW todo, call' = [call EXCEPT ![p] = Request(step, k, todo)],
         \/ step = "gcRoots" /\ todo = paths
         \/ step = "mounts" /\ paths = {}
  PROVE  RootsInv'
<1>1. k \notin Live /\ k \notin acked
  BY DEF Create, CanCreate, RootsInv
<1>2. /\ meta'[k].paths = paths /\ meta'[k].kind = kind
      /\ \A j \in Keys \ {k} : meta'[j] = meta[j]
  BY DEF Create, TypeOK
<1>3. \A j \in Live : j \in Live' /\ meta'[j] = meta[j]
  BY <1>1, <1>2 DEF Live
<1>4. \A j \in acked' : j \in acked /\ j \in Live' /\ meta'[j] = meta[j]
  BY <1>3 DEF RootsInv
<1>5. acked' \subseteq Live' /\ AckedRooted'
  BY <1>4, RootsFrame
<1>6. ASSUME NEW q \in Procs, call'[q].waiting
      PROVE  Progress(q)'
  <2>1. CASE q = p
    <3>1. call'[p] = Request(step, k, todo)
      BY DEF TypeOK
    <3>2. k \in Live'
      BY <1>2 DEF Live
    <3>3. QED
      BY <2>1, <3>1, <3>2, <1>2 DEF Progress, Request
  <2>2. CASE q # p
    <3>1. call'[q] = call[q]
      BY <2>2 DEF TypeOK
    <3>2. Progress(q) /\ call[q].key \in Live /\ call[q].key \in Keys
      BY <1>6, <3>1 DEF RootsInv, Progress, Live
    <3>3. QED
      BY <3>1, <3>2, <1>3, ProgressFrame
  <2>3. QED
    BY <2>1, <2>2
<1>7. QED
  BY <1>5, <1>6 DEF RootsInv

\* A goroutine returns success for a key whose roots are built, or returns to
\* nobody.
LEMMA ReturnRoots ==
  ASSUME TypeOK, RootsInv, NEW p \in Procs, NEW ok \in BOOLEAN, NEW paths,
         Return(p, ok, paths), UNCHANGED <<meta, gcRoots>>,
         ok /\ call[p].waiting =>
           LET k == call[p].key IN meta[k].paths \subseteq gcRoots[meta[k].id]
  PROVE  RootsInv'
<1>1. Live' = Live
  BY DEF Live
<1>2. acked' \subseteq Live' /\ AckedRooted'
  BY <1>1 DEF Return, RootsInv, Progress, AckedRooted
<1>3. ASSUME NEW q \in Procs, call'[q].waiting
      PROVE  Progress(q)'
  <2>1. call'[q] = call[q] /\ acked \subseteq acked'
    BY <1>3, IdleType DEF Return, TypeOK
  <2>2. Progress(q) /\ call[q].key \in Keys
    BY <1>3, <2>1 DEF RootsInv, Progress, Live
  <2>3. QED
    BY <2>1, <2>2, ProgressFrame
<1>4. QED
  BY <1>2, <1>3 DEF RootsInv

\* A step that moves a goroutine the client does not wait for, or none, and
\* takes no root of a recorded snapshot away.
LEMMA QuietRoots ==
  ASSUME TypeOK, RootsInv, UNCHANGED <<meta, acked>>,
         \A k \in Live : gcRoots[meta[k].id] \subseteq gcRoots'[meta[k].id],
         \A q \in Procs : call'[q].waiting => call'[q] = call[q]
  PROVE  RootsInv'
<1>1. Live' = Live
  BY DEF Live
<1>2. acked' \subseteq Live' /\ AckedRooted'
  BY <1>1 DEF RootsInv, AckedRooted
<1>3. ASSUME NEW q \in Procs, call'[q].waiting
      PROVE  Progress(q)'
  <2>1. call'[q] = call[q] /\ Progress(q) /\ call[q].key \in Live /\ call[q].key \in Keys
    BY <1>3 DEF RootsInv, Progress, Live
  <2>2. QED
    BY <2>1, ProgressFrame
<1>4. QED
  BY <1>2, <1>3 DEF RootsInv

\* Every step keeps RootsInv, if the builder does not fail and labels stay.
LEMMA RootsStep ==
  ASSUME "builderFails" \notin Faults, "relabel" \notin Faults
  PROVE  TypeOK /\ DirsInv /\ RootsInv /\ [Next]_vars => RootsInv'
<1> SUFFICES ASSUME TypeOK, DirsInv, RootsInv, [Next]_vars
             PROVE  RootsInv'
  OBVIOUS
<1>1. ASSUME NEW p \in Procs, NEW k \in Keys, NEW parent \in Keys \cup {NoKey},
             NEW layer \in Layers, Prepare(p, k, parent, layer)
      PROVE  RootsInv'
  <2>1. CASE layer.nix
    BY <1>1, <2>1, CreateRoots DEF Prepare
  <2>2. CASE ~layer.nix
    <3>1. layer.paths = {}
      BY <2>2, LayersAssumption
    <3>2. QED
      BY <1>1, <2>2, <3>1, CreateRoots DEF Prepare
  <2>3. QED
    BY <2>1, <2>2
<1>2. ASSUME NEW p \in Procs, NEW k \in Keys, NEW parent \in Keys \cup {NoKey},
             NEW layer \in Layers, View(p, k, parent, layer)
      PROVE  RootsInv'
  BY <1>2, CreateRoots DEF View
<1>3. ASSUME NEW p \in Procs, NEW k \in Keys, NEW parent \in Keys \cup {NoKey},
             CreateFails(p, k, parent)
      PROVE  RootsInv'
  BY <1>3, QuietRoots DEF CreateFails, TypeOK
<1>4. ASSUME NEW p \in Procs, NEW k \in Keys, Mounts(p, k)
      PROVE  RootsInv'
  <2>1. Live' = Live /\ acked' = acked
    BY <1>4 DEF Mounts, Live
  <2>2. acked' \subseteq Live' /\ AckedRooted'
    BY <1>4, <2>1 DEF Mounts, RootsInv, AckedRooted
  <2>3. ASSUME NEW q \in Procs, call'[q].waiting
        PROVE  Progress(q)'
    <3>1. CASE q = p
      BY <1>4, <2>1, <3>1 DEF Mounts, Request, Progress, TypeOK
    <3>2. CASE q # p
      BY <1>4, <2>1, <2>3, <3>2 DEF Mounts, RootsInv, Progress, TypeOK
    <3>3. QED
      BY <3>1, <3>2
  <2>4. QED
    BY <2>2, <2>3 DEF RootsInv
<1>5. ASSUME NEW p \in Procs, NEW k \in Keys, Remove(p, k)
      PROVE  RootsInv'
  <2>1. /\ \A j \in Keys \ {k} : meta'[j] = meta[j]
        /\ acked' = acked \ {k} /\ gcRoots' = gcRoots
    BY <1>5 DEF Remove, TypeOK
  <2>2. acked' \subseteq Live' /\ AckedRooted'
    BY <2>1, RootsFrame DEF RootsInv, Live
  <2>3. ASSUME NEW q \in Procs, call'[q].waiting
        PROVE  Progress(q)'
    <3>1. q # p /\ call'[q] = call[q]
      BY <1>5, <2>3, IdleType DEF Remove, Sweep, TypeOK
    <3>2. Progress(q) /\ call[q].key \in Keys \ {k}
      BY <1>5, <2>3, <3>1 DEF Remove, Busy, RootsInv, TypeOK
    <3>3. QED
      BY <2>1, <3>1, <3>2, ProgressFrame
  <2>4. QED
    BY <2>2, <2>3 DEF RootsInv
<1>6. ASSUME NEW p \in Procs, Cleanup(p)
      PROVE  RootsInv'
  BY <1>6, IdleType, QuietRoots DEF Cleanup, Sweep, TypeOK
<1>7. ASSUME NEW p \in Procs, Reclaim(p)
      PROVE  RootsInv'
  BY <1>7, IdleType, QuietRoots DEF Reclaim, TypeOK
<1>8. ASSUME NEW p \in Procs, OpenGCRoots(p)
      PROVE  RootsInv'
  <2>1. CASE call[p].key \in Live
    <3>1. /\ UNCHANGED <<meta, gcRoots, acked>> /\ Live' = Live
          /\ \A q \in Procs \ {p} : call'[q] = call[q]
          /\ call'[p].step = "building" /\ call'[p].key = call[p].key
          /\ call'[p].id = meta[call[p].key].id /\ call'[p].todo = call[p].todo
          /\ call'[p].waiting = call[p].waiting
      BY <1>8, <2>1 DEF OpenGCRoots, Live, TypeOK, Call
    <3>2. acked' \subseteq Live' /\ AckedRooted'
      BY <3>1 DEF RootsInv, AckedRooted
    <3>3. ASSUME NEW q \in Procs, call'[q].waiting
          PROVE  Progress(q)'
      <4>1. Progress(q)
        BY <3>1, <3>3 DEF RootsInv
      <4>2. CASE q = p
        BY <1>8, <3>1, <4>1, <4>2 DEF Progress, OpenGCRoots
      <4>3. CASE q # p
        BY <3>1, <4>1, <4>3 DEF Progress
      <4>4. QED
        BY <4>2, <4>3
    <3>4. QED
      BY <3>2, <3>3 DEF RootsInv
  <2>2. CASE call[p].key \notin Live
    <3>1. ~call[p].waiting
      BY <2>2 DEF RootsInv, Progress
    <3>2. QED
      BY <1>8, <2>2, <3>1, ReturnRoots DEF OpenGCRoots
  <2>3. QED
    BY <2>1, <2>2
<1>9. ASSUME NEW p \in Procs, NEW path \in Paths, BuildGCRoot(p, path)
      PROVE  RootsInv'
  <2>1. /\ UNCHANGED <<meta, acked>> /\ Live' = Live
        /\ \A q \in Procs \ {p} : call'[q] = call[q]
        /\ call'[p].step = "building" /\ call'[p].key = call[p].key
        /\ call'[p].id = call[p].id /\ call'[p].todo = call[p].todo \ {path}
        /\ call'[p].waiting = call[p].waiting
    BY <1>9 DEF BuildGCRoot, Live, TypeOK, Call
  <2>2. /\ \A i \in Ids : gcRoots[i] \subseteq gcRoots'[i]
        /\ call[p].id \in Ids => path \in gcRoots'[call[p].id]
    BY <1>9 DEF BuildGCRoot, TypeOK
  <2>3. \A k \in Live : meta[k].id \in Ids
    BY DEF TypeOK
  <2>4. acked' \subseteq Live' /\ AckedRooted'
    BY <2>1, <2>2, <2>3, RootsFrame DEF RootsInv
  <2>5. ASSUME NEW q \in Procs, call'[q].waiting
        PROVE  Progress(q)'
    <3>1. Progress(q) /\ call[q].key \in Live
      BY <2>1, <2>5 DEF RootsInv, Progress
    <3>2. CASE q = p
      BY <1>9, <2>1, <2>2, <2>3, <3>1, <3>2 DEF Progress, BuildGCRoot
    <3>3. CASE q # p
      BY <2>1, <2>2, <2>3, <3>1, <3>3, ProgressFrame DEF Live
    <3>4. QED
      BY <3>2, <3>3
  <2>6. QED
    BY <2>4, <2>5 DEF RootsInv
<1>10. ASSUME NEW p \in Procs, BuildGCRootFails(p)
       PROVE  FALSE
  BY <1>10 DEF BuildGCRootFails
<1>11. ASSUME NEW p \in Procs, FinishGCRoots(p)
       PROVE  RootsInv'
  <2>1. call[p].waiting =>
          LET k == call[p].key IN meta[k].paths \subseteq gcRoots[meta[k].id]
    BY <1>11 DEF FinishGCRoots, RootsInv, Progress
  <2>2. QED
    BY <1>11, <2>1, ReturnRoots DEF FinishGCRoots
<1>12. ASSUME NEW p \in Procs, WithNixBindMounts(p)
       PROVE  RootsInv'
  <2>1. call[p].waiting =>
          LET k == call[p].key IN meta[k].paths \subseteq gcRoots[meta[k].id]
    BY <1>12 DEF WithNixBindMounts, RootsInv, Progress, AckedRooted
  <2>2. QED
    BY <1>12, <2>1, ReturnRoots DEF WithNixBindMounts
<1>13. ASSUME NEW p \in Procs, NEW d \in Ids, SweepDir(p, d)
       PROVE  RootsInv'
  <2>1. ~call[p].waiting
    BY <1>13 DEF SweepDir, TypeOK
  <2>2. QED
    BY <1>13, <2>1, QuietRoots DEF SweepDir, TypeOK, Call
<1>14. ASSUME NEW p \in Procs, SweepGCRoots(p)
       PROVE  RootsInv'
  <2>1. \A k \in Live : meta[k].id # call[p].id
    BY <1>14 DEF SweepGCRoots, DirsInv, DoomedDead, LiveIds
  <2>2. \A k \in Live : gcRoots[meta[k].id] \subseteq gcRoots'[meta[k].id]
    BY <1>14, <2>1 DEF SweepGCRoots, TypeOK
  <2>3. QED
    BY <1>14, <2>2, IdleType, QuietRoots DEF SweepGCRoots, Sweep, TypeOK
<1>15. ASSUME NEW k \in Keys, NEW name \in Keys, Commit(k, name)
       PROVE  RootsInv'
  <2>1. /\ k \in acked /\ k # name /\ name \notin Live /\ ~Busy(k)
        /\ acked' = (acked \ {k}) \cup {name} /\ UNCHANGED <<gcRoots, call>>
    BY <1>15 DEF Commit
  <2>2. /\ meta'[name].id = meta[k].id /\ meta'[name].paths = meta[k].paths
        /\ meta'[name].kind = "committed"
        /\ \A j \in Keys \ {k, name} : meta'[j] = meta[j]
    BY <1>15, CommitRecords
  <2>3. acked' \subseteq Live'
    BY <2>1, <2>2 DEF RootsInv, Live
  <2>4. AckedRooted'
    BY <2>1, <2>2 DEF RootsInv, AckedRooted, Live
  <2>5. ASSUME NEW q \in Procs, call'[q].waiting
        PROVE  Progress(q)'
    <3>1. Progress(q) /\ call[q].key \in Live /\ call[q].key \notin {k, name}
      BY <2>1, <2>5 DEF Busy, RootsInv, Progress
    <3>2. QED
      BY <2>1, <2>2, <3>1, ProgressFrame DEF Live
  <2>6. QED
    BY <2>3, <2>4, <2>5 DEF RootsInv
<1>16. ASSUME NEW k \in Keys, NEW layer \in Layers, Update(k, layer)
       PROVE  FALSE
  BY <1>16 DEF Update
<1>17. ASSUME NEW p \in Procs, Cancel(p)
       PROVE  RootsInv'
  BY <1>17, QuietRoots DEF Cancel, TypeOK, Call
<1>18. CASE Crash
  BY <1>18, IdleType, QuietRoots DEF Crash
<1>19. CASE TornCreate
  BY <1>19, IdleType, QuietRoots DEF TornCreate
<1>20. ASSUME NEW path \in Paths, NixGC(path)
       PROVE  RootsInv'
  BY <1>20, QuietRoots DEF NixGC
<1>21. CASE UNCHANGED vars
  BY <1>21, QuietRoots DEF vars
<1>22. QED
  BY <1>1, <1>2, <1>3, <1>4, <1>5, <1>6, <1>7, <1>8, <1>9, <1>10, <1>11, <1>12,
     <1>13, <1>14, <1>15, <1>16, <1>17, <1>18, <1>19, <1>20, <1>21
     DEF Next, Begin, Continue, Environment

\* What the comment at snapshotter.go:111-114 promises, under the conditions
\* that the runs show to be necessary: if the builder does not fail and labels
\* do not change, each store path of a layer has its GC root from the moment
\* Prepare returned success until Remove, over crashes, cancelled calls, failed
\* removals and any number of concurrent calls.
THEOREM RootsKept ==
  ASSUME Orderly, "builderFails" \notin Faults, "relabel" \notin Faults
  PROVE  Spec => []AckedRooted
<1>1. Init => RootsInv
  BY DEF Init, RootsInv, AckedRooted, Idle
<1>2. TypeOK /\ DirsInv /\ RootsInv /\ [Next]_vars => RootsInv'
  BY RootsStep
<1>3. RootsInv => AckedRooted
  BY DEF RootsInv
<1>4. QED
  BY <1>1, <1>2, <1>3, DirsAlways, TypeCorrect, PTL DEF Spec

\* With any faults, only a sweep takes GC roots away, and it has no recorded
\* snapshot on its list.
LEMMA RootsStayStep ==
  TypeOK /\ DirsInv /\ [Next]_vars =>
    \A i \in LiveIds \cap LiveIds' : gcRoots[i] \subseteq gcRoots'[i]
<1> SUFFICES ASSUME TypeOK, DirsInv, [Next]_vars, NEW i \in LiveIds \cap LiveIds'
             PROVE  gcRoots[i] \subseteq gcRoots'[i]
  OBVIOUS
<1>1. ASSUME NEW p \in Procs, NEW path \in Paths, BuildGCRoot(p, path)
      PROVE  gcRoots[i] \subseteq gcRoots'[i]
  <2>1. i \in Ids
    BY BoundAssumption DEF DirsInv, TypeOK, Ids
  <2>2. QED
    BY <1>1, <2>1 DEF BuildGCRoot, TypeOK
<1>2. ASSUME NEW p \in Procs, SweepGCRoots(p)
      PROVE  gcRoots[i] \subseteq gcRoots'[i]
  <2>1. call[p].id # i
    BY <1>2 DEF SweepGCRoots, DirsInv, DoomedDead
  <2>2. i \in Ids
    BY BoundAssumption DEF DirsInv, TypeOK, Ids
  <2>3. QED
    BY <1>2, <2>1, <2>2 DEF SweepGCRoots, TypeOK
<1>3. ASSUME NEW p \in Procs, Begin(p)
      PROVE  gcRoots' = gcRoots
  BY <1>3 DEF Begin, Prepare, View, CreateFails, Mounts, Remove, Cleanup
<1>4. ASSUME NEW p \in Procs, Continue(p),
             ~SweepGCRoots(p), ~\E path \in Paths : BuildGCRoot(p, path)
      PROVE  gcRoots' = gcRoots
  BY <1>4 DEF Continue, Reclaim, OpenGCRoots, BuildGCRootFails, FinishGCRoots,
              WithNixBindMounts, SweepDir
<1>5. CASE Environment
  BY <1>5 DEF Environment, Commit, Update, Cancel, Crash, TornCreate, NixGC
<1>6. CASE UNCHANGED vars
  BY <1>6 DEF vars
<1>7. QED
  BY <1>1, <1>2, <1>3, <1>4, <1>5, <1>6 DEF Next

\* A recorded snapshot keeps the GC roots that it has (snapshotter.go:191-263),
\* whether or not builders fail and labels change: what swallowed_builder_error
\* shows to be missing was never made, and is not taken away.
THEOREM RootsOnlyGrow ==
  ASSUME Orderly
  PROVE  Spec => RootsStay
<1>1. TypeOK /\ DirsInv /\ [Next]_vars =>
        [\A i \in LiveIds \cap LiveIds' : gcRoots[i] \subseteq gcRoots'[i]]_vars
  BY RootsStayStep
<1>2. QED
  BY <1>1, DirsAlways, TypeCorrect, PTL DEF Spec, RootsStay

-----------------------------------------------------------------------------
(* Leaked roots                                                            *)

\* A goroutine that builds roots goes on to do so for the same snapshot.
LEMMA BuilderFrame ==
  ASSUME TidyInv, NEW q \in Procs, call'[q] = call[q],
         call[q].key \in Live =>
           call[q].key \in Live' /\ meta'[call[q].key].id = meta[call[q].key].id
  PROVE  call'[q].step \in {"gcRoots", "building"} =>
           /\ call'[q].waiting
           /\ call'[q].key \in Live'
           /\ call'[q].step = "building" => call'[q].id = meta'[call'[q].key].id
BY DEF TidyInv

\* A step that makes no root, removes no directory and ends no sweep.
LEMMA LeakFrame ==
  ASSUME TidyInv, \A i \in Ids : gcRoots'[i] # {} => gcRoots[i] # {},
         snapDirs \subseteq snapDirs',
         \A q \in Procs : call[q].step = "sweepRoots" => call'[q] = call[q]
  PROVE  NoLeakedRoots'
BY DEF TidyInv, NoLeakedRoots

\* A step that leaves the snapshots and the disk alone, and starts no builder.
LEMMA QuietTidy ==
  ASSUME TidyInv, UNCHANGED <<meta, snapDirs, gcRoots>>,
         \A q \in Procs :
           \/ call'[q] = call[q]
           \/ /\ call[q].step # "sweepRoots"
              /\ call'[q].step \notin {"gcRoots", "building"}
  PROVE  TidyInv'
<1>1. Live' = Live
  BY DEF Live
<1>2. NoLeakedRoots'
  BY LeakFrame
<1>3. QED
  BY <1>1, <1>2, BuilderFrame DEF TidyInv

\* A new snapshot has a builder of its own, if any.
LEMMA CreateTidy ==
  ASSUME TypeOK, TidyInv, NEW p \in Procs, call[p].step = "idle", NEW k \in Keys,
         NEW kind, kind # "absent", NEW parent, NEW paths,
         Create(k, kind, parent, paths), UNCHANGED gcRoots,
         NEW step \in {"gcRoots", "mounts"}, NEW todo,
         call' = [call EXCEPT ![p] = Request(step, k, todo)]
  PROVE  TidyInv'
<1>1. /\ meta'[k].kind = kind /\ snapDirs \subseteq snapDirs' /\ k \notin Live
      /\ \A j \in Keys \ {k} : meta'[j] = meta[j]
  BY DEF Create, CanCreate, TypeOK
<1>2. \A j \in Live : j \in Live' /\ meta'[j] = meta[j]
  BY <1>1 DEF Live
<1>3. call'[p] = Request(step, k, todo) /\ \A q \in Procs \ {p} : call'[q] = call[q]
  BY DEF TypeOK
<1>4. NoLeakedRoots'
  BY <1>1, <1>3, LeakFrame
<1>5. k \in Live'
  BY <1>1 DEF Live
<1>6. \A q \in Procs : call'[q].step \in {"gcRoots", "building"} =>
        /\ call'[q].waiting
        /\ call'[q].key \in Live'
        /\ call'[q].step = "building" => call'[q].id = meta'[call'[q].key].id
  BY <1>2, <1>3, <1>5, BuilderFrame DEF Request
<1>7. QED
  BY <1>4, <1>6 DEF TidyInv

\* Every step keeps TidyInv, if no process dies, no client gives up and
\* removals succeed.
LEMMA TidyStep ==
  ASSUME Faults \subseteq {"builderFails", "relabel"}
  PROVE  TypeOK /\ DirsInv /\ HandedOut /\ TidyInv /\ [Next]_vars => TidyInv'
<1> SUFFICES ASSUME TypeOK, DirsInv, HandedOut, TidyInv, [Next]_vars
             PROVE  TidyInv'
  OBVIOUS
<1>1. ASSUME NEW p \in Procs, NEW k \in Keys, NEW parent \in Keys \cup {NoKey},
             NEW layer \in Layers, Prepare(p, k, parent, layer)
      PROVE  TidyInv'
  BY <1>1, CreateTidy DEF Prepare
<1>2. ASSUME NEW p \in Procs, NEW k \in Keys, NEW parent \in Keys \cup {NoKey},
             NEW layer \in Layers, View(p, k, parent, layer)
      PROVE  TidyInv'
  BY <1>2, CreateTidy DEF View
<1>3. ASSUME NEW p \in Procs, NEW k \in Keys, NEW parent \in Keys \cup {NoKey},
             CreateFails(p, k, parent)
      PROVE  FALSE
  BY <1>3 DEF CreateFails, HandedOut, TypeOK
<1>4. ASSUME NEW p \in Procs, NEW k \in Keys, Mounts(p, k)
      PROVE  TidyInv'
  BY <1>4, QuietTidy DEF Mounts, Request, TypeOK
<1>5. ASSUME NEW p \in Procs, NEW k \in Keys, Remove(p, k)
      PROVE  TidyInv'
  <2>1. /\ \A j \in Keys \ {k} : meta'[j] = meta[j]
        /\ UNCHANGED <<snapDirs, gcRoots>> /\ ~Busy(k) /\ call[p].step = "idle"
        /\ \A q \in Procs \ {p} : call'[q] = call[q]
        /\ call'[p].step \in {"idle", "sweepDir"}
    BY <1>5 DEF Remove, Sweep, Idle, TypeOK
  <2>2. NoLeakedRoots'
    BY <2>1, LeakFrame
  <2>3. \A q \in Procs : call'[q].step \in {"gcRoots", "building"} =>
          /\ call'[q] = call[q] /\ call[q].waiting
          /\ call[q].key \in Live \ {k}
    BY <2>1 DEF TidyInv, Busy
  <2>4. \A j \in Live \ {k} : j \in Live' /\ meta'[j] = meta[j]
    BY <2>1 DEF Live
  <2>5. QED
    BY <2>2, <2>3, <2>4 DEF TidyInv
<1>6. ASSUME NEW p \in Procs, Cleanup(p)
      PROVE  TidyInv'
  BY <1>6, QuietTidy DEF Cleanup, Sweep, Idle, TypeOK
<1>7. ASSUME NEW p \in Procs, Reclaim(p)
      PROVE  FALSE
  BY <1>7 DEF Reclaim, HandedOut
<1>8. ASSUME NEW p \in Procs, OpenGCRoots(p)
      PROVE  TidyInv'
  <2>1. call[p].key \in Live /\ call[p].waiting
    BY <1>8 DEF OpenGCRoots, TidyInv
  <2>2. /\ UNCHANGED <<meta, snapDirs, gcRoots>> /\ Live' = Live
        /\ \A q \in Procs \ {p} : call'[q] = call[q]
        /\ call'[p].key = call[p].key /\ call'[p].waiting = call[p].waiting
        /\ call'[p].id = meta[call[p].key].id
    <3>1. UNCHANGED <<meta, snapDirs, gcRoots>> /\ Live' = Live
      BY <1>8 DEF OpenGCRoots, Live
    <3>2. call' = [call EXCEPT ![p].step = "building", ![p].id = meta[call[p].key].id]
      BY <1>8, <2>1 DEF OpenGCRoots
    <3>3. QED
      BY <3>1, <3>2 DEF TypeOK, Call
  <2>3. NoLeakedRoots'
    BY <1>8, <2>2, LeakFrame DEF OpenGCRoots
  <2>4. \A q \in Procs : call'[q].step \in {"gcRoots", "building"} =>
          /\ call'[q].waiting
          /\ call'[q].key \in Live'
          /\ call'[q].step = "building" => call'[q].id = meta'[call'[q].key].id
    BY <2>1, <2>2, BuilderFrame
  <2>5. QED
    BY <2>3, <2>4 DEF TidyInv
<1>9. ASSUME NEW p \in Procs, NEW path \in Paths, BuildGCRoot(p, path)
      PROVE  TidyInv'
  <2>1. /\ UNCHANGED <<meta, snapDirs>> /\ Live' = Live
        /\ \A q \in Procs :
             /\ call'[q].step = call[q].step /\ call'[q].key = call[q].key
             /\ call'[q].id = call[q].id /\ call'[q].waiting = call[q].waiting
    BY <1>9 DEF BuildGCRoot, Live, TypeOK, Call
  <2>2. call[p].id \in snapDirs
    BY <1>9 DEF BuildGCRoot, TidyInv, DirsInv, LiveHasDir, LiveIds
  <2>3. \A i \in Ids \ {call[p].id} : gcRoots'[i] = gcRoots[i]
    BY <1>9 DEF BuildGCRoot, TypeOK
  <2>4. NoLeakedRoots'
    BY <2>1, <2>2, <2>3 DEF TidyInv, NoLeakedRoots
  <2>5. QED
    BY <2>1, <2>4 DEF TidyInv
<1>10. ASSUME NEW p \in Procs, BuildGCRootFails(p)
       PROVE  TidyInv'
  BY <1>10, QuietTidy DEF BuildGCRootFails, Return, Idle, TypeOK
<1>11. ASSUME NEW p \in Procs, FinishGCRoots(p)
       PROVE  TidyInv'
  BY <1>11, QuietTidy DEF FinishGCRoots, Return, Idle, TypeOK
<1>12. ASSUME NEW p \in Procs, WithNixBindMounts(p)
       PROVE  TidyInv'
  BY <1>12, QuietTidy DEF WithNixBindMounts, Return, Idle, TypeOK
<1>13. ASSUME NEW p \in Procs, NEW d \in Ids, SweepDir(p, d)
       PROVE  TidyInv'
  <2>1. /\ UNCHANGED <<meta, gcRoots>> /\ Live' = Live
        /\ snapDirs' = snapDirs \ {d}
        /\ \A q \in Procs \ {p} : call'[q] = call[q]
        /\ call[p].step = "sweepDir"
        /\ call'[p].step = "sweepRoots" /\ call'[p].id = d
    BY <1>13 DEF SweepDir, Live, TypeOK, Call
  <2>2. NoLeakedRoots'
    BY <2>1 DEF TidyInv, NoLeakedRoots
  <2>3. QED
    BY <2>1, <2>2, BuilderFrame DEF TidyInv
<1>14. ASSUME NEW p \in Procs, SweepGCRoots(p)
       PROVE  TidyInv'
  <2>1. /\ UNCHANGED <<meta, snapDirs>> /\ Live' = Live
        /\ \A q \in Procs \ {p} : call'[q] = call[q]
        /\ call[p].step = "sweepRoots" /\ call'[p].step \in {"idle", "sweepDir"}
        /\ \A i \in Ids : gcRoots'[i] = IF i = call[p].id THEN {} ELSE gcRoots[i]
    BY <1>14 DEF SweepGCRoots, Sweep, Idle, Live, TypeOK
  <2>2. NoLeakedRoots'
    BY <2>1 DEF TidyInv, NoLeakedRoots
  <2>3. QED
    BY <2>1, <2>2, BuilderFrame DEF TidyInv
<1>15. ASSUME NEW k \in Keys, NEW name \in Keys, Commit(k, name)
       PROVE  TidyInv'
  <2>1. ~Busy(k) /\ name \notin Live /\ UNCHANGED <<snapDirs, gcRoots, call>>
    BY <1>15 DEF Commit
  <2>2. \A j \in Keys \ {k, name} : meta'[j] = meta[j]
    BY <1>15, CommitRecords
  <2>3. \A j \in Live \ {k} : j \in Live' /\ meta'[j] = meta[j]
    BY <2>1, <2>2 DEF Live
  <2>4. \A q \in Procs : call[q].step \in {"gcRoots", "building"} => call[q].key \in Live \ {k}
    BY <2>1 DEF TidyInv, Busy
  <2>5. NoLeakedRoots'
    BY <2>1, LeakFrame
  <2>6. QED
    BY <2>1, <2>3, <2>4, <2>5 DEF TidyInv
<1>16. ASSUME NEW k \in Keys, NEW layer \in Layers, Update(k, layer)
       PROVE  TidyInv'
  <2>1. \A j \in Keys : meta'[j].id = meta[j].id /\ meta'[j].kind = meta[j].kind
    BY <1>16 DEF Update, TypeOK, Snapshot
  <2>2. Live' = Live /\ \A j \in Live : meta'[j].id = meta[j].id
    BY <2>1 DEF Live
  <2>3. UNCHANGED <<snapDirs, gcRoots, call>>
    BY <1>16 DEF Update
  <2>4. NoLeakedRoots'
    BY <2>3, LeakFrame
  <2>5. QED
    BY <2>2, <2>3, <2>4, BuilderFrame DEF TidyInv
<1>17. ASSUME NEW p \in Procs, Cancel(p)
       PROVE  FALSE
  BY <1>17 DEF Cancel
<1>18. CASE Crash
  BY <1>18 DEF Crash
<1>19. CASE TornCreate
  BY <1>19 DEF TornCreate
<1>20. ASSUME NEW path \in Paths, NixGC(path)
       PROVE  TidyInv'
  BY <1>20, QuietTidy DEF NixGC
<1>21. CASE UNCHANGED vars
  BY <1>21, QuietTidy DEF vars
<1>22. QED
  BY <1>1, <1>2, <1>3, <1>4, <1>5, <1>6, <1>7, <1>8, <1>9, <1>10, <1>11, <1>12,
     <1>13, <1>14, <1>15, <1>16, <1>17, <1>18, <1>19, <1>20, <1>21
     DEF Next, Begin, Continue, Environment

\* No GC root gets out of reach of Cleanup (getCleanupDirectories,
\* snapshotter.go:265-295), whatever the builder returns and labels become, if
\* no process dies, clients wait for their calls and removals succeed: every
\* one of these conditions is needed, as the runs and observations show.
THEOREM NothingLeaks ==
  ASSUME Faults \subseteq {"builderFails", "relabel"}
  PROVE  Spec => []NoLeakedRoots
<1>1. Orderly /\ "tornCreate" \notin Faults /\ "commitFails" \notin Faults
  BY DEF Orderly
<1>2. Spec => []DirsInv /\ []HandedOut
  BY <1>1, DirsAlways, HandedOutAlways
<1>3. Init => TidyInv
  BY DEF Init, TidyInv, NoLeakedRoots, Idle
<1>4. TypeOK /\ DirsInv /\ HandedOut /\ TidyInv /\ [Next]_vars => TidyInv'
  BY TidyStep
<1>5. TidyInv => NoLeakedRoots
  BY DEF TidyInv
<1>6. QED
  BY <1>2, <1>3, <1>4, <1>5, TypeCorrect, PTL DEF Spec

-----------------------------------------------------------------------------
(* Exactly the roots of the recorded snapshots                             *)

\* A step of calls that leaves the snapshots and their directories alone.
LEMMA CallsExact ==
  ASSUME ExactInv, UNCHANGED <<meta, snapDirs>>, acked \subseteq acked',
         \A k \in Live : gcRoots'[meta[k].id] \subseteq meta[k].paths,
         \A q \in Procs :
           /\ call'[q].step \in {"gcRoots", "building"} =>
                /\ call[q].step \in {"gcRoots", "building"}
                /\ call'[q].key = call[q].key /\ call'[q].todo \subseteq call[q].todo
           /\ call'[q].step \in {"gcRoots", "building", "mounts"} =>
                call'[q].waiting /\ call'[q].doomed = {}
           /\ call[q].waiting =>
                \/ call'[q].waiting /\ call'[q].key = call[q].key
                \/ call[q].key \in acked'
           /\ call[q].doomed \subseteq call'[q].doomed
  PROVE  ExactInv'
<1>1. Live' = Live /\ LiveIds' = LiveIds
  BY DEF Live, LiveIds
<1>2. \A q \in Procs : call'[q].step \in {"gcRoots", "building"} =>
        call'[q].todo \subseteq meta'[call'[q].key].paths
  BY DEF ExactInv
<1>3. \A k \in Live : k \in acked' \/ \E p \in Procs : call'[p].waiting /\ call'[p].key = k
  BY DEF ExactInv
<1>4. \A i \in snapDirs \ LiveIds : \E p \in Procs : i \in call'[p].doomed
  BY DEF ExactInv
<1>5. QED
  BY <1>1, <1>2, <1>3, <1>4 DEF ExactInv

\* A step in which at most one call moves, and takes no roots along but dead
\* ones.
LEMMA QuietExact ==
  ASSUME ExactInv, UNCHANGED <<meta, snapDirs>>, acked \subseteq acked',
         \A k \in Live : gcRoots'[meta[k].id] = gcRoots[meta[k].id],
         NEW p \in Procs, \A q \in Procs \ {p} : call'[q] = call[q],
         call'[p].step \notin {"gcRoots", "building"},
         call'[p].step = "mounts" => call'[p].waiting /\ call'[p].doomed = {},
         call[p].waiting => call[p].key \in acked',
         call[p].doomed \subseteq call'[p].doomed
  PROVE  ExactInv'
<1>1. \A k \in Live : gcRoots'[meta[k].id] \subseteq meta[k].paths
  BY DEF ExactInv
<1>2. \A q \in Procs \ {p} :
        call[q].step \in {"gcRoots", "building", "mounts"} =>
          call[q].waiting /\ call[q].doomed = {}
  BY DEF ExactInv
<1>3. QED
  BY <1>1, <1>2, CallsExact

\* A call that returns success: nothing that is to be removed was on its list.
LEMMA ReturnExact ==
  ASSUME TypeOK, ExactInv, NEW p \in Procs, NEW paths, Return(p, TRUE, paths),
         UNCHANGED <<meta, snapDirs, gcRoots>>,
         call[p].step \in {"gcRoots", "building", "mounts"}
  PROVE  ExactInv'
<1>1. /\ call[p].waiting /\ call[p].doomed = {}
      /\ \A q \in Procs \ {p} : call'[q] = call[q]
      /\ call'[p] = Idle
  BY DEF ExactInv, Return, TypeOK
<1>2. acked \subseteq acked' /\ call[p].key \in acked'
  BY <1>1 DEF Return
<1>3. QED
  BY <1>1, <1>2, QuietExact DEF Idle

\* A new snapshot has an id without roots, and the call waits for it.
LEMMA CreateExact ==
  ASSUME TypeOK, DirsInv, HandedOut, TidyInv, ExactInv, NEW p \in Procs,
         call[p].step = "idle", NEW k \in Keys, NEW kind, kind # "absent",
         NEW parent, NEW paths, Create(k, kind, parent, paths),
         UNCHANGED <<gcRoots, acked>>, NEW step \in {"gcRoots", "mounts"},
         NEW todo, todo \subseteq paths,
         call' = [call EXCEPT ![p] = Request(step, k, todo)]
  PROVE  ExactInv'
<1>1. /\ k \notin Live /\ seq \in Nat /\ snapDirs' = snapDirs \cup {seq + 1}
      /\ seq + 1 \in Ids
      /\ meta'[k].kind = kind /\ meta'[k].id = seq + 1 /\ meta'[k].paths = paths
      /\ \A j \in Keys \ {k} : meta'[j] = meta[j]
  BY BoundAssumption DEF Create, CanCreate, TypeOK, Ids
<1>2. Live \subseteq Keys /\ Live' = Live \cup {k} /\ \A j \in Live : meta'[j] = meta[j]
  BY <1>1 DEF Live
<1>3. LiveIds' = LiveIds \cup {seq + 1}
  BY <1>1, <1>2 DEF LiveIds
<1>4. /\ call'[p] = Request(step, k, todo) /\ call[p] = Idle
      /\ \A q \in Procs \ {p} : call'[q] = call[q]
  BY DEF TypeOK
<1>5. gcRoots[seq + 1] = {}
  BY <1>1 DEF DirsInv, HandedOut, TidyInv, NoLeakedRoots
<1>6. \A j \in Live' : gcRoots'[meta'[j].id] \subseteq meta'[j].paths
  BY <1>1, <1>2, <1>5 DEF ExactInv
<1>7. \A j \in Live' : j \in acked' \/ \E q \in Procs : call'[q].waiting /\ call'[q].key = j
  BY <1>2, <1>4 DEF ExactInv, Request, Idle
<1>8. \A i \in snapDirs' \ LiveIds' : \E q \in Procs : i \in call'[q].doomed
  BY <1>1, <1>3, <1>4 DEF ExactInv, Idle
<1>9. \A q \in Procs : call'[q].step \in {"gcRoots", "building"} =>
        call'[q].todo \subseteq meta'[call'[q].key].paths
  BY <1>1, <1>2, <1>4 DEF ExactInv, TidyInv, Request
<1>10. \A q \in Procs : call'[q].step \in {"gcRoots", "building", "mounts"} =>
         call'[q].waiting /\ call'[q].doomed = {}
  BY <1>4 DEF ExactInv, Request
<1>11. QED
  BY <1>6, <1>7, <1>8, <1>9, <1>10 DEF ExactInv

\* Remove puts every directory without a snapshot on its list.
LEMMA RemoveExact ==
  ASSUME TypeOK, TidyInv, ExactInv, NEW p \in Procs, NEW k \in Keys, Remove(p, k)
  PROVE  ExactInv'
<1>1. /\ meta'[k] = Absent /\ \A j \in Keys \ {k} : meta'[j] = meta[j]
      /\ UNCHANGED <<snapDirs, gcRoots>> /\ acked' = acked \ {k} /\ ~Busy(k)
      /\ call[p] = Idle /\ \A q \in Procs \ {p} : call'[q] = call[q]
      /\ call'[p].step \in {"idle", "sweepDir"} /\ ~call'[p].waiting
  BY IdleType DEF Remove, Sweep, TypeOK, Idle
<1>2. Live \subseteq Keys /\ Live' = Live \ {k} /\ \A j \in Live' : meta'[j] = meta[j]
  BY <1>1 DEF Live, Absent
<1>3. call'[p].doomed = CleanupDirectories(meta')
  BY DEF Remove, Sweep, TypeOK, Idle
<1>4. CleanupDirectories(meta') = snapDirs' \ LiveIds'
  BY <1>1 DEF CleanupDirectories, IDMap, LiveIds, Live
<1>5. \A j \in Live' : j \in acked' \/ \E q \in Procs : call'[q].waiting /\ call'[q].key = j
  BY <1>1, <1>2 DEF ExactInv, Idle
<1>6. \A q \in Procs : call'[q].step \in {"gcRoots", "building"} =>
        call'[q].todo \subseteq meta'[call'[q].key].paths
  BY <1>1, <1>2 DEF ExactInv, TidyInv, Busy
<1>7. \A q \in Procs : call'[q].step \in {"gcRoots", "building", "mounts"} =>
        call'[q].waiting /\ call'[q].doomed = {}
  BY <1>1 DEF ExactInv
<1>8. \A j \in Live' : gcRoots'[meta'[j].id] \subseteq meta'[j].paths
  BY <1>1, <1>2 DEF ExactInv
<1>9. QED
  BY <1>3, <1>4, <1>5, <1>6, <1>7, <1>8 DEF ExactInv

\* Commit passes the id, its roots and the acknowledgement on.
LEMMA CommitExact ==
  ASSUME TypeOK, TidyInv, ExactInv, NEW k \in Keys, NEW name \in Keys,
         Commit(k, name)
  PROVE  ExactInv'
<1>1. /\ k \in Live /\ k # name /\ name \notin Live /\ ~Busy(k)
      /\ acked' = (acked \ {k}) \cup {name}
      /\ UNCHANGED <<snapDirs, gcRoots, call>>
  BY DEF Commit
<1>2. /\ meta'[name].id = meta[k].id /\ meta'[name].paths = meta[k].paths
      /\ meta'[name].kind = "committed" /\ meta'[k] = Absent
      /\ \A j \in Keys \ {k, name} : meta'[j] = meta[j]
  BY CommitRecords
<1>3. Live' = (Live \ {k}) \cup {name} /\ Live \subseteq Keys
  BY <1>1, <1>2 DEF Live, Absent
<1>4. LiveIds' = LiveIds
  BY <1>1, <1>2, <1>3 DEF LiveIds
<1>5. \A j \in Live' : gcRoots'[meta'[j].id] \subseteq meta'[j].paths
  BY <1>1, <1>2, <1>3 DEF ExactInv
<1>6. \A j \in Live' : j \in acked' \/ \E q \in Procs : call'[q].waiting /\ call'[q].key = j
  BY <1>1, <1>3 DEF ExactInv
<1>7. \A q \in Procs : call'[q].step \in {"gcRoots", "building"} =>
        call'[q].todo \subseteq meta'[call'[q].key].paths
  BY <1>1, <1>2, <1>3 DEF ExactInv, TidyInv, Busy
<1>8. QED
  BY <1>1, <1>4, <1>5, <1>6, <1>7 DEF ExactInv

\* Every step keeps ExactInv, if nothing goes wrong.
LEMMA ExactStep ==
  ASSUME Faults = {}
  PROVE  TypeOK /\ DirsInv /\ HandedOut /\ RootsInv /\ TidyInv /\ ExactInv /\ [Next]_vars => ExactInv'
<1> SUFFICES ASSUME TypeOK, DirsInv, HandedOut, RootsInv, TidyInv, ExactInv, [Next]_vars
             PROVE  ExactInv'
  OBVIOUS
<1>1. ASSUME NEW p \in Procs, NEW k \in Keys, NEW parent \in Keys \cup {NoKey},
             NEW layer \in Layers, Prepare(p, k, parent, layer)
      PROVE  ExactInv'
  BY <1>1, CreateExact DEF Prepare
<1>2. ASSUME NEW p \in Procs, NEW k \in Keys, NEW parent \in Keys \cup {NoKey},
             NEW layer \in Layers, View(p, k, parent, layer)
      PROVE  ExactInv'
  <2> DEFINE none == {}
             paths == layer.paths
  <2>1. /\ call[p].step = "idle" /\ Create(k, "view", parent, paths)
        /\ UNCHANGED <<gcRoots, acked>>
        /\ call' = [call EXCEPT ![p] = Request("mounts", k, none)]
    BY <1>2 DEF View
  <2>2. none \subseteq paths
    OBVIOUS
  <2> HIDE DEF none, paths
  <2>3. QED
    BY <2>1, <2>2, CreateExact
<1>3. ASSUME NEW p \in Procs, NEW k \in Keys, NEW parent \in Keys \cup {NoKey},
             CreateFails(p, k, parent)
      PROVE  FALSE
  BY <1>3 DEF CreateFails, HandedOut, TypeOK
<1>4. ASSUME NEW p \in Procs, NEW k \in Keys, Mounts(p, k)
      PROVE  ExactInv'
  BY <1>4, QuietExact DEF Mounts, Request, Idle, TypeOK
<1>5. ASSUME NEW p \in Procs, NEW k \in Keys, Remove(p, k)
      PROVE  ExactInv'
  BY <1>5, RemoveExact
<1>6. ASSUME NEW p \in Procs, Cleanup(p)
      PROVE  ExactInv'
  BY <1>6, QuietExact DEF Cleanup, Sweep, Idle, TypeOK
<1>7. ASSUME NEW p \in Procs, Reclaim(p)
      PROVE  FALSE
  BY <1>7 DEF Reclaim, HandedOut
<1>8. ASSUME NEW p \in Procs, OpenGCRoots(p)
      PROVE  ExactInv'
  <2>1. call[p].key \in Live
    BY <1>8 DEF OpenGCRoots, TidyInv
  <2>2. call' = [call EXCEPT ![p].step = "building", ![p].id = meta[call[p].key].id]
    BY <1>8, <2>1 DEF OpenGCRoots
  <2>3. \A q \in Procs :
          /\ call'[q].key = call[q].key /\ call'[q].todo = call[q].todo
          /\ call'[q].waiting = call[q].waiting /\ call'[q].doomed = call[q].doomed
          /\ call'[q].step = IF q = p THEN "building" ELSE call[q].step
    BY <2>2 DEF TypeOK, Call
  <2>4. UNCHANGED <<meta, snapDirs, gcRoots, acked>> /\ call[p].step = "gcRoots"
    BY <1>8, <2>1 DEF OpenGCRoots
  <2>5. QED
    BY <2>3, <2>4, CallsExact DEF ExactInv
<1>9. ASSUME NEW p \in Procs, NEW path \in Paths, BuildGCRoot(p, path)
      PROVE  ExactInv'
  <2>1. /\ \A q \in Procs :
             /\ call'[q].step = call[q].step /\ call'[q].key = call[q].key
             /\ call'[q].todo \subseteq call[q].todo
             /\ call'[q].waiting = call[q].waiting /\ call'[q].doomed = call[q].doomed
        /\ UNCHANGED <<meta, snapDirs, acked>> /\ call[p].step = "building"
        /\ path \in call[p].todo
    BY <1>9 DEF BuildGCRoot, TypeOK, Call
  <2>2. /\ call[p].key \in Live /\ call[p].id = meta[call[p].key].id
        /\ path \in meta[call[p].key].paths
    BY <2>1 DEF TidyInv, ExactInv
  <2>3. \A i \in Ids : gcRoots'[i] = IF i = call[p].id THEN gcRoots[i] \cup {path}
                                     ELSE gcRoots[i]
    BY <1>9 DEF BuildGCRoot, TypeOK
  <2>4. \A k \in Live : meta[k].id = call[p].id => k = call[p].key
    BY <2>2 DEF DirsInv, HandedOut
  <2>5. \A k \in Live : gcRoots'[meta[k].id] \subseteq meta[k].paths
    <3> TAKE k \in Live
    <3>1. gcRoots[meta[k].id] \subseteq meta[k].paths /\ meta[k].id \in Ids
      BY DEF TypeOK, ExactInv
    <3>2. CASE meta[k].id = call[p].id
      <4>1. path \in meta[k].paths
        BY <2>2, <2>4, <3>2
      <4>2. gcRoots'[meta[k].id] = gcRoots[meta[k].id] \cup {path}
        BY <2>3, <3>1, <3>2
      <4>3. QED
        BY <3>1, <4>1, <4>2
    <3>3. CASE meta[k].id # call[p].id
      BY <2>3, <3>1, <3>3
    <3>4. QED
      BY <3>2, <3>3
  <2>6. QED
    BY <2>1, <2>5, CallsExact DEF ExactInv
<1>10. ASSUME NEW p \in Procs, BuildGCRootFails(p)
       PROVE  FALSE
  BY <1>10 DEF BuildGCRootFails
<1>11. ASSUME NEW p \in Procs, FinishGCRoots(p)
       PROVE  ExactInv'
  BY <1>11, ReturnExact DEF FinishGCRoots
<1>12. ASSUME NEW p \in Procs, WithNixBindMounts(p)
       PROVE  ExactInv'
  <2>1. call[p].key \in Live
    BY <1>12 DEF WithNixBindMounts, ExactInv, RootsInv, Progress
  <2>2. QED
    BY <1>12, <2>1, ReturnExact DEF WithNixBindMounts
<1>13. ASSUME NEW p \in Procs, NEW d \in Ids, SweepDir(p, d)
       PROVE  ExactInv'
  <2>1. /\ UNCHANGED <<meta, gcRoots, acked>> /\ snapDirs' = snapDirs \ {d}
        /\ \A q \in Procs \ {p} : call'[q] = call[q]
        /\ call'[p].step = "sweepRoots" /\ call'[p].doomed = call[p].doomed \ {d}
        /\ ~call[p].waiting
    BY <1>13 DEF SweepDir, TypeOK, Call
  <2>2. Live' = Live /\ LiveIds' = LiveIds
    BY <2>1 DEF Live, LiveIds
  <2>3. \A i \in snapDirs' \ LiveIds : \E q \in Procs : i \in call'[q].doomed
    BY <2>1 DEF ExactInv
  <2>4. QED
    BY <2>1, <2>2, <2>3 DEF ExactInv
<1>14. ASSUME NEW p \in Procs, SweepGCRoots(p)
       PROVE  ExactInv'
  <2>1. \A k \in Live : meta[k].id # call[p].id
    BY <1>14 DEF SweepGCRoots, DirsInv, DoomedDead, LiveIds
  <2>2. \A k \in Live : gcRoots'[meta[k].id] = gcRoots[meta[k].id]
    BY <1>14, <2>1 DEF SweepGCRoots, TypeOK
  <2>3. QED
    BY <1>14, <2>2, QuietExact DEF SweepGCRoots, Sweep, Idle, TypeOK
<1>15. ASSUME NEW k \in Keys, NEW name \in Keys, Commit(k, name)
       PROVE  ExactInv'
  BY <1>15, CommitExact
<1>16. ASSUME NEW k \in Keys, NEW layer \in Layers, Update(k, layer)
       PROVE  FALSE
  BY <1>16 DEF Update
<1>17. ASSUME NEW p \in Procs, Cancel(p)
       PROVE  FALSE
  BY <1>17 DEF Cancel
<1>18. CASE Crash
  BY <1>18 DEF Crash
<1>19. CASE TornCreate
  BY <1>19 DEF TornCreate
<1>20. ASSUME NEW path \in Paths, NixGC(path)
       PROVE  ExactInv'
  BY <1>20, CallsExact DEF NixGC, ExactInv
<1>21. CASE UNCHANGED vars
  BY <1>21, CallsExact DEF vars, ExactInv
<1>22. QED
  BY <1>1, <1>2, <1>3, <1>4, <1>5, <1>6, <1>7, <1>8, <1>9, <1>10, <1>11, <1>12,
     <1>13, <1>14, <1>15, <1>16, <1>17, <1>18, <1>19, <1>20, <1>21
     DEF Next, Begin, Continue, Environment

\* What the invariants say when no call is under way.
LEMMA IdleExact ==
  ASSUME TypeOK, DirsInv, HandedOut, RootsInv, TidyInv, ExactInv,
         \A p \in Procs : call[p].step = "idle", NEW i \in Ids
  PROVE  gcRoots[i] = UNION {meta[k].paths : k \in {j \in Live : meta[j].id = i}}
<1>1. \A p \in Procs : ~call[p].waiting /\ call[p].doomed = {}
  BY DEF TypeOK, Idle
<1>2. Live = acked
  BY <1>1 DEF ExactInv, RootsInv
<1>3. \A k \in Live : gcRoots[meta[k].id] = meta[k].paths
  <2> TAKE k \in Live
  <2>1. gcRoots[meta[k].id] \subseteq meta[k].paths
    BY DEF ExactInv
  <2>2. meta[k].paths \subseteq gcRoots[meta[k].id]
    BY <1>2 DEF RootsInv, AckedRooted
  <2>3. QED
    BY <2>1, <2>2
<1>4. CASE i \in LiveIds
  <2>1. PICK k \in Live : meta[k].id = i
    BY <1>4 DEF LiveIds
  <2>2. {j \in Live : meta[j].id = i} = {k}
    BY <2>1 DEF DirsInv, HandedOut
  <2>3. QED
    BY <1>3, <2>1, <2>2
<1>5. CASE i \notin LiveIds
  <2>1. i \notin snapDirs
    BY <1>1, <1>5 DEF ExactInv
  <2>2. gcRoots[i] = {}
    BY <2>1 DEF TidyInv, NoLeakedRoots
  <2>3. {j \in Live : meta[j].id = i} = {}
    BY <1>5 DEF LiveIds
  <2>4. QED
    BY <2>2, <2>3
<1>6. QED
  BY <1>4, <1>5

\* When no call is under way, the GC roots are exactly those of the recorded
\* snapshots, for any number of calls that overlapped before, if nothing goes
\* wrong (snapshotter.go:98-295).
THEOREM RootsAreExact ==
  ASSUME Faults = {}
  PROVE  Spec => []RootsExact
<1>1. Orderly /\ "tornCreate" \notin Faults /\ "commitFails" \notin Faults
  BY DEF Orderly
<1>2. Spec => []DirsInv /\ []HandedOut
  BY <1>1, DirsAlways, HandedOutAlways
<1>3. Init => RootsInv /\ TidyInv /\ ExactInv
  BY DEF Init, RootsInv, AckedRooted, TidyInv, NoLeakedRoots, ExactInv,
         Live, Absent, Idle
<1>4. TypeOK /\ DirsInv /\ RootsInv /\ [Next]_vars => RootsInv'
  BY RootsStep
<1>5. TypeOK /\ DirsInv /\ HandedOut /\ TidyInv /\ [Next]_vars => TidyInv'
  BY TidyStep
<1>6. TypeOK /\ DirsInv /\ HandedOut /\ RootsInv /\ TidyInv /\ ExactInv /\ [Next]_vars
        => ExactInv'
  BY ExactStep
<1>7. TypeOK /\ DirsInv /\ HandedOut /\ RootsInv /\ TidyInv /\ ExactInv => RootsExact
  BY IdleExact DEF RootsExact
<1>8. QED
  BY <1>2, <1>3, <1>4, <1>5, <1>6, <1>7, TypeCorrect, PTL DEF Spec
=============================================================================
