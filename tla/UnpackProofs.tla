---------------------------- MODULE UnpackProofs ----------------------------
(***************************************************************************)
(* Proofs about Unpack, for any number of images, containers and clients:  *)
(* that what containerd does with the snapshotter is what Snapshotter      *)
(* allows, so that its theorems hold here, and that a container gets the   *)
(* closure of its own image.                                               *)
(***************************************************************************)
EXTENDS Unpack, PinnedStoreProofs

-----------------------------------------------------------------------------
(* Images                                                                  *)

\* The layers of an image are those of its base, and the nix layer.
LEMMA ImageParts ==
  ASSUME NEW r \in Requests
  PROVE  LET bases == [i \in 1..Len(r.base) |-> [diff |-> r.base[i], labels |-> Plain]]
         IN  /\ r.base \in Seq(BaseDiffs)
             /\ bases \in Seq([diff : BaseDiffs, labels : {Plain}])
             /\ Len(bases) = Len(r.base)
<1>1. r.base \in Seq(BaseDiffs)
  BY RequestsAssumption
<1>2. QED
  BY <1>1

LEMMA ImageLen ==
  ASSUME NEW r \in Requests
  PROVE  Len(r.base) \in Nat /\ Len(Image(r)) = Len(r.base) + 1
BY ImageParts DEF Image

LEMMA BaseLayer ==
  ASSUME NEW r \in Requests, NEW i \in 1..Len(r.base)
  PROVE  Diff(r, i) \in BaseDiffs /\ Labels(r, i) = Plain
BY ImageParts DEF Image, Diff, Labels

LEMMA NixLayer ==
  ASSUME NEW r \in Requests
  PROVE  /\ Diff(r, Len(Image(r))) = ClosureDiff(r)
         /\ Labels(r, Len(Image(r))) = [nix |-> TRUE, paths |-> r.paths]
<1> DEFINE nix == [diff |-> ClosureDiff(r), labels |-> [nix |-> TRUE, paths |-> r.paths]]
           bases == [i \in 1..Len(r.base) |-> [diff |-> r.base[i], labels |-> Plain]]
<1>1. Image(r) = bases \o <<nix>> /\ Len(bases) = Len(r.base) /\ Len(r.base) \in Nat
  BY ImageParts, ImageLen DEF Image
<1>2. Len(Image(r)) = Len(r.base) + 1
  BY ImageLen
<1>3. bases \in Seq([diff : BaseDiffs, labels : {Plain}])
  BY ImageParts
<1>4. Image(r)[Len(Image(r))] = nix
  <2> HIDE DEF bases, nix
  <2>1. QED
    BY <1>1, <1>2, <1>3
<1>5. QED
  BY <1>4 DEF Diff, Labels

\* Numbers are positive, and that of the nix layer is the last.
LEMMA NumberType ==
  ASSUME NEW r \in Requests
  PROVE  /\ \A n \in Numbers(r) : n \in Nat \ {0}
         /\ \A n \in Numbers(r) : n # Len(Image(r)) =>
              n \in 1..Len(r.base) /\ n + 1 \in Numbers(r)
         /\ \A n \in Numbers(r) : n # 1 => n - 1 \in Numbers(r)
         /\ 1 \in Numbers(r) /\ Len(Image(r)) \in Numbers(r)
<1>1. Len(r.base) \in Nat /\ Len(Image(r)) = Len(r.base) + 1
  BY ImageLen
<1>2. QED
  BY <1>1 DEF Numbers

\* Only the last layer is not one of the base.
LEMMA BaseOf ==
  ASSUME NEW r \in Requests, NEW n \in Numbers(r), n # Len(Image(r))
  PROVE  Diff(r, n) \in BaseDiffs /\ Labels(r, n) = Plain
<1>1. n \in 1..Len(r.base)
  BY NumberType
<1>2. QED
  BY <1>1, BaseLayer

\* Only the nix layer of an image has paths, those of the image.
LEMMA LayerPaths ==
  ASSUME NEW r \in Requests, NEW n \in Numbers(r)
  PROVE  Labels(r, n).paths = IF n = Len(Image(r)) THEN r.paths ELSE {}
<1>1. CASE n = Len(Image(r))
  <2>1. Labels(r, n) = [nix |-> TRUE, paths |-> r.paths]
    BY <1>1, NixLayer
  <2>2. QED
    BY <1>1, <2>1
<1>2. CASE n # Len(Image(r))
  <2>1. Labels(r, n) = Plain
    BY <1>2, BaseOf
  <2>2. QED
    BY <1>2, <2>1 DEF Plain
<1>3. QED
  BY <1>1, <1>2

\* The tar of a layer determines its labels.
LEMMA DiffLabels ==
  ASSUME NEW r \in Requests, NEW s \in Requests,
         NEW n \in Numbers(r), NEW m \in Numbers(s),
         Diff(r, n) = Diff(s, m)
  PROVE  Labels(r, n) = Labels(s, m)
<1>1. CASE n = Len(Image(r)) /\ m = Len(Image(s))
  <2>1. ClosureDiff(r) = ClosureDiff(s)
    BY <1>1, NixLayer
  <2>2. r.paths = s.paths
    BY <2>1 DEF ClosureDiff
  <2>3. QED
    BY <1>1, <2>2, NixLayer
<1>2. CASE n = Len(Image(r)) /\ m # Len(Image(s))
  BY <1>2, BaseOf, NixLayer, DiffsAssumption
<1>3. CASE n # Len(Image(r)) /\ m = Len(Image(s))
  BY <1>3, BaseOf, NixLayer, DiffsAssumption
<1>4. CASE n # Len(Image(r)) /\ m # Len(Image(s))
  BY <1>4, BaseOf
<1>5. QED
  BY <1>1, <1>2, <1>3, <1>4

\* A chain ID determines its last layer and the chain ID below.
LEMMA ChainLayers ==
  ASSUME NEW r \in Requests, NEW s \in Requests,
         NEW n \in Numbers(r), NEW m \in Numbers(s),
         Chain(r, n) = Chain(s, m)
  PROVE  /\ n = m /\ Chain(r, n - 1) = Chain(s, m - 1)
         /\ Labels(r, n) = Labels(s, m)
<1>1. n \in Nat \ {0} /\ m \in Nat \ {0}
  BY NumberType
<1>2. [i \in 1..n |-> Diff(r, i)] = [i \in 1..m |-> Diff(s, i)]
  BY <1>1 DEF Chain
<1>3. 1..n = 1..m
  BY <1>2
<1>4. n = m
  BY <1>1, <1>3
<1>5. \A i \in 1..n : Diff(r, i) = Diff(s, i)
  BY <1>2, <1>4
<1>6. Chain(r, n - 1) = Chain(s, m - 1)
  BY <1>1, <1>4, <1>5 DEF Chain
<1>7. QED
  BY <1>1, <1>4, <1>5, <1>6, DiffLabels

\* Chain IDs are keys, and the one of no layers is the empty key.
LEMMA ChainKeys ==
  ASSUME NEW r \in Requests, NEW n \in Numbers(r)
  PROVE  /\ Chain(r, n) \in Keys \ (Procs \cup Containers)
         /\ Chain(r, n - 1) \in (Keys \ (Procs \cup Containers)) \cup {NoKey}
         /\ Labels(r, n) \in Layers
<1>1. CASE n = 1
  <2>1. Chain(r, n - 1) = NoKey
    BY <1>1 DEF Chain
  <2>2. QED
    BY <2>1, NamesAssumption
<1>2. CASE n # 1
  <2>1. n - 1 \in Numbers(r)
    BY <1>2, NumberType
  <2>2. QED
    BY <2>1, NamesAssumption
<1>3. QED
  BY <1>1, <1>2

\* The whole image is a chain of its own.
LEMMA TopChain ==
  ASSUME NEW r \in Requests
  PROVE  /\ Len(Image(r)) \in Numbers(r) /\ Top(r) = Chain(r, Len(Image(r)))
         /\ Top(r) \in Keys \ (Procs \cup Containers)
<1>1. Len(Image(r)) \in Numbers(r)
  BY NumberType
<1>2. QED
  BY <1>1, NamesAssumption DEF Top

-----------------------------------------------------------------------------
(* Composition                                                             *)

\* A call that goes on touches its own record, and the notes of the client
\* about its own key.
LEMMA ContinueEffect ==
  ASSUME TypeOK, NEW p \in Procs, Continue(p)
  PROVE  /\ UNCHANGED meta
         /\ \A q \in Procs \ {p} : call'[q] = call[q]
         /\ call'[p].waiting => call[p].waiting /\ call'[p].key = call[p].key
         /\ acked \subseteq acked'
         /\ \A k \in Keys : mounted'[k] = mounted[k] \/
                             (call[p].waiting /\ call[p].key = k)
<1>1. CASE Reclaim(p)
  BY <1>1 DEF Reclaim, TypeOK, Idle
<1>2. CASE OpenGCRoots(p)
  BY <1>2 DEF OpenGCRoots, Return, TypeOK, Call, Idle
<1>3. ASSUME NEW path \in Paths, BuildGCRoot(p, path)
      PROVE  /\ UNCHANGED <<meta, acked, mounted>>
             /\ \A q \in Procs \ {p} : call'[q] = call[q]
             /\ call'[p].waiting = call[p].waiting /\ call'[p].key = call[p].key
  BY <1>3 DEF BuildGCRoot, TypeOK, Call
<1>4. CASE BuildGCRootFails(p)
  BY <1>4 DEF BuildGCRootFails, Return, TypeOK, Idle
<1>5. CASE FinishGCRoots(p)
  BY <1>5 DEF FinishGCRoots, Return, TypeOK, Idle
<1>6. CASE WithNixBindMounts(p)
  BY <1>6 DEF WithNixBindMounts, Return, TypeOK, Idle
<1>7. ASSUME NEW d \in Ids, SweepDir(p, d)
      PROVE  /\ UNCHANGED <<meta, acked, mounted>>
             /\ \A q \in Procs \ {p} : call'[q] = call[q]
             /\ call'[p].waiting = call[p].waiting /\ call'[p].key = call[p].key
  BY <1>7 DEF SweepDir, TypeOK, Call
<1>8. CASE SweepGCRoots(p)
  BY <1>8 DEF SweepGCRoots, Sweep, TypeOK, Idle
<1>9. QED
  BY <1>1, <1>2, <1>3, <1>4, <1>5, <1>6, <1>7, <1>8 DEF Continue

\* A request makes its snapshot and has the client wait for it.
LEMMA PrepareEffect ==
  ASSUME TypeOK, NEW p \in Procs, NEW k \in Keys, NEW parent, NEW layer,
         Prepare(p, k, parent, layer)
  PROVE  /\ k \notin Live /\ call[p].step = "idle"
         /\ parent = NoKey \/ (parent \in Live /\ meta[parent].kind = "committed")
         /\ \A j \in Keys \ {k} : meta'[j] = meta[j]
         /\ meta'[k].kind = "active" /\ meta'[k].parent = parent
         /\ meta'[k].paths = layer.paths
         /\ \A q \in Procs \ {p} : call'[q] = call[q]
         /\ call'[p].waiting /\ call'[p].key = k
         /\ call'[p].step = IF layer.nix THEN "gcRoots" ELSE "mounts"
         /\ UNCHANGED <<acked, mounted>>
BY DEF Prepare, Create, CanCreate, Request, TypeOK

\* Remove takes one key away and leaves a sweep for which nobody waits.
LEMMA RemoveEffect ==
  ASSUME TypeOK, NEW p \in Procs, NEW k \in Keys, Remove(p, k)
  PROVE  /\ k \in Live /\ call[p].step = "idle"
         /\ \A j \in Live : meta[j].parent # k
         /\ \A j \in Keys \ {k} : meta'[j] = meta[j] /\ mounted'[j] = mounted[j]
         /\ meta'[k] = Absent /\ acked' = acked \ {k}
         /\ \A q \in Procs \ {p} : call'[q] = call[q]
         /\ ~call'[p].waiting
BY DEF Remove, Sweep, Idle, TypeOK

\* What a step may not do to client q: it leaves its records alone.
LEMMA ClientFrame ==
  ASSUME NEW q \in Procs, ClientOK(q), client'[q] = client[q],
         client[q].step \in {"idle", "stat", "prepare"} => ~call'[q].waiting,
         client[q].step = "apply" =>
           meta'[q] = meta[q] /\ (call'[q].waiting => call'[q].key = q),
         client[q].step \in {"start", "recover"} =>
           call'[q] = call[q] /\ image'[client[q].key] # NoImage
  PROVE  ClientOK(q)'
BY DEF ClientOK

\* The records of clients.
Works == [step : ClientSteps, image : Requests \cup {NoImage}, n : Nat,
          key : Keys \cup {NoKey}]

\* A client that goes to the next layer, or has unpacked the last.
LEMMA NextLayerOK ==
  ASSUME UnpackTypeOK, ClientInv, NEW p \in Procs,
         client[p].step \in {"stat", "apply"}, NextLayer(p), ~call'[p].waiting
  PROVE  /\ client' \in [Procs -> Works] /\ ClientOK(p)'
         /\ \A q \in Procs \ {p} : client'[q] = client[q]
<1> DEFINE w == client[p]
<1>1. w \in Works /\ w.image \in Requests /\ w.n \in Numbers(w.image)
  BY DEF UnpackTypeOK, Works, ClientInv, ClientOK
<1>2. NoWork \in Works
  BY DEF NoWork, Works, ClientSteps
<1>3. CASE w.n = Len(Image(w.image))
  <2>1. client' = [client EXCEPT ![p] = NoWork]
    BY <1>3 DEF NextLayer
  <2>2. QED
    BY <1>2, <2>1 DEF UnpackTypeOK, Works, ClientOK, NoWork
<1>4. CASE w.n # Len(Image(w.image))
  <2> DEFINE v == [step |-> "stat", image |-> w.image, n |-> w.n + 1, key |-> NoKey]
  <2>1. client' = [client EXCEPT ![p] = v]
    BY <1>4 DEF NextLayer
  <2>2. w.n + 1 \in Numbers(w.image) /\ w.n \in Nat
    BY <1>1, <1>4, NumberType
  <2>3. v \in Works /\ v.step = "stat" /\ v.image = w.image /\ v.n = w.n + 1
    <3> HIDE DEF w
    <3>1. QED
      BY <1>1, <2>2 DEF Works, ClientSteps
  <2>4. client'[p] = v /\ client' \in [Procs -> Works]
    BY <2>1, <2>3 DEF UnpackTypeOK, Works
  <2>5. ClientOK(p)'
    <3> HIDE DEF v
    <3>1. QED
      BY <1>1, <2>2, <2>3, <2>4 DEF ClientOK
  <2>6. QED
    BY <2>1, <2>4, <2>5 DEF UnpackTypeOK
<1>5. QED
  BY <1>3, <1>4

\* A client that starts on work w.
LEMMA MoveOK ==
  ASSUME UnpackTypeOK, NEW p \in Procs, NEW w \in Works,
         client' = [client EXCEPT ![p] = w]
  PROVE  /\ client' \in [Procs -> Works] /\ client'[p] = w
         /\ \A q \in Procs \ {p} : client'[q] = client[q]
BY DEF UnpackTypeOK, Works

\* Every step of the composition keeps ClientInv, and is one of Snapshotter.
ClientGoal == UnpackTypeOK' /\ ClientInv' /\ [Next]_vars

\* It is enough to look at the client that takes the step, and at what the
\* step does to the others.
LEMMA ClientGoalOf ==
  ASSUME TypeOK, UnpackTypeOK, ClientInv, [Next]_vars, NEW p \in Procs,
         client' \in [Procs -> Works], ClientOK(p)',
         image' \in [Containers -> Requests \cup {NoImage}],
         given' = [c \in Containers |-> given'[c]],
         \A c \in Containers : image'[c] = NoImage => meta'[c].kind = "absent",
         \A q \in Procs \ {p} :
           /\ client'[q] = client[q] /\ call'[q] = call[q]
           /\ client[q].step = "apply" => meta'[q] = meta[q]
           /\ client[q].step \in {"start", "recover"} => image'[client[q].key] # NoImage
  PROVE  ClientGoal
<1>1. \A q \in Procs \ {p} : ClientOK(q)'
  <2> TAKE q \in Procs \ {p}
  <2>1. ClientOK(q)
    BY DEF ClientInv
  <2>2. client[q].step \in {"idle", "stat", "prepare"} => ~call'[q].waiting
    BY <2>1 DEF ClientOK
  <2>3. client[q].step = "apply" => (call'[q].waiting => call'[q].key = q)
    BY <2>1 DEF ClientOK
  <2>4. QED
    BY <2>1, <2>2, <2>3, ClientFrame
<1>2. ClientInv'
  BY <1>1 DEF ClientInv
<1>3. UnpackTypeOK'
  BY DEF UnpackTypeOK, Works
<1>4. QED
  BY <1>2, <1>3 DEF ClientGoal

LEMMA ClientStep ==
  TypeOK /\ UnpackTypeOK /\ ClientInv /\ [UnpackNext]_allVars => ClientGoal
<1> SUFFICES ASSUME TypeOK, UnpackTypeOK, ClientInv, [UnpackNext]_allVars
             PROVE  ClientGoal
  OBVIOUS
<1>0. /\ \A q \in Procs : client[q] \in Works /\ ClientOK(q) /\ q \in Keys
      /\ image \in [Containers -> Requests \cup {NoImage}]
      /\ given = [c \in Containers |-> given[c]]
      /\ \A c \in Containers : c \in Keys /\ c \notin Procs
      /\ \A c \in Containers : image[c] = NoImage => meta[c].kind = "absent"
      /\ \A q \in Procs : call[q].step = "idle" => ~call[q].waiting
      /\ \A q \in Procs : client[q].step \in {"start", "recover"} =>
           image[client[q].key] # NoImage
  BY NamesAssumption DEF UnpackTypeOK, Works, ClientInv, ClientOK, TypeOK, Idle
<1>1. ASSUME NEW p \in Procs, NEW r \in Requests, Pull(p, r)
      PROVE  ClientGoal
  <2> DEFINE w == [step |-> "stat", image |-> r, n |-> 1, key |-> NoKey]
  <2>1. /\ client[p].step = "idle" /\ client' = [client EXCEPT ![p] = w]
        /\ UNCHANGED <<vars, image, given>>
    BY <1>1 DEF Pull, Ready
  <2>2. w \in Works /\ 1 \in Numbers(r)
    BY NumberType DEF Works, ClientSteps
  <2>3. /\ client' \in [Procs -> Works] /\ client'[p] = w
        /\ \A q \in Procs \ {p} : client'[q] = client[q]
    BY <2>1, <2>2, MoveOK
  <2>4. ~call'[p].waiting
    BY <1>0, <2>1 DEF ClientOK, vars
  <2>5. ClientOK(p)'
    BY <2>2, <2>3, <2>4 DEF ClientOK
  <2>6. QED
    BY <1>0, <2>1, <2>3, <2>5, ClientGoalOf DEF vars
<1>2. ASSUME NEW p \in Procs, Stat(p)
      PROVE  ClientGoal
  <2>1. client[p].step = "stat" /\ UNCHANGED <<vars, image, given>>
    BY <1>2 DEF Stat, Ready
  <2>2. ~call'[p].waiting /\ ~call[p].waiting
    BY <1>0, <2>1 DEF ClientOK, vars
  <2>3. CASE NextLayer(p)
    <3>1. /\ client' \in [Procs -> Works] /\ ClientOK(p)'
          /\ \A q \in Procs \ {p} : client'[q] = client[q]
      BY <2>1, <2>2, <2>3, NextLayerOK
    <3>2. QED
      BY <1>0, <2>1, <3>1, ClientGoalOf DEF vars
  <2>4. CASE client' = [client EXCEPT ![p].step = "prepare"]
    <3>1. /\ client' \in [Procs -> Works]
          /\ \A q \in Procs \ {p} : client'[q] = client[q]
          /\ client'[p].step = "prepare" /\ client'[p].image = client[p].image
          /\ client'[p].n = client[p].n
      BY <2>4 DEF UnpackTypeOK, Works, ClientSteps
    <3>2. ClientOK(p)'
      BY <1>0, <2>1, <2>2, <3>1 DEF ClientOK
    <3>3. QED
      BY <1>0, <2>1, <3>1, <3>2, ClientGoalOf DEF vars
  <2>5. QED
    BY <1>2, <2>3, <2>4 DEF Stat
<1>3. ASSUME NEW p \in Procs, PrepareLayer(p)
      PROVE  ClientGoal
  <2> DEFINE r == client[p].image
             n == client[p].n
  <2>1. /\ client[p].step = "prepare"
        /\ Prepare(p, p, Chain(r, n - 1), Labels(r, n))
        /\ client' = [client EXCEPT ![p].step = "apply"] /\ UNCHANGED <<image, given>>
    BY <1>3 DEF PrepareLayer, Ready
  <2>2. r \in Requests /\ n \in Numbers(r) /\ p \in Keys
    BY <1>0, <2>1 DEF ClientOK
  <2>3. Chain(r, n - 1) \in Keys \cup {NoKey} /\ Labels(r, n) \in Layers
    BY <2>2, ChainKeys
  <2>4. [Next]_vars
    BY <2>1, <2>2, <2>3 DEF Next, Begin
  <2>5. /\ client' \in [Procs -> Works]
        /\ \A q \in Procs \ {p} : client'[q] = client[q]
        /\ client'[p].step = "apply" /\ client'[p].image = r /\ client'[p].n = n
    BY <2>1 DEF UnpackTypeOK, Works, ClientSteps
  <2>6. /\ \A j \in Keys \ {p} : meta'[j] = meta[j]
        /\ meta'[p].kind = "active" /\ meta'[p].parent = Chain(r, n - 1)
        /\ meta'[p].paths = Labels(r, n).paths
        /\ \A q \in Procs \ {p} : call'[q] = call[q]
        /\ call'[p].key = p
    BY <2>1, <2>2, PrepareEffect
  <2>7. ClientOK(p)'
    BY <2>2, <2>5, <2>6 DEF ClientOK
  <2>8. QED
    BY <1>0, <2>1, <2>4, <2>5, <2>6, <2>7, ClientGoalOf
<1>4. ASSUME NEW p \in Procs, CommitLayer(p)
      PROVE  ClientGoal
  <2> DEFINE name == Chain(client[p].image, client[p].n)
  <2>1. /\ client[p].step = "apply" /\ call[p].step = "idle"
        /\ Commit(p, name) /\ NextLayer(p) /\ UNCHANGED <<image, given>>
    BY <1>4 DEF CommitLayer, Ready
  <2>2. name \in Keys \ (Procs \cup Containers)
    BY <1>0, <2>1, ChainKeys DEF ClientOK
  <2>3. [Next]_vars
    BY <1>0, <2>1, <2>2 DEF Next, Environment
  <2>4. UNCHANGED call /\ \A j \in Keys \ {p, name} : meta'[j] = meta[j]
    <3> HIDE DEF name
    <3>1. \A j \in Keys \ {p, name} : meta'[j] = meta[j]
      BY <1>0, <2>1, <2>2, CommitRecords
    <3>2. QED
      BY <2>1, <3>1 DEF Commit
  <2>5. /\ client' \in [Procs -> Works] /\ ClientOK(p)'
        /\ \A q \in Procs \ {p} : client'[q] = client[q]
    BY <1>0, <2>1, <2>4, NextLayerOK
  <2>6. QED
    BY <1>0, <2>1, <2>2, <2>3, <2>4, <2>5, ClientGoalOf
<1>5. ASSUME NEW p \in Procs, AlreadyExists(p)
      PROVE  ClientGoal
  <2>1. /\ client[p].step = "apply" /\ Remove(p, p) /\ NextLayer(p)
        /\ UNCHANGED <<image, given>>
    BY <1>5 DEF AlreadyExists, Ready
  <2>2. [Next]_vars
    BY <1>0, <2>1 DEF Next, Begin
  <2>3. /\ \A j \in Keys \ {p} : meta'[j] = meta[j]
        /\ \A q \in Procs \ {p} : call'[q] = call[q]
        /\ ~call'[p].waiting
    BY <1>0, <2>1, RemoveEffect
  <2>4. /\ client' \in [Procs -> Works] /\ ClientOK(p)'
        /\ \A q \in Procs \ {p} : client'[q] = client[q]
    BY <2>1, <2>3, NextLayerOK
  <2>5. QED
    BY <1>0, <2>1, <2>2, <2>3, <2>4, ClientGoalOf
<1>6. ASSUME NEW p \in Procs, Abort(p)
      PROVE  ClientGoal
  <2>1. /\ client' = [client EXCEPT ![p] = NoWork] /\ UNCHANGED <<image, given>>
        /\ \/ Remove(p, p)
           \/ UNCHANGED vars /\ call[p].step = "idle"
    BY <1>6 DEF Abort, Ready
  <2>2. NoWork \in Works
    BY DEF NoWork, Works, ClientSteps
  <2>3. /\ client' \in [Procs -> Works] /\ client'[p] = NoWork
        /\ \A q \in Procs \ {p} : client'[q] = client[q]
    BY <2>1, <2>2, MoveOK
  <2>4. /\ \A j \in Keys \ {p} : meta'[j] = meta[j]
        /\ \A q \in Procs \ {p} : call'[q] = call[q]
        /\ ~call'[p].waiting /\ [Next]_vars
    <3>1. CASE Remove(p, p)
      BY <1>0, <3>1, RemoveEffect DEF Next, Begin
    <3>2. CASE UNCHANGED vars /\ call[p].step = "idle"
      BY <1>0, <3>2 DEF vars
    <3>3. QED
      BY <2>1, <3>1, <3>2
  <2>5. ClientOK(p)'
    BY <2>3, <2>4 DEF ClientOK, NoWork
  <2>6. QED
    BY <1>0, <2>1, <2>3, <2>4, <2>5, ClientGoalOf
<1>7. ASSUME NEW p \in Procs, NEW c \in Containers, NEW r \in Requests, Start(p, c, r)
      PROVE  ClientGoal
  <2>1. /\ client[p].step = "idle" /\ Prepare(p, c, Top(r), Plain)
        /\ client' = [client EXCEPT ![p].step = "start", ![p].key = c]
        /\ image' = [image EXCEPT ![c] = r] /\ UNCHANGED given
    BY <1>7 DEF Start, Ready
  <2>2. /\ c \in Keys /\ c \notin Procs /\ Top(r) \in Keys /\ Plain \in Layers
        /\ ~Plain.nix /\ r # NoImage
    BY NamesAssumption, RequestsAssumption, TopChain DEF Plain
  <2>3. [Next]_vars
    BY <2>1, <2>2 DEF Next, Begin
  <2>4. /\ client' \in [Procs -> Works]
        /\ \A q \in Procs \ {p} : client'[q] = client[q]
        /\ client'[p].step = "start" /\ client'[p].key = c
    BY <2>1, <2>2 DEF UnpackTypeOK, Works, ClientSteps
  <2>5. /\ \A j \in Keys \ {c} : meta'[j] = meta[j]
        /\ \A q \in Procs \ {p} : call'[q] = call[q]
        /\ call'[p].waiting /\ call'[p].key = c /\ call'[p].step = "mounts"
    BY <2>1, <2>2, PrepareEffect
  <2>6. /\ image' \in [Containers -> Requests \cup {NoImage}] /\ image'[c] = r
        /\ \A d \in Containers \ {c} : image'[d] = image[d]
    BY <1>0, <2>1
  <2>7. ClientOK(p)'
    BY <2>2, <2>4, <2>5, <2>6 DEF ClientOK
  <2>8. \A q \in Procs : client[q].step \in {"start", "recover"} =>
          image'[client[q].key] # NoImage
    BY <1>0, <2>2, <2>6 DEF ClientOK
  <2>9. QED
    BY <1>0, <2>1, <2>2, <2>3, <2>4, <2>5, <2>6, <2>7, <2>8, ClientGoalOf
<1>8. ASSUME NEW p \in Procs, NEW c \in Containers, Recover(p, c)
      PROVE  ClientGoal
  <2>1. /\ client[p].step = "idle" /\ Mounts(p, c)
        /\ client' = [client EXCEPT ![p].step = "recover", ![p].key = c]
        /\ UNCHANGED <<image, given>>
    BY <1>8 DEF Recover, Ready
  <2>2. [Next]_vars
    BY <1>0, <2>1 DEF Next, Begin
  <2>3. /\ client' \in [Procs -> Works]
        /\ \A q \in Procs \ {p} : client'[q] = client[q]
        /\ client'[p].step = "recover" /\ client'[p].key = c
    BY <1>0, <2>1 DEF UnpackTypeOK, Works, ClientSteps
  <2>4. /\ \A q \in Procs \ {p} : call'[q] = call[q]
        /\ call'[p].waiting /\ call'[p].key = c /\ call'[p].step = "mounts"
        /\ UNCHANGED meta /\ c \in Live
    BY <2>1 DEF Mounts, Request, TypeOK
  <2>5. image'[c] # NoImage
    BY <1>0, <2>1, <2>4 DEF Live
  <2>6. ClientOK(p)'
    BY <2>3, <2>4, <2>5 DEF ClientOK
  <2>7. QED
    BY <1>0, <2>1, <2>2, <2>3, <2>4, <2>6, ClientGoalOf
<1>9. ASSUME NEW p \in Procs, NEW c \in Containers, Stop(p, c)
      PROVE  ClientGoal
  <2>1. /\ client[p].step = "idle" /\ \A q \in Procs : client[q].key # c
        /\ Remove(p, c) /\ image' = [image EXCEPT ![c] = NoImage]
        /\ given' = [given EXCEPT ![c] = NoMounts] /\ UNCHANGED client
    BY <1>9 DEF Stop, Ready
  <2>2. [Next]_vars
    BY <1>0, <2>1 DEF Next, Begin
  <2>3. /\ \A j \in Keys \ {c} : meta'[j] = meta[j]
        /\ meta'[c].kind = "absent"
        /\ \A q \in Procs \ {p} : call'[q] = call[q]
        /\ ~call'[p].waiting
    BY <1>0, <2>1, RemoveEffect DEF Absent
  <2>4. /\ image' \in [Containers -> Requests \cup {NoImage}]
        /\ \A d \in Containers \ {c} : image'[d] = image[d]
        /\ given' = [d \in Containers |-> given'[d]]
    BY <1>0, <2>1
  <2>5. \A d \in Containers : image'[d] = NoImage => meta'[d].kind = "absent"
    BY <1>0, <2>3, <2>4
  <2>6. \A q \in Procs : client[q].step \in {"start", "recover"} =>
          image'[client[q].key] # NoImage
    BY <1>0, <2>1, <2>4 DEF ClientOK
  <2>7. client' \in [Procs -> Works]
    BY <2>1 DEF UnpackTypeOK, Works
  <2>8. ClientOK(p)'
    BY <2>1, <2>3 DEF ClientOK
  <2>9. QED
    BY <1>0, <2>1, <2>2, <2>3, <2>4, <2>5, <2>6, <2>7, <2>8, ClientGoalOf
<1>10. ASSUME NEW p \in Procs, GiveMounts(p)
       PROVE  ClientGoal
  <2>1. /\ WithNixBindMounts(p) /\ client' = [client EXCEPT ![p] = NoWork]
        /\ \E list : given' = [given EXCEPT ![client[p].key] = list]
        /\ UNCHANGED image
    BY <1>10 DEF GiveMounts
  <2>2. Continue(p)
    BY <2>1 DEF Continue
  <2>3. [Next]_vars
    BY <2>2 DEF Next
  <2>4. UNCHANGED meta /\ \A q \in Procs \ {p} : call'[q] = call[q]
    BY <2>2, ContinueEffect
  <2>5. ~call'[p].waiting
    BY <2>1 DEF WithNixBindMounts, Return, TypeOK, Idle
  <2>6. NoWork \in Works
    BY DEF NoWork, Works, ClientSteps
  <2>7. /\ client' \in [Procs -> Works] /\ client'[p] = NoWork
        /\ \A q \in Procs \ {p} : client'[q] = client[q]
    BY <2>1, <2>6, MoveOK
  <2>8. ClientOK(p)'
    BY <2>5, <2>7 DEF ClientOK, NoWork
  <2>9. given' = [c \in Containers |-> given'[c]]
    BY <1>0, <2>1
  <2>10. QED
    BY <1>0, <2>1, <2>3, <2>4, <2>7, <2>8, <2>9, ClientGoalOf
<1>11. ASSUME NEW p \in Procs, NEW k \in Keys, Evict(p, k)
       PROVE  ClientGoal
  <2>1. /\ client[p].step = "idle" /\ meta[k].kind = "committed"
        /\ Remove(p, k) /\ UNCHANGED <<client, image, given>>
    BY <1>11 DEF Evict, Ready, clientVars
  <2>2. [Next]_vars
    BY <2>1 DEF Next, Begin
  <2>3. /\ \A j \in Keys \ {k} : meta'[j] = meta[j]
        /\ meta'[k].kind = "absent"
        /\ \A q \in Procs \ {p} : call'[q] = call[q]
        /\ ~call'[p].waiting
    BY <2>1, RemoveEffect DEF Absent
  <2>4. \A q \in Procs : client[q].step = "apply" => meta'[q] = meta[q]
    BY <1>0, <2>1, <2>3 DEF ClientOK
  <2>5. \A c \in Containers : image'[c] = NoImage => meta'[c].kind = "absent"
    BY <1>0, <2>1, <2>3
  <2>6. client' \in [Procs -> Works] /\ ClientOK(p)'
    BY <2>1, <2>3 DEF UnpackTypeOK, Works, ClientOK
  <2>7. QED
    BY <1>0, <2>1, <2>2, <2>3, <2>4, <2>5, <2>6, ClientGoalOf
<1>12. ASSUME NEW p \in Procs, Clean(p)
       PROVE  ClientGoal
  <2>1. /\ client[p].step = "idle" /\ Cleanup(p) /\ UNCHANGED <<client, image, given>>
    BY <1>12 DEF Clean, Ready, clientVars
  <2>2. [Next]_vars
    BY <2>1 DEF Next, Begin
  <2>3. /\ UNCHANGED meta /\ \A q \in Procs \ {p} : call'[q] = call[q]
        /\ ~call'[p].waiting
    BY <2>1 DEF Cleanup, Sweep, Idle, TypeOK
  <2>4. client' \in [Procs -> Works] /\ ClientOK(p)'
    BY <2>1, <2>3 DEF UnpackTypeOK, Works, ClientOK
  <2>5. QED
    BY <1>0, <2>1, <2>2, <2>3, <2>4, ClientGoalOf
<1>13. ASSUME NEW p \in Procs, Serve(p)
       PROVE  ClientGoal
  <2>1. /\ call[p].step # "mounts" \/ client[p].step = "apply"
        /\ Continue(p) /\ UNCHANGED <<client, image, given>>
    BY <1>13 DEF Serve, clientVars
  <2>2. [Next]_vars
    BY <2>1 DEF Next
  <2>3. /\ UNCHANGED meta /\ \A q \in Procs \ {p} : call'[q] = call[q]
        /\ call'[p].waiting => call[p].waiting /\ call'[p].key = call[p].key
    BY <2>1, ContinueEffect
  <2>4. client[p].step \notin {"start", "recover"}
    BY <1>0, <2>1 DEF ClientOK
  <2>5. client' \in [Procs -> Works] /\ ClientOK(p)'
    BY <1>0, <2>1, <2>3, <2>4 DEF UnpackTypeOK, Works, ClientOK
  <2>6. QED
    BY <1>0, <2>1, <2>2, <2>3, <2>5, ClientGoalOf
<1>14. ASSUME UNCHANGED <<meta, call, client, image, given>>, [Next]_vars
       PROVE  ClientGoal
  BY <1>14 DEF ClientGoal, UnpackTypeOK, ClientInv, ClientOK
<1>15. ASSUME NEW path \in Paths, NixGC(path), UNCHANGED clientVars
       PROVE  ClientGoal
  BY <1>14, <1>15 DEF NixGC, clientVars, Next, Environment
<1>16. CASE UNCHANGED allVars
  BY <1>14, <1>16 DEF allVars, vars, clientVars
<1>17. QED
  BY <1>1, <1>2, <1>3, <1>4, <1>5, <1>6, <1>7, <1>8, <1>9, <1>10, <1>11, <1>12,
     <1>13, <1>15, <1>16 DEF UnpackNext

\* Nobody has anything under way at first.
LEMMA UnpackStart == UnpackInit => Init /\ UnpackTypeOK /\ ClientInv
<1> SUFFICES ASSUME UnpackInit
             PROVE  Init /\ UnpackTypeOK /\ ClientInv
  OBVIOUS
<1>1. Init /\ UnpackTypeOK
  BY DEF UnpackInit, UnpackTypeOK, NoWork, ClientSteps
<1>2. ASSUME NEW p \in Procs
      PROVE  ClientOK(p)
  <2>1. client[p].step = "idle" /\ ~call[p].waiting
    BY DEF UnpackInit, Init, NoWork, Idle
  <2>2. QED
    BY <2>1 DEF ClientOK
<1>3. \A c \in Containers : meta[c].kind = "absent"
  BY NamesAssumption DEF UnpackInit, Init, Absent
<1>4. QED
  BY <1>1, <1>2, <1>3 DEF ClientInv

\* What containerd does with the snapshotter is what Snapshotter allows, so
\* that all its theorems hold here: snapshots are prepared and committed with
\* labels and parents of images, and removed when nobody needs them.
THEOREM UnpackImplements == UnpackSpec => Spec
<1>1. UnpackInit => Init /\ UnpackTypeOK /\ ClientInv
  BY UnpackStart
<1>2. Init => TypeOK
  BY InitType
<1>3. TypeOK /\ UnpackTypeOK /\ ClientInv /\ [UnpackNext]_allVars =>
        TypeOK' /\ UnpackTypeOK' /\ ClientInv' /\ [Next]_vars
  BY ClientStep, TypeStep DEF ClientGoal
<1>4. QED
  BY <1>1, <1>2, <1>3, PTL DEF UnpackSpec, Spec

\* With the conditions of RootsAreExact, GC roots are those of the layers that
\* are unpacked, whatever images the clients unpack, run, abort and collect.
THEOREM UnpackRootsExact ==
  ASSUME Faults = {}
  PROVE  UnpackSpec => []RootsExact
<1>1. Spec => []RootsExact
  BY RootsAreExact
<1>2. QED
  BY <1>1, UnpackImplements, PTL

-----------------------------------------------------------------------------
(* Snapshots                                                               *)

\* What the steps do to the records of the metadata store.
LEMMA SnapshotSteps ==
  ASSUME [UnpackNext]_allVars
  PROVE  \/ UNCHANGED meta
         \/ \E p \in Procs : PrepareLayer(p) \/ CommitLayer(p) \/ Remove(p, p)
         \/ \E p \in Procs, c \in Containers, r \in Requests : Start(p, c, r)
         \/ \E p \in Procs, c \in Containers : Remove(p, c)
         \/ \E p \in Procs, k \in Keys : Remove(p, k)
<1>1. ASSUME NEW p \in Procs
      PROVE  /\ \A r \in Requests : Pull(p, r) => UNCHANGED meta
             /\ Stat(p) \/ GiveMounts(p) \/ Clean(p) => UNCHANGED meta
             /\ AlreadyExists(p) => Remove(p, p)
             /\ Abort(p) => Remove(p, p) \/ UNCHANGED meta
             /\ \A c \in Containers : Recover(p, c) => UNCHANGED meta
             /\ \A c \in Containers : Stop(p, c) => Remove(p, c)
             /\ \A k \in Keys : Evict(p, k) => Remove(p, k)
  BY DEF Pull, Stat, GiveMounts, WithNixBindMounts, Clean, Cleanup, AlreadyExists,
         Abort, Recover, Mounts, Stop, Evict, vars
<1>2. ASSUME NEW p \in Procs, Serve(p)
      PROVE  UNCHANGED meta
  BY <1>2 DEF Serve, Continue, Reclaim, OpenGCRoots, BuildGCRoot, BuildGCRootFails,
              FinishGCRoots, WithNixBindMounts, SweepDir, SweepGCRoots
<1>3. \A path \in Paths : NixGC(path) => UNCHANGED meta
  BY DEF NixGC
<1>4. UNCHANGED allVars => UNCHANGED meta
  BY DEF allVars, vars
<1>5. QED
  BY <1>1, <1>2, <1>3, <1>4 DEF UnpackNext

\* A step that makes no record under a chain ID.
LEMMA ChainFrame ==
  ASSUME ChainInv,
         \A k \in Keys \ (Procs \cup Containers) :
           meta'[k] = meta[k] \/ meta'[k].kind = "absent"
  PROVE  ChainInv'
<1> SUFFICES ASSUME NEW r \in Requests, NEW n \in Numbers(r), Chain(r, n) \in Live'
             PROVE  /\ meta'[Chain(r, n)].kind = "committed"
                    /\ meta'[Chain(r, n)].parent = Chain(r, n - 1)
                    /\ meta'[Chain(r, n)].paths = Labels(r, n).paths
  BY DEF ChainInv
<1>1. Chain(r, n) \in Keys \ (Procs \cup Containers)
  BY ChainKeys
<1>2. meta'[Chain(r, n)] = meta[Chain(r, n)] /\ Chain(r, n) \in Live
  BY <1>1 DEF Live
<1>3. QED
  BY <1>2 DEF ChainInv

\* Only a layer of an image is committed under a chain ID, and all layers with
\* this chain ID have the same labels.
LEMMA ChainStep ==
  ASSUME TypeOK, ClientInv, ChainInv, [UnpackNext]_allVars
  PROVE  ChainInv'
<1>0. Procs \subseteq Keys /\ Containers \subseteq Keys
  BY NamesAssumption
<1>1. CASE UNCHANGED meta
  BY <1>1, ChainFrame
<1>2. ASSUME NEW p \in Procs, PrepareLayer(p)
      PROVE  ChainInv'
  <2>1. \A j \in Keys \ {p} : meta'[j] = meta[j]
    BY <1>0, <1>2, PrepareEffect DEF PrepareLayer
  <2>2. QED
    BY <2>1, ChainFrame
<1>3. ASSUME NEW p \in Procs, NEW k \in Keys, Remove(p, k)
      PROVE  ChainInv'
  <2>1. meta'[k].kind = "absent" /\ \A j \in Keys \ {k} : meta'[j] = meta[j]
    BY <1>3, RemoveEffect DEF Absent
  <2>2. QED
    BY <2>1, ChainFrame
<1>4. ASSUME NEW p \in Procs, NEW c \in Containers, NEW r \in Requests, Start(p, c, r)
      PROVE  ChainInv'
  <2>1. \A j \in Keys \ {c} : meta'[j] = meta[j]
    BY <1>0, <1>4, PrepareEffect DEF Start
  <2>2. QED
    BY <2>1, ChainFrame
<1>5. ASSUME NEW p \in Procs, CommitLayer(p)
      PROVE  ChainInv'
  <2> DEFINE s == client[p].image
             m == client[p].n
  <2>1. client[p].step = "apply" /\ Commit(p, Chain(s, m))
    BY <1>5 DEF CommitLayer, Ready
  <2>2. s \in Requests /\ m \in Numbers(s)
    BY <2>1 DEF ClientInv, ClientOK
  <2>3. meta[p].parent = Chain(s, m - 1) /\ meta[p].paths = Labels(s, m).paths
    BY <2>1 DEF ClientInv, ClientOK
  <2> DEFINE name == Chain(s, m)
  <2>4. name \in Keys \ (Procs \cup Containers)
    BY <2>2, ChainKeys
  <2> HIDE DEF s, m
  <2>5. /\ meta'[name].kind = "committed" /\ meta'[name].parent = Chain(s, m - 1)
        /\ meta'[name].paths = Labels(s, m).paths
        /\ \A j \in Keys \ {p, name} : meta'[j] = meta[j]
    <3> HIDE DEF name
    <3>1. Commit(p, name)
      BY <2>1 DEF name
    <3>2. QED
      BY <1>0, <2>3, <2>4, <3>1, CommitRecords
  <2>6. SUFFICES ASSUME NEW r \in Requests, NEW n \in Numbers(r), Chain(r, n) \in Live'
                 PROVE  /\ meta'[Chain(r, n)].kind = "committed"
                        /\ meta'[Chain(r, n)].parent = Chain(r, n - 1)
                        /\ meta'[Chain(r, n)].paths = Labels(r, n).paths
    BY DEF ChainInv
  <2>7. CASE Chain(r, n) = name
    <3>1. Chain(r, n - 1) = Chain(s, m - 1) /\ Labels(r, n) = Labels(s, m)
      BY <2>2, <2>7, ChainLayers
    <3>2. QED
      BY <2>5, <2>7, <3>1
  <2>8. CASE Chain(r, n) # name
    <3>1. Chain(r, n) \in Keys \ (Procs \cup Containers)
      BY ChainKeys
    <3> HIDE DEF name
    <3>2. meta'[Chain(r, n)] = meta[Chain(r, n)]
      BY <2>5, <2>8, <3>1
    <3>3. Chain(r, n) \in Live
      BY <2>6, <3>1, <3>2 DEF Live
    <3>4. QED
      BY <3>2, <3>3 DEF ChainInv
  <2>9. QED
    BY <2>7, <2>8
<1>6. QED
  BY <1>0, <1>1, <1>2, <1>3, <1>4, <1>5, SnapshotSteps

-----------------------------------------------------------------------------
(* Mounts of containers                                                    *)

\* A chain has the snapshot itself, and the parent of each member.
LEMMA AncestryClosed ==
  ASSUME TypeOK, NEW k \in Keys
  PROVE  k \in Ancestry(k) /\ ParentClosed(Ancestry(k))
<1>1. k \in Ancestry(k)
  BY DEF Ancestry
<1>2. ASSUME NEW j \in Ancestry(k), meta[j].parent # NoKey
      PROVE  meta[j].parent \in Ancestry(k)
  <2>1. j \in Keys /\ meta[j].parent \in Keys
    BY <1>2 DEF Ancestry, TypeOK, Snapshot
  <2>2. ASSUME NEW S \in SUBSET Keys, k \in S, ParentClosed(S)
        PROVE  meta[j].parent \in S
    <3>1. j \in S
      BY <2>2 DEF Ancestry
    <3>2. QED
      BY <1>2, <2>2, <3>1 DEF ParentClosed
  <2>3. QED
    BY <2>1, <2>2 DEF Ancestry
<1>3. QED
  BY <1>1, <1>2 DEF ParentClosed

\* The list of mounts of a container has the paths of its own image, each in
\* the entry of the nix layer, and no others.
LEMMA ContainerPaths ==
  ASSUME TypeOK, MountsInv, ChainInv, ContainerInv, NEW c \in Containers,
         image[c] \in Requests
  PROVE  /\ ChainPaths(c) = image[c].paths
         /\ LET binds == BindMounts(c) IN
              UNION {binds[j].paths : j \in DOMAIN binds} = image[c].paths
<1> DEFINE r == image[c]
           layers == {Chain(r, n) : n \in Numbers(r)} \cap Live
<1>1. /\ c \in Keys /\ c \in Live /\ meta[c].parent = Top(r) /\ meta[c].paths = {}
      /\ r # NoImage
  BY NamesAssumption, RequestsAssumption DEF ContainerInv, ContainerOK, Live
<1>2. /\ Top(r) \in Keys /\ Top(r) \in Live /\ Top(r) # NoKey
      /\ Len(Image(r)) \in Numbers(r) /\ Top(r) = Chain(r, Len(Image(r)))
  BY <1>1, TopChain, NumberType, KeysAssumption DEF MountsInv, Top
<1>3. /\ meta[Top(r)].paths = r.paths
      /\ \A j \in layers : j # Top(r) => meta[j].paths = {}
  BY <1>2, LayerPaths DEF ChainInv
<1>4. ParentClosed({c} \cup layers)
  <2>1. \A j \in layers : meta[j].parent \in layers \cup {NoKey}
    <3> SUFFICES ASSUME NEW n \in Numbers(r), Chain(r, n) \in Live
                 PROVE  meta[Chain(r, n)].parent \in layers \cup {NoKey}
      OBVIOUS
    <3>1. meta[Chain(r, n)].parent = Chain(r, n - 1)
      BY DEF ChainInv
    <3>2. Chain(r, n - 1) = NoKey \/ Chain(r, n - 1) \in Live
      BY <3>1 DEF MountsInv
    <3>3. n = 1 => Chain(r, n - 1) = NoKey
      BY DEF Chain
    <3>4. n # 1 => n - 1 \in Numbers(r)
      BY NumberType
    <3>5. QED
      BY <3>1, <3>2, <3>3, <3>4
  <2>2. meta[c].parent \in layers
    BY <1>1, <1>2
  <2>3. QED
    BY <2>1, <2>2 DEF ParentClosed
<1>5. Ancestry(c) \subseteq {c} \cup layers
  <2>1. {c} \cup layers \in SUBSET Keys
    BY <1>1 DEF Live
  <2> HIDE DEF layers
  <2>2. QED
    BY <1>4, <2>1, AncestryIn
<1>6. c \in Ancestry(c) /\ Top(r) \in Ancestry(c)
  BY <1>1, <1>2, AncestryClosed DEF ParentClosed
<1>7. ChainPaths(c) = r.paths
  BY <1>1, <1>3, <1>5, <1>6 DEF ChainPaths
<1>8. Top(r) \in Ancestry(Top(r))
  BY <1>2, AncestryClosed
<1> DEFINE binds == BindMounts(c)
<1>9. /\ DOMAIN binds = Ancestry(c)
      /\ \A j \in Ancestry(c) : binds[j].paths =
           meta[j].paths \ UNION {meta[i].paths : i \in Ancestry(c) \ Ancestry(j)}
  BY DEF BindMounts
<1>10. binds[Top(r)].paths = r.paths
  <2>1. \A i \in Ancestry(c) \ Ancestry(Top(r)) : meta[i].paths = {}
    BY <1>1, <1>3, <1>5, <1>8
  <2>2. UNION {meta[i].paths : i \in Ancestry(c) \ Ancestry(Top(r))} = {}
    BY <2>1
  <2>3. binds[Top(r)].paths =
          meta[Top(r)].paths \ UNION {meta[i].paths : i \in Ancestry(c) \ Ancestry(Top(r))}
    BY <1>6, <1>9
  <2> HIDE DEF binds
  <2>4. QED
    BY <1>3, <2>2, <2>3
<1>11. \A j \in Ancestry(c) : binds[j].paths \subseteq r.paths
  BY <1>1, <1>3, <1>5, <1>9
<1>12. UNION {binds[j].paths : j \in DOMAIN binds} = r.paths
  BY <1>6, <1>9, <1>10, <1>11
<1>13. QED
  BY <1>7, <1>12

\* A step that leaves the chain of a snapshot alone leaves its bind mounts and
\* their order alone.
LEMMA ListKept ==
  ASSUME NEW k, NEW C \in SUBSET Keys, k \in C, ParentClosed(C),
         \A j \in C : meta'[j] = meta[j]
  PROVE  BindMounts(k)' = BindMounts(k) /\ ChainOrders(k)' = ChainOrders(k)
<1>1. ASSUME NEW j \in C
      PROVE  Ancestry(j)' = Ancestry(j) /\ Ancestry(j) \subseteq C
  <2>1. \A S \in SUBSET Keys : ParentClosed(S) => ParentClosed(S \cap C)'
    BY DEF ParentClosed
  <2>2. \A S \in SUBSET Keys : ParentClosed(S)' => ParentClosed(S \cap C)
    BY DEF ParentClosed
  <2>3. \A S \in SUBSET Keys : S \cap C \in SUBSET Keys
    OBVIOUS
  <2>4. Ancestry(j)' \subseteq Ancestry(j)
    BY <1>1, <2>1, <2>3 DEF Ancestry
  <2>5. Ancestry(j) \subseteq Ancestry(j)'
    BY <1>1, <2>2, <2>3 DEF Ancestry
  <2>6. QED
    BY <1>1, <2>4, <2>5, AncestryIn
<1>2. Ancestry(k)' = Ancestry(k) /\ Ancestry(k) \subseteq C
  BY <1>1
<1>3. BindMounts(k)' = BindMounts(k)
  <2> DEFINE before(j) == Ancestry(k) \ Ancestry(j)
             seen(j) == UNION {meta[i].paths : i \in before(j)}
             entry(j) == [paths |-> meta[j].paths \ seen(j), next |-> meta[j].parent]
  <2>1. ASSUME NEW j \in Ancestry(k)
        PROVE  entry(j)' = entry(j)
    <3>1. j \in C /\ before(j)' = before(j) /\ before(j) \subseteq C
      BY <1>1, <1>2
    <3> HIDE DEF before
    <3>2. seen(j)' = seen(j)
      BY <3>1
    <3> HIDE DEF seen
    <3>3. meta'[j] = meta[j]
      BY <3>1
    <3>4. QED
      BY <3>2, <3>3
  <2>2. BindMounts(k) = [j \in Ancestry(k) |-> entry(j)]
    BY DEF BindMounts
  <2>3. BindMounts(k)' = [j \in Ancestry(k)' |-> entry(j)']
    BY DEF BindMounts
  <2> HIDE DEF entry
  <2>4. QED
    BY <1>2, <2>1, <2>2, <2>3
<1>4. ChainOrders(k)' = ChainOrders(k)
  <2> DEFINE chain == Ancestry(k)
             orders(j) == LabelOrders(meta[j].paths)
  <2>1. \A j \in chain : orders(j)' = orders(j)
    BY <1>2
  <2>2. chain' = chain
    BY <1>2
  <2>3. ChainOrders(k) = {order \in [chain -> UNION {orders(j) : j \in chain}] :
                            \A j \in chain : order[j] \in orders(j)}
    BY DEF ChainOrders
  <2>4. ChainOrders(k)' = {order \in [chain' -> UNION {orders(j)' : j \in chain'}] :
                             \A j \in chain' : order[j] \in orders(j)'}
    BY DEF ChainOrders
  <2> HIDE DEF orders, chain
  <2>5. UNION {orders(j)' : j \in chain} = UNION {orders(j) : j \in chain}
    BY <2>1
  <2>6. QED
    BY <2>1, <2>2, <2>3, <2>4, <2>5
<1>5. QED
  BY <1>3, <1>4

\* Sorted labels have one order.
LEMMA OneOrder ==
  ASSUME NEW k, NEW order1 \in ChainOrders(k), NEW order2 \in ChainOrders(k)
  PROVE  order1 = order2
<1>1. \A j \in Ancestry(k) : order1[j] = order2[j]
  BY DEF ChainOrders, LabelOrders
<1>2. QED
  BY <1>1 DEF ChainOrders

\* As long as a container stays, so does its chain.
LEMMA ContainerListKept ==
  ASSUME Safe, ClientInv, [UnpackNext]_allVars, NEW c \in Containers, c \in Live,
         meta'[c] = meta[c]
  PROVE  BindMounts(c)' = BindMounts(c) /\ ChainOrders(c)' = ChainOrders(c)
<1> USE DEF Safe
<1>0. /\ Procs \subseteq Keys /\ Containers \subseteq Keys
      /\ ParentClosed(Live) /\ Live \in SUBSET Keys
  BY NamesAssumption, ClosedSets DEF Live
<1>1. CASE \A j \in Live : meta'[j] = meta[j]
  BY <1>0, <1>1, ListKept
<1>2. ASSUME NEW p \in Procs, PrepareLayer(p)
      PROVE  \A j \in Live : meta'[j] = meta[j]
  BY <1>0, <1>2, PrepareEffect DEF PrepareLayer
<1>3. ASSUME NEW p \in Procs, NEW d \in Containers, NEW r \in Requests, Start(p, d, r)
      PROVE  \A j \in Live : meta'[j] = meta[j]
  BY <1>0, <1>3, PrepareEffect DEF Start
<1>4. ASSUME NEW p \in Procs, NEW k \in Keys, Remove(p, k)
      PROVE  BindMounts(c)' = BindMounts(c) /\ ChainOrders(c)' = ChainOrders(c)
  <2>1. /\ \A j \in Live : meta[j].parent # k
        /\ \A j \in Live \ {k} : meta'[j] = meta[j]
        /\ meta'[k].kind = "absent"
    BY <1>0, <1>4, RemoveEffect DEF Absent
  <2>2. ParentClosed(Live \ {k}) /\ c # k
    BY <1>0, <2>1 DEF ParentClosed, Live
  <2>3. QED
    BY <1>0, <2>1, <2>2, ListKept
<1>5. ASSUME NEW p \in Procs, CommitLayer(p)
      PROVE  BindMounts(c)' = BindMounts(c) /\ ChainOrders(c)' = ChainOrders(c)
  <2> DEFINE name == Chain(client[p].image, client[p].n)
  <2>1. /\ Commit(p, name) /\ name \in Keys /\ p \in Keys
    BY <1>0, <1>5, ChainKeys DEF CommitLayer, Ready, ClientInv, ClientOK
  <2> HIDE DEF name
  <2>2. /\ name \notin Live /\ meta[p].kind = "active" /\ meta'[p].kind = "absent"
        /\ \A j \in Live \ {p} : meta'[j] = meta[j]
    <3>1. name \notin Live /\ meta[p].kind = "active"
      BY <2>1 DEF Commit
    <3>2. meta'[p] = Absent /\ \A j \in Keys \ {p, name} : meta'[j] = meta[j]
      BY <2>1, CommitRecords
    <3>3. QED
      BY <1>0, <3>1, <3>2 DEF Absent
  <2>3. ParentClosed(Live \ {p}) /\ c # p
    BY <1>0, <2>2 DEF ParentClosed, MountsInv, Live
  <2>4. QED
    BY <1>0, <2>2, <2>3, ListKept
<1>6. QED
  BY <1>0, <1>1, <1>2, <1>3, <1>4, <1>5, SnapshotSteps

\* The record of a container does not change.
LEMMA ContainerRecord ==
  ASSUME Safe, ClientInv, [UnpackNext]_allVars, NEW c \in Containers, c \in Live,
         meta'[c].kind # "absent"
  PROVE  meta'[c] = meta[c]
<1>0. /\ Procs \subseteq Keys /\ Containers \subseteq Keys /\ c \notin Procs /\ TypeOK
  BY NamesAssumption DEF Safe
<1>1. ASSUME NEW p \in Procs, PrepareLayer(p)
      PROVE  meta'[c] = meta[c]
  BY <1>0, <1>1, PrepareEffect DEF PrepareLayer
<1>2. ASSUME NEW p \in Procs, NEW d \in Containers, NEW r \in Requests, Start(p, d, r)
      PROVE  meta'[c] = meta[c]
  BY <1>0, <1>2, PrepareEffect DEF Start
<1>3. ASSUME NEW p \in Procs, NEW k \in Keys, Remove(p, k)
      PROVE  meta'[c] = meta[c]
  BY <1>0, <1>3, RemoveEffect DEF Absent
<1>4. ASSUME NEW p \in Procs, CommitLayer(p)
      PROVE  meta'[c] = meta[c]
  <2> DEFINE name == Chain(client[p].image, client[p].n)
  <2>1. Commit(p, name) /\ name \in Keys /\ name \notin Containers
    BY <1>4, ChainKeys DEF CommitLayer, Ready, ClientInv, ClientOK
  <2> HIDE DEF name
  <2>2. QED
    BY <1>0, <2>1, CommitRecords
<1>5. QED
  BY <1>0, <1>1, <1>2, <1>3, <1>4, SnapshotSteps

\* A step that neither starts nor stops container c, nor gives it mounts.
LeavesAlone(c) ==
  /\ image'[c] = image[c] /\ given'[c] = given[c] /\ meta'[c] = meta[c]
  /\ c \in acked => c \in acked'
  /\ mounted'[c] = mounted[c]

LEMMA ContainerFrame ==
  ASSUME Safe, ClientInv, ContainerInv, [UnpackNext]_allVars, NEW c \in Containers,
         LeavesAlone(c)
  PROVE  ContainerOK(c)'
<1>1. ContainerOK(c)
  BY DEF ContainerInv
<1>2. CASE given[c] # NoMounts
  <2>1. c \in Live
    BY <1>1, <1>2 DEF ContainerOK, Safe, RootsInv
  <2>2. BindMounts(c)' = BindMounts(c) /\ ChainOrders(c)' = ChainOrders(c)
    BY <2>1, ContainerListKept DEF LeavesAlone
  <2>3. QED
    BY <1>1, <2>2 DEF ContainerOK, LeavesAlone
<1>3. CASE given[c] = NoMounts
  BY <1>1, <1>3 DEF ContainerOK, LeavesAlone
<1>4. QED
  BY <1>2, <1>3

\* A container gets the mounts of the chain it was started on.
LEMMA GiveContainer ==
  ASSUME Safe, UnpackTypeOK, ClientInv, ChainInv, ContainerInv, NEW p \in Procs,
         GiveMounts(p), [UnpackNext]_allVars, NEW c \in Containers
  PROVE  ContainerOK(c)'
<1> DEFINE k == client[p].key
<1>1. /\ call[p].waiting /\ call[p].key = k /\ k \in Containers /\ image[k] # NoImage
      /\ WithNixBindMounts(p) /\ UNCHANGED image
  BY DEF GiveMounts, ClientInv, ClientOK
<1>2. PICK order \in ChainOrders(k) : given' = [given EXCEPT ![k] = MountList(k, order)]
  BY DEF GiveMounts
<1>3. k \in Keys /\ k \in Live /\ image[k] \in Requests
  BY <1>1, NamesAssumption DEF ContainerInv, ContainerOK, Live, UnpackTypeOK
<1>4. /\ UNCHANGED meta /\ acked' = acked \cup {k}
      /\ mounted' = [mounted EXCEPT ![k] = ChainPaths(k)]
  BY <1>1, <1>3 DEF WithNixBindMounts, Return
<1>5. CASE c = k
  <2>1. mounted'[c] = image[c].paths
    BY <1>3, <1>4, <1>5, ContainerPaths DEF Safe, TypeOK
  <2>2. given'[c].binds = BindMounts(c) /\ given'[c].order \in ChainOrders(c)
    BY <1>2, <1>5 DEF UnpackTypeOK, MountList
  <2>3. BindMounts(c)' = BindMounts(c) /\ ChainOrders(c)' = ChainOrders(c)
    BY <1>3, <1>4, <1>5, ContainerListKept
  <2>4. QED
    BY <1>1, <1>4, <1>5, <2>1, <2>2, <2>3 DEF ContainerInv, ContainerOK
<1>6. CASE c # k
  <2>1. LeavesAlone(c)
    BY <1>1, <1>2, <1>3, <1>4, <1>6, NamesAssumption
       DEF LeavesAlone, UnpackTypeOK, Safe, TypeOK
  <2>2. QED
    BY <2>1, ContainerFrame
<1>7. QED
  BY <1>5, <1>6

\* Every step keeps ContainerInv.
LEMMA ContainerStep ==
  ASSUME Safe, UnpackTypeOK, ClientInv, ChainInv, ContainerInv, [UnpackNext]_allVars
  PROVE  ContainerInv'
<1> SUFFICES ASSUME NEW c \in Containers
             PROVE  ContainerOK(c)'
  BY DEF ContainerInv
<1>0. /\ c \in Keys /\ c \notin Procs /\ Procs \subseteq Keys /\ TypeOK
      /\ ContainerOK(c) /\ meta[c].kind # "committed"
  <2>1. /\ c \in Keys /\ c \notin Procs /\ Procs \subseteq Keys /\ TypeOK
        /\ ContainerOK(c)
    BY NamesAssumption DEF Safe, ContainerInv
  <2>2. meta[c].kind # "committed"
    BY <2>1 DEF ClientInv, ContainerOK
  <2>3. QED
    BY <2>1, <2>2
<1>1. ASSUME UNCHANGED <<meta, acked, mounted, image, given>>
      PROVE  LeavesAlone(c)
  BY <1>1 DEF LeavesAlone
<1>2. ASSUME NEW p \in Procs, NEW r \in Requests, Pull(p, r)
      PROVE  LeavesAlone(c)
  BY <1>1, <1>2 DEF Pull, vars
<1>3. ASSUME NEW p \in Procs, Stat(p)
      PROVE  LeavesAlone(c)
  BY <1>1, <1>3 DEF Stat, vars
<1>4. ASSUME NEW p \in Procs, PrepareLayer(p)
      PROVE  LeavesAlone(c)
  BY <1>0, <1>4, PrepareEffect DEF PrepareLayer, LeavesAlone
<1>5. ASSUME NEW p \in Procs, CommitLayer(p)
      PROVE  LeavesAlone(c)
  <2> DEFINE name == Chain(client[p].image, client[p].n)
  <2>1. /\ Commit(p, name) /\ UNCHANGED <<image, given>>
        /\ name \in Keys /\ name \notin Containers
    BY <1>5, ChainKeys DEF CommitLayer, Ready, ClientInv, ClientOK
  <2> HIDE DEF name
  <2>2. meta'[c] = meta[c]
    BY <1>0, <2>1, CommitRecords
  <2>3. /\ acked' = (acked \ {p}) \cup {name}
        /\ mounted' = [mounted EXCEPT ![p] = {}]
    BY <2>1 DEF Commit
  <2>4. QED
    BY <1>0, <2>1, <2>2, <2>3 DEF LeavesAlone, TypeOK
<1>6. ASSUME NEW p \in Procs, NEW k \in Keys, Remove(p, k), k # c,
             UNCHANGED <<image, given>>
      PROVE  LeavesAlone(c)
  <2>1. /\ acked' = acked \ {k} /\ meta'[c] = meta[c] /\ mounted'[c] = mounted[c]
    BY <1>0, <1>6, RemoveEffect
  <2>2. QED
    BY <1>6, <2>1 DEF LeavesAlone
<1>7. ASSUME NEW p \in Procs, AlreadyExists(p)
      PROVE  LeavesAlone(c)
  BY <1>0, <1>6, <1>7 DEF AlreadyExists
<1>8. ASSUME NEW p \in Procs, Abort(p)
      PROVE  LeavesAlone(c)
  BY <1>0, <1>1, <1>6, <1>8 DEF Abort, vars
<1>9. ASSUME NEW p \in Procs, NEW d \in Containers, NEW r \in Requests, Start(p, d, r)
      PROVE  ContainerOK(c)'
  <2>1. /\ image[d] = NoImage /\ image' = [image EXCEPT ![d] = r] /\ UNCHANGED given
        /\ Prepare(p, d, Top(r), Plain)
    BY <1>9 DEF Start
  <2>2. d \in Keys /\ Plain.paths = {} /\ r # NoImage
    BY NamesAssumption, RequestsAssumption DEF Plain
  <2>3. /\ \A j \in Keys \ {d} : meta'[j] = meta[j]
        /\ meta'[d].kind = "active" /\ meta'[d].parent = Top(r) /\ meta'[d].paths = {}
        /\ UNCHANGED <<acked, mounted>>
    BY <1>0, <2>1, <2>2, PrepareEffect
  <2>4. CASE c = d
    <3>1. given'[c] = NoMounts /\ image'[c] = r
      BY <1>0, <2>1, <2>4 DEF ContainerOK, UnpackTypeOK
    <3>2. QED
      BY <2>2, <2>3, <2>4, <3>1 DEF ContainerOK
  <2>5. CASE c # d
    <3>1. LeavesAlone(c)
      BY <1>0, <2>1, <2>3, <2>5 DEF LeavesAlone, UnpackTypeOK
    <3>2. QED
      BY <3>1, ContainerFrame
  <2>6. QED
    BY <2>4, <2>5
<1>10. ASSUME NEW p \in Procs, NEW d \in Containers, Recover(p, d)
       PROVE  LeavesAlone(c)
  BY <1>1, <1>10 DEF Recover, Mounts
<1>11. ASSUME NEW p \in Procs, NEW d \in Containers, Stop(p, d)
       PROVE  ContainerOK(c)'
  <2>1. /\ Remove(p, d) /\ image' = [image EXCEPT ![d] = NoImage]
        /\ given' = [given EXCEPT ![d] = NoMounts] /\ d \in Keys
    BY <1>11, NamesAssumption DEF Stop
  <2>2. CASE c = d
    BY <2>1, <2>2 DEF ContainerOK, UnpackTypeOK
  <2>3. CASE c # d
    <3>1. /\ acked' = acked \ {d} /\ meta'[c] = meta[c] /\ mounted'[c] = mounted[c]
      BY <1>0, <2>1, <2>3, RemoveEffect
    <3>2. image'[c] = image[c] /\ given'[c] = given[c]
      BY <2>1, <2>3 DEF UnpackTypeOK
    <3>3. LeavesAlone(c)
      BY <2>3, <3>1, <3>2 DEF LeavesAlone
    <3>4. QED
      BY <3>3, ContainerFrame
  <2>4. QED
    BY <2>2, <2>3
<1>12. ASSUME NEW p \in Procs, GiveMounts(p)
       PROVE  ContainerOK(c)'
  BY <1>12, GiveContainer
<1>13. ASSUME NEW p \in Procs, NEW k \in Keys, Evict(p, k)
       PROVE  LeavesAlone(c)
  BY <1>0, <1>6, <1>13 DEF Evict, clientVars
<1>14. ASSUME NEW p \in Procs, Clean(p)
       PROVE  LeavesAlone(c)
  BY <1>1, <1>14 DEF Clean, Cleanup, clientVars
<1>15. ASSUME NEW p \in Procs, Serve(p)
       PROVE  LeavesAlone(c)
  <2>1. /\ Continue(p) /\ UNCHANGED <<image, given>>
        /\ call[p].step # "mounts" \/ client[p].step = "apply"
    BY <1>15 DEF Serve, clientVars
  <2>2. call[p].waiting => call[p].key = p
    BY <2>1 DEF ClientInv, ClientOK, UnpackTypeOK, ClientSteps
  <2>3. /\ UNCHANGED meta /\ acked \subseteq acked'
        /\ mounted'[c] = mounted[c] \/ (call[p].waiting /\ call[p].key = c)
    BY <1>0, <2>1, ContinueEffect
  <2>4. QED
    BY <1>0, <2>1, <2>2, <2>3 DEF LeavesAlone
<1>16. ASSUME NEW path \in Paths, NixGC(path), UNCHANGED clientVars
       PROVE  LeavesAlone(c)
  BY <1>1, <1>16 DEF NixGC, clientVars
<1>17. CASE UNCHANGED allVars
  BY <1>1, <1>17, ContainerFrame DEF allVars, vars, clientVars
<1>18. QED
  BY <1>2, <1>3, <1>4, <1>5, <1>7, <1>8, <1>9, <1>10, <1>11, <1>12, <1>13, <1>14,
     <1>15, <1>16, <1>17, ContainerFrame DEF UnpackNext

\* What holds in every state of the composition, under the conditions of
\* MountsKept.
UnpackSafe == Safe /\ UnpackTypeOK /\ ClientInv /\ ChainInv /\ ContainerInv

LEMMA UnpackSafeAlways ==
  ASSUME Orderly, "builderFails" \notin Faults, "relabel" \notin Faults
  PROVE  UnpackSpec => []UnpackSafe
<1>1. UnpackInit => UnpackTypeOK /\ ClientInv /\ ChainInv /\ ContainerInv
  <2> SUFFICES ASSUME UnpackInit
               PROVE  UnpackTypeOK /\ ClientInv /\ ChainInv /\ ContainerInv
    OBVIOUS
  <2>1. UnpackTypeOK /\ ClientInv
    BY UnpackStart
  <2>2. Live = {}
    BY DEF UnpackInit, Init, Live, Absent
  <2>3. \A c \in Containers : image[c] = NoImage /\ given[c] = NoMounts
    BY DEF UnpackInit
  <2>4. QED
    BY <2>1, <2>2, <2>3 DEF ChainInv, ContainerInv, ContainerOK
<1>2. Safe /\ UnpackTypeOK /\ ClientInv /\ ChainInv /\ ContainerInv /\
        [UnpackNext]_allVars =>
      UnpackTypeOK' /\ ClientInv' /\ ChainInv' /\ ContainerInv'
  BY ClientStep, ChainStep, ContainerStep DEF ClientGoal, Safe
<1>3. Spec => []Safe
  BY SafeAlways
<1>4. QED
  BY <1>1, <1>2, <1>3, UnpackImplements, PTL DEF UnpackSpec, UnpackSafe

\* "When the snapshotter prepares this layer, it will then mount the store
\* paths into these mountpoints" (generate.go:236-238): a container gets the
\* store paths of its own image, all of them and no others, and they stay in
\* the store, for any number of images that share layers by chain ID.
THEOREM ClosuresMounted ==
  ASSUME Orderly, "builderFails" \notin Faults, "relabel" \notin Faults
  PROVE  UnpackSpec => []ClosureMounted
<1>1. UnpackSafe => ClosureMounted
  <2> SUFFICES ASSUME UnpackSafe, NEW c \in Containers, given[c] # NoMounts
               PROVE  LET binds == given[c].binds IN
                        /\ UNION {binds[j].paths : j \in DOMAIN binds} = image[c].paths
                        /\ mounted[c] = image[c].paths
                        /\ image[c].paths \subseteq store
    BY DEF ClosureMounted
  <2>1. /\ image[c] # NoImage /\ c \in acked /\ mounted[c] = image[c].paths
        /\ given[c].binds = BindMounts(c)
    BY DEF UnpackSafe, ContainerInv, ContainerOK
  <2>2. image[c] \in Requests
    BY <2>1 DEF UnpackSafe, UnpackTypeOK
  <2>3. ChainPaths(c) = image[c].paths
    BY <2>2, ContainerPaths DEF UnpackSafe, Safe
  <2>4. LET binds == BindMounts(c) IN
          UNION {binds[j].paths : j \in DOMAIN binds} = image[c].paths
    BY <2>2, ContainerPaths DEF UnpackSafe, Safe
  <2>5. ChainPaths(c) \subseteq store
    BY <2>1, ChainRooted DEF UnpackSafe, Safe
  <2>6. QED
    BY <2>1, <2>3, <2>4, <2>5
<1>2. QED
  BY <1>1, UnpackSafeAlways, PTL

\* Mounts "can be used to recover mounts after calling View or Prepare"
\* (snapshotter.go:179): it returns the bind mounts that Prepare returned, and
\* in the same order (line 324), for the life of a container and over any
\* other steps.
THEOREM MountsAreRecovered ==
  ASSUME Orderly, "builderFails" \notin Faults, "relabel" \notin Faults
  PROVE  UnpackSpec => MountsRecovered
<1>1. UnpackSafe /\ UnpackSafe' /\ [UnpackNext]_allVars =>
        [\A c \in Containers : given[c] # NoMounts /\ given'[c] # NoMounts =>
           /\ given'[c].binds = given[c].binds
           /\ given'[c].order = given[c].order]_allVars
  <2> SUFFICES ASSUME UnpackSafe, UnpackSafe', [UnpackNext]_allVars,
                      NEW c \in Containers, given[c] # NoMounts, given'[c] # NoMounts
               PROVE  given'[c].binds = given[c].binds /\ given'[c].order = given[c].order
    OBVIOUS
  <2>1. /\ given[c].binds = BindMounts(c) /\ given'[c].binds = BindMounts(c)'
        /\ given[c].order \in ChainOrders(c) /\ given'[c].order \in ChainOrders(c)'
        /\ c \in acked /\ c \in acked'
    BY DEF UnpackSafe, ContainerInv, ContainerOK
  <2>2. c \in Live /\ meta'[c].kind # "absent"
    BY <2>1 DEF UnpackSafe, Safe, RootsInv, Live
  <2>3. meta'[c] = meta[c]
    BY <2>2, ContainerRecord DEF UnpackSafe
  <2>4. BindMounts(c)' = BindMounts(c) /\ ChainOrders(c)' = ChainOrders(c)
    BY <2>2, <2>3, ContainerListKept DEF UnpackSafe
  <2>5. QED
    BY <2>1, <2>4, OneOrder
<1>2. QED
  BY <1>1, UnpackSafeAlways, PTL DEF UnpackSpec, MountsRecovered
=============================================================================
