----------------------------- MODULE PinnedStore -----------------------------
(***************************************************************************)
(* What the snapshotter promises to its client: a store of paths, and      *)
(* holders that keep paths from being collected.                           *)
(***************************************************************************)
CONSTANTS Holders, Paths

VARIABLES
  store,  \* the paths that are present
  held    \* the paths each holder relies on

vars == <<store, held>>

Init == store \in SUBSET Paths /\ held = [h \in Holders |-> {}]

\* A path becomes present.
Fetch(path) == store' = store \cup {path} /\ UNCHANGED held

\* A holder now relies on paths that are all present.
Acquire(h, paths) ==
  /\ paths \subseteq store
  /\ held' = [held EXCEPT ![h] = paths]
  /\ UNCHANGED store

Release(h) == held' = [held EXCEPT ![h] = {}] /\ UNCHANGED store

\* A holder that relies on nothing takes over from another one.
HandOver(h, heir, paths) ==
  /\ held[heir] = {}
  /\ paths \subseteq held[h]
  /\ held' = [held EXCEPT ![h] = {}, ![heir] = paths]
  /\ UNCHANGED store

\* A path that nobody relies on goes away.
Collect(path) ==
  /\ \A h \in Holders : path \notin held[h]
  /\ store' = store \ {path}
  /\ UNCHANGED held

Next ==
  \/ \E path \in Paths : Fetch(path) \/ Collect(path)
  \/ \E h \in Holders, paths \in SUBSET Paths : Acquire(h, paths)
  \/ \E h \in Holders : Release(h)
  \/ \E h, heir \in Holders, paths \in SUBSET Paths : HandOver(h, heir, paths)

Spec == Init /\ [][Next]_vars
=============================================================================
