---------------------------- MODULE ImageService ----------------------------
(***************************************************************************)
(* The CRI image service (pkg/nix/image_service.go) and the loading of a   *)
(* Nix image archive into containerd (pkg/nix2container/load.go).          *)
(*                                                                         *)
(* A goroutine dials containerd and hands both clients over under a mutex. *)
(* Every call takes the CRI client under that mutex and is refused before. *)
(* PullImage of a nix:0 reference realises the archive with Nix, unless it *)
(* is there, and loads it through the other client, which it reads without *)
(* the mutex; every other call is passed on to containerd.                 *)
(*                                                                         *)
(* External, modelled as this code uses them: containerd (it may be down,  *)
(* and keeps images and their content), Nix, and the kubelet.              *)
(***************************************************************************)
EXTENDS Naturals

CONSTANTS
  Procs,     \* goroutines of the gRPC server, one call each
  Archives,  \* store paths of image archives; each names its own image
  Attempts,  \* how often the connector dials (100, image_service.go:55)
  Faults     \* what may go wrong in a run

\* "down"         containerd is not running at times
\* "nixGC"        Nix collects archives, which no GC root protects
\* "builderFails" the nix builder returns an error
\* "statFails"    the archive can not be looked up
\* "remove"       the kubelet removes images
ASSUME FaultsAssumption ==
  Faults \subseteq {"down", "nixGC", "builderFails", "statFails", "remove"}
ASSUME AttemptsAssumption == Attempts \in Nat \ {0}

Nobody == "nobody"
Connector == "connector"
ASSUME ProcsAssumption == Procs \cap {Nobody, Connector} = {}

VARIABLES
  conn,      \* the connector: its step and its failed attempts
  mu,        \* holder of imageService.mu
  client,    \* imageService.client is set
  cri,       \* imageService.imageServiceClient is set
  call,      \* what each goroutine is doing: its step, operation and archive
  up,        \* containerd answers
  archives,  \* archives present in the Nix store
  images,    \* archives with an image record in containerd
  calm,      \* the faults are over
  content    \* archives whose manifest, config and layers containerd holds

vars == <<calm, conn, mu, client, cri, call, up, archives, images, content>>

\* "proxy" stands for the calls that are passed on without a change,
\* PullImage of any other reference included.
Ops == {"proxy", "remove", "pull"}
Steps == {"idle", "lock", "read", "forward", "stat", "build", "open",
          "transfer", "getImage", "store", "config", "ok", "failed", "panic"}
Loading == {"transfer", "getImage", "store", "config"}

\* The shape of the state.  The mutex is held by the connector in its critical
\* section and by calls in getClient (image_service.go:58-61 and 75-77), and
\* every failed attempt to dial is counted.
TypeOK ==
  /\ conn \in [step : {"dial", "lock", "setClient", "setCRI", "connected", "gaveUp"},
               failed : 0..Attempts]
  /\ conn.step = "dial" => conn.failed < Attempts
  /\ mu \in Procs \cup {Nobody, Connector}
  /\ client \in BOOLEAN /\ cri \in BOOLEAN /\ up \in BOOLEAN
  /\ calm \in BOOLEAN
  /\ call \in [Procs -> [step : Steps, op : Ops, archive : Archives]]
  /\ archives \subseteq Archives
  /\ images \subseteq Archives
  /\ content \subseteq Archives
  /\ mu = Connector <=> conn.step \in {"setClient", "setCRI"}
  /\ \A p \in Procs : mu = p <=> call[p].step = "read"

Init ==
  /\ conn = [step |-> "dial", failed |-> 0]
  /\ mu = Nobody
  /\ client = FALSE /\ cri = FALSE
  /\ call \in [Procs -> [step : {"idle"}, op : {"proxy"}, archive : Archives]]
  /\ up \in (IF "down" \in Faults THEN BOOLEAN ELSE {TRUE})
  /\ archives \in SUBSET Archives
  /\ images = {} /\ content = {}
  /\ calm = FALSE

-----------------------------------------------------------------------------
(* The connector, image_service.go:53-69                                   *)

\* Mutant of Dial: there is no second attempt.
DialOnce ==
  /\ conn.step = "dial"
  /\ conn.failed = 0
  /\ conn' = IF up THEN [conn EXCEPT !.step = "lock"]
             ELSE [conn EXCEPT !.failed = 1]
  /\ UNCHANGED <<calm, mu, client, cri, call, up, archives, images, content>>

\* One attempt; after the last one the connector gives up for good.
Dial ==
  /\ conn.step = "dial"
  /\ conn' = IF up THEN [conn EXCEPT !.step = "lock"]
             ELSE [step |-> IF conn.failed + 1 = Attempts THEN "gaveUp" ELSE "dial",
                   failed |-> conn.failed + 1]
  /\ UNCHANGED <<calm, mu, client, cri, call, up, archives, images, content>>

\* The mutex, once dialled.
LockMu ==
  /\ conn.step = "lock"
  /\ mu = Nobody
  /\ mu' = Connector
  /\ conn' = [conn EXCEPT !.step = "setClient"]
  /\ UNCHANGED <<calm, client, cri, call, up, archives, images, content>>

\* Mutant of SetClient: the CRI client is published first, and the mutex is
\* given up between the two assignments.
SetClientLate ==
  \/ /\ conn.step = "setClient"
     /\ ~cri
     /\ cri' = TRUE
     /\ mu' = Nobody
     /\ UNCHANGED <<calm, conn, client, call, up, archives, images, content>>
  \/ /\ conn.step = "setClient"
     /\ cri
     /\ mu = Nobody
     /\ client' = TRUE
     /\ mu' = Connector
     /\ conn' = [conn EXCEPT !.step = "setCRI"]
     /\ UNCHANGED <<calm, cri, call, up, archives, images, content>>

SetClient ==
  /\ conn.step = "setClient"
  /\ client' = TRUE
  /\ conn' = [conn EXCEPT !.step = "setCRI"]
  /\ UNCHANGED <<calm, mu, cri, call, up, archives, images, content>>

\* Mutant of SetCRI: the mutex is not given back.
SetCRINoUnlock ==
  /\ conn.step = "setCRI"
  /\ cri' = TRUE
  /\ conn' = [conn EXCEPT !.step = "connected"]
  /\ UNCHANGED <<calm, mu, client, call, up, archives, images, content>>

\* The CRI client, and the end of the critical section.
SetCRI ==
  /\ conn.step = "setCRI"
  /\ cri' = TRUE
  /\ mu' = Nobody
  /\ conn' = [conn EXCEPT !.step = "connected"]
  /\ UNCHANGED <<calm, client, call, up, archives, images, content>>

-----------------------------------------------------------------------------
(* Calls                                                                   *)

Goto(p, step) == call' = [call EXCEPT ![p].step = step]

\* The gRPC server starts a goroutine for a call.
Begin(p, op, a) ==
  /\ call[p].step \in {"idle", "ok", "failed"}
  /\ op = "remove" => "remove" \in Faults /\ ~calm
  /\ call' = [call EXCEPT ![p] = [step |-> "lock", op |-> op, archive |-> a]]
  /\ UNCHANGED <<calm, conn, mu, client, cri, up, archives, images, content>>

\* getClient (lines 74-79).
Lock(p) ==
  /\ call[p].step = "lock"
  /\ mu = Nobody
  /\ mu' = p
  /\ Goto(p, "read")
  /\ UNCHANGED <<calm, conn, client, cri, up, archives, images, content>>

\* The rest of getClient, and ErrNotInitialized if there is no client yet.
Read(p) ==
  /\ call[p].step = "read"
  /\ mu' = Nobody
  /\ Goto(p, CASE ~cri -> "failed"
               [] cri /\ call[p].op = "pull" -> "stat"
               [] cri /\ call[p].op # "pull" -> "forward")
  /\ UNCHANGED <<calm, conn, client, cri, up, archives, images, content>>

\* The call is passed on.  RemoveImage (lines 152-158) deletes the record, and
\* containerd collects the content with it before it answers.
Forward(p) ==
  /\ call[p].step = "forward"
  /\ Goto(p, IF up THEN "ok" ELSE "failed")
  /\ IF up /\ call[p].op = "remove"
     THEN /\ images' = images \ {call[p].archive}
          /\ content' = content \ {call[p].archive}
     ELSE UNCHANGED <<images, content>>
  /\ UNCHANGED <<calm, conn, mu, client, cri, up, archives>>

\* Mutant of Stat: the archive is taken to be there.
StatSkipped(p) ==
  /\ call[p].step = "stat"
  /\ Goto(p, "open")
  /\ UNCHANGED <<calm, conn, mu, client, cri, up, archives, images, content>>

\* PullImage, lines 108-120 and 126-128.
Stat(p) ==
  /\ call[p].step = "stat"
  /\ \/ Goto(p, IF call[p].archive \in archives THEN "open" ELSE "build")
     \/ "statFails" \in Faults /\ ~calm /\ Goto(p, "failed")
  /\ UNCHANGED <<calm, conn, mu, client, cri, up, archives, images, content>>

\* Lines 121-125: the archive is realised, without an out-link.
BuildArchive(p) ==
  /\ call[p].step = "build"
  /\ \/ archives' = archives \cup {call[p].archive} /\ Goto(p, "open")
     \/ "builderFails" \in Faults /\ ~calm /\ Goto(p, "failed") /\ UNCHANGED archives
  /\ UNCHANGED <<calm, conn, mu, client, cri, up, images, content>>

\* Mutant of OpenArchive: an archive that Nix took away is realised again.
OpenArchiveAgain(p) ==
  /\ call[p].step = "open"
  /\ Goto(p, IF call[p].archive \in archives THEN "transfer" ELSE "stat")
  /\ UNCHANGED <<calm, conn, mu, client, cri, up, archives, images, content>>

\* Load, lines 19-23: once open, the file survives its removal.
OpenArchive(p) ==
  /\ call[p].step = "open"
  /\ Goto(p, IF call[p].archive \in archives THEN "transfer" ELSE "failed")
  /\ UNCHANGED <<calm, conn, mu, client, cri, up, archives, images, content>>

\* Load, lines 25-50, through the client read at line 132 without the mutex:
\* content and image record arrive in containerd.
Transfer(p) ==
  /\ call[p].step = "transfer"
  /\ IF ~client THEN Goto(p, "panic") /\ UNCHANGED <<images, content>>
     ELSE IF ~up THEN Goto(p, "failed") /\ UNCHANGED <<images, content>>
     ELSE /\ Goto(p, "getImage")
          /\ images' = images \cup {call[p].archive}
          /\ content' = content \cup {call[p].archive}
  /\ UNCHANGED <<calm, conn, mu, client, cri, up, archives>>

\* Load, lines 52-55: the record under the name the transfer reported.
GetImage(p) ==
  /\ call[p].step = "getImage"
  /\ Goto(p, IF up /\ call[p].archive \in images THEN "store" ELSE "failed")
  /\ UNCHANGED <<calm, conn, mu, client, cri, up, archives, images, content>>

\* Load, lines 57-65: the record is written once more, from what was read.
StoreImage(p) ==
  /\ call[p].step = "store"
  /\ IF up THEN Goto(p, "config") /\ images' = images \cup {call[p].archive}
     ELSE Goto(p, "failed") /\ UNCHANGED images
  /\ UNCHANGED <<calm, conn, mu, client, cri, up, archives, content>>

\* PullImage, lines 137-146: the config of the image is read from the content.
ReadConfig(p) ==
  /\ call[p].step = "config"
  /\ Goto(p, IF up /\ call[p].archive \in content THEN "ok" ELSE "failed")
  /\ UNCHANGED <<calm, conn, mu, client, cri, up, archives, images, content>>

-----------------------------------------------------------------------------
(* The environment                                                         *)

Toggle ==
  /\ "down" \in Faults
  /\ ~calm
  /\ up' = ~up
  /\ UNCHANGED <<calm, conn, mu, client, cri, call, archives, images, content>>

CollectArchive(a) ==
  /\ "nixGC" \in Faults
  /\ ~calm
  /\ a \in archives
  /\ archives' = archives \ {a}
  /\ UNCHANGED <<calm, conn, mu, client, cri, call, up, images, content>>

\* From here on containerd stays up, commands succeed, and nothing is collected
\* or removed.
CalmDown ==
  /\ up
  /\ ~calm
  /\ calm' = TRUE
  /\ UNCHANGED <<conn, mu, client, cri, call, up, archives, images, content>>

-----------------------------------------------------------------------------
Connect == Dial \/ LockMu \/ SetClient \/ SetCRI

Continue(p) ==
  \/ Lock(p) \/ Read(p) \/ Forward(p)
  \/ Stat(p) \/ BuildArchive(p) \/ OpenArchive(p)
  \/ Transfer(p) \/ GetImage(p) \/ StoreImage(p) \/ ReadConfig(p)

Next ==
  \/ Connect
  \/ \E p \in Procs : Continue(p)
  \/ \E p \in Procs, op \in Ops, a \in Archives : Begin(p, op, a)
  \/ Toggle
  \/ CalmDown
  \/ \E a \in Archives : CollectArchive(a)

Spec == Init /\ [][Next]_vars

\* Goroutines are scheduled, sleeps end and commands return.  A goroutine that
\* waits for the mutex gets it, however often others take it: Go's mutex hands
\* itself over to a waiter that has starved for 1 ms.
Fairness ==
  /\ WF_vars(Dial \/ SetClient \/ SetCRI) /\ SF_vars(LockMu)
  /\ \A p \in Procs : WF_vars(Continue(p)) /\ SF_vars(Lock(p))

FairSpec == Spec /\ Fairness

-----------------------------------------------------------------------------
(* Properties                                                              *)

\* Line 132 reads the client without the mutex: the CRI client that getClient
\* returned before vouches for it.
NoNilClient == \A p \in Procs :
  /\ call[p].step # "panic"
  /\ call[p].step \in Loading => client

\* Every call returns, whatever containerd, Nix and other calls do.
CallsReturn == \A p \in Procs :
  call[p].step # "idle" ~> call[p].step \in {"ok", "failed"}

\* If containerd is up for good before the connector gave up, calls reach it.
Connects == calm /\ conn.step # "gaveUp" ~> cri

Complete(a) == a \in images \cap content

\* The kubelet pulls an image again until it is there.  The fairness is strong
\* because goroutines are not scarce: other calls do not keep a pull out.
Retry ==
  \A a \in Archives :
    SF_vars(\E p \in Procs : ~Complete(a) /\ Begin(p, "pull", a))

\* "it will be able to resolve the image manifest with nix" (export.go:19-20):
\* once containerd stays up, and builds and look-ups work and neither Nix nor
\* the kubelet takes anything away, a pull that is retried brings the image in,
\* for good, whatever earlier failures and races left behind.
PullsSucceed ==
  Retry /\ <>(calm /\ conn.step # "gaveUp") => \A a \in Archives : <>[]Complete(a)
=============================================================================
