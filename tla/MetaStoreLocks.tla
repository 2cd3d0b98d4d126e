--------------------------- MODULE MetaStoreLocks ---------------------------
(***************************************************************************)
(* The transactions of the snapshotter's calls and the locks of the bolt   *)
(* database under them: who waits for whom, in particular for the read     *)
(* transaction that prepareNixGCRoots keeps open while the nix builder     *)
(* downloads.  What the transactions read and write is in Snapshotter.     *)
(*                                                                         *)
(* External, modelled as this code uses it: bolt's locks.                  *)
(*   rwlock    held by a writer from Begin to Commit or Rollback           *)
(*   metalock  held for a moment to begin a transaction or end a reading   *)
(*             one, but also while a reader waits for mmaplock             *)
(*   mmaplock  shared by readers from Begin to Rollback; taken by a writer *)
(*             whose Commit has to map a larger file.  A writer that waits *)
(*             for it keeps new readers out (sync.RWMutex).                *)
(***************************************************************************)
EXTENDS Naturals, Sequences

CONSTANTS
  Procs,  \* goroutines of the gRPC server, one call each
  NoProc  \* nobody

ASSUME ProcsAssumption == NoProc \notin Procs

VARIABLES
  call,      \* where each goroutine is: its step, and the parts still to do
  rwlock,    \* the goroutine that has it, or NoProc
  metalock,  \* the reader that has it while it waits for mmaplock, or NoProc
  readers,   \* the goroutines that share mmaplock
  remapper   \* the writer that waits for mmaplock or has it, or NoProc

vars == <<call, rwlock, metalock, readers, remapper>>

\* The parts of a call: "create" and "change" are write transactions of the
\* overlay snapshotter, "info" a read transaction of it; "build" is
\* prepareNixGCRoots, "bind" withNixBindMounts, "delete" the transaction of
\* Remove, "scan" that of Cleanup, and "sweep" the removal of directories.
Writing == {"create", "change", "delete", "scan"}
Reading == {"info", "build", "bind"}

\* Prepare of a nix layer; Prepare of another one, and View; Mounts; Remove;
\* Cleanup; Commit and Update; Stat, Usage and Walk.
Calls == {<<"create", "build">>, <<"create", "bind">>, <<"info", "bind">>,
          <<"delete", "sweep">>, <<"scan", "sweep">>, <<"change">>, <<"info">>}

Steps == {"idle", "next", "beginWrite", "rlock", "read", "building", "endRead",
          "write", "remap", "commit", "sweep"}
Parts == {<<>>} \cup Calls \cup {Tail(c) : c \in Calls}

At(p, step) == call[p].step = step
Part(p) == call[p].parts[1]
Goto(p, step) == call' = [call EXCEPT ![p].step = step]

\* The part is done: on to the next one, or with an error back to the client.
Done(p) == call' = [call EXCEPT ![p] = [step |-> "next", parts |-> Tail(@.parts)]]
Fail(p) == call' = [call EXCEPT ![p] = [step |-> "next", parts |-> <<>>]]

TypeOK ==
  /\ call \in [Procs -> [step : Steps, parts : Parts]]
  /\ rwlock \in Procs \cup {NoProc}
  /\ metalock \in Procs \cup {NoProc}
  /\ readers \subseteq Procs
  /\ remapper \in Procs \cup {NoProc}

Init ==
  /\ call = [p \in Procs |-> [step |-> "idle", parts |-> <<>>]]
  /\ rwlock = NoProc
  /\ metalock = NoProc
  /\ readers = {}
  /\ remapper = NoProc

-----------------------------------------------------------------------------
(* Calls                                                                   *)

Begin(p, c) ==
  /\ At(p, "idle")
  /\ call' = [call EXCEPT ![p] = [step |-> "next", parts |-> c]]
  /\ UNCHANGED <<rwlock, metalock, readers, remapper>>

Return(p) ==
  /\ At(p, "next")
  /\ call[p].parts = <<>>
  /\ Goto(p, "idle")
  /\ UNCHANGED <<rwlock, metalock, readers, remapper>>

\* The directories are removed, after the transaction that listed them
\* (lines 219-227 and 241-245).
StartSweep(p) ==
  /\ At(p, "next")
  /\ call[p].parts # <<>> /\ Part(p) = "sweep"
  /\ Goto(p, "sweep")
  /\ UNCHANGED <<rwlock, metalock, readers, remapper>>

Sweep(p) ==
  /\ At(p, "sweep")
  /\ Done(p)
  /\ UNCHANGED <<rwlock, metalock, readers, remapper>>

-----------------------------------------------------------------------------
(* Read transactions                                                       *)

\* TransactionContext(ctx, false): beginTx takes metalock ...
BeginRead(p) ==
  /\ At(p, "next")
  /\ call[p].parts # <<>> /\ Part(p) \in Reading
  /\ metalock = NoProc
  /\ metalock' = p
  /\ Goto(p, "rlock")
  /\ UNCHANGED <<rwlock, readers, remapper>>

\* ... and keeps it until it shares mmaplock.
RLock(p) ==
  /\ At(p, "rlock")
  /\ remapper = NoProc
  /\ readers' = readers \cup {p}
  /\ metalock' = NoProc
  /\ Goto(p, "read")
  /\ UNCHANGED <<rwlock, remapper>>

\* prepareNixGCRoots has found its snapshot and calls the builder, with the
\* transaction open (line 159).
StartBuilder(p) ==
  /\ At(p, "read")
  /\ Part(p) = "build"
  /\ Goto(p, "building")
  /\ UNCHANGED <<rwlock, metalock, readers, remapper>>

\* Mutant of Built: a builder that failed is tried again, for as long as it
\* takes.
BuiltRetry(p) ==
  /\ At(p, "building")
  /\ Goto(p, "endRead") \/ Goto(p, "read")
  /\ UNCHANGED <<rwlock, metalock, readers, remapper>>

\* The builder returns, for the last of the store paths or with an error.
Built(p) ==
  /\ At(p, "building")
  /\ Goto(p, "endRead")
  /\ UNCHANGED <<rwlock, metalock, readers, remapper>>

\* removeTx gives up mmaplock before it takes metalock for a moment.
GiveUpRLock(p) ==
  /\ readers' = readers \ {p}
  /\ Goto(p, "endRead")
  /\ UNCHANGED <<rwlock, metalock, remapper>>

\* Mutant of RollbackRead: an early return of withNixBindMounts does not roll
\* back.
RollbackReadUnlessMissing(p) ==
  \/ /\ At(p, "read") \/ (At(p, "endRead") /\ p \in readers)
     /\ GiveUpRLock(p)
  \/ /\ At(p, "read")
     /\ Part(p) = "bind"
     /\ Fail(p)
     /\ UNCHANGED <<rwlock, metalock, readers, remapper>>

\* The deferred Rollback, of prepareNixGCRoots (lines 133-135), also when the
\* builder failed or the snapshot was not found, and of withNixBindMounts
\* (lines 311-313).
RollbackRead(p) ==
  /\ At(p, "read") \/ (At(p, "endRead") /\ p \in readers)
  /\ GiveUpRLock(p)

\* removeTx is through; the call goes on or returns an error.
EndRead(p) ==
  /\ At(p, "endRead")
  /\ p \notin readers
  /\ metalock = NoProc
  /\ Done(p) \/ Fail(p)
  /\ UNCHANGED <<rwlock, metalock, readers, remapper>>

-----------------------------------------------------------------------------
(* Write transactions                                                      *)

\* TransactionContext(ctx, true): beginRWTx takes rwlock ...
LockWrite(p) ==
  /\ At(p, "next")
  /\ call[p].parts # <<>> /\ Part(p) \in Writing
  /\ rwlock = NoProc
  /\ rwlock' = p
  /\ Goto(p, "beginWrite")
  /\ UNCHANGED <<metalock, readers, remapper>>

\* ... and metalock for a moment.
BeginWrite(p) ==
  /\ At(p, "beginWrite")
  /\ metalock = NoProc
  /\ Goto(p, "write")
  /\ UNCHANGED <<rwlock, metalock, readers, remapper>>

\* Commit of a transaction that needs a larger file asks for mmaplock.
AskRemap(p) ==
  /\ At(p, "write")
  /\ Part(p) # "scan"
  /\ remapper' = p
  /\ Goto(p, "remap")
  /\ UNCHANGED <<rwlock, metalock, readers>>

\* All readers are gone: the file is mapped anew and mmaplock given up.
Remap(p) ==
  /\ At(p, "remap")
  /\ readers = {}
  /\ remapper' = NoProc
  /\ Goto(p, "commit")
  /\ UNCHANGED <<rwlock, metalock, readers>>

\* Commit (line 231 for Remove).
Commit(p) ==
  /\ At(p, "commit") \/ (At(p, "write") /\ Part(p) # "scan")
  /\ rwlock' = NoProc
  /\ Done(p)
  /\ UNCHANGED <<metalock, readers, remapper>>

\* Mutant of RollbackWrite: Remove returns the error of a snapshot that is
\* not found and leaves the transaction open.
RollbackWriteNotRemove(p) ==
  /\ At(p, "write")
  /\ rwlock' = IF Part(p) = "delete" THEN rwlock ELSE NoProc
  /\ IF Part(p) = "scan" THEN Done(p) \/ Fail(p) ELSE Fail(p)
  /\ UNCHANGED <<metalock, readers, remapper>>

\* Rollback after an error (lines 196-202 for Remove), and at the end of the
\* scan of Cleanup with or without one (lines 258-260).
RollbackWrite(p) ==
  /\ At(p, "write")
  /\ rwlock' = NoProc
  /\ IF Part(p) = "scan" THEN Done(p) \/ Fail(p) ELSE Fail(p)
  /\ UNCHANGED <<metalock, readers, remapper>>

-----------------------------------------------------------------------------
\* What a goroutine does on its own.
Run(p) ==
  \/ Return(p) \/ StartSweep(p) \/ Sweep(p)
  \/ StartBuilder(p) \/ Built(p) \/ RollbackRead(p)
  \/ AskRemap(p) \/ Commit(p) \/ RollbackWrite(p)

\* What it may have to wait for.
Lock(p) ==
  \/ BeginRead(p) \/ RLock(p) \/ EndRead(p)
  \/ LockWrite(p) \/ BeginWrite(p) \/ Remap(p)

Next == \E p \in Procs : Run(p) \/ Lock(p) \/ \E c \in Calls : Begin(p, c)

Spec == Init /\ [][Next]_vars

\* A goroutine that can run does, and the builder returns.  Go's mutexes are
\* handed to a waiter that starved.
Fairness == \A p \in Procs : WF_vars(Run(p)) /\ SF_vars(Lock(p))
FairSpec == Spec /\ Fairness

-----------------------------------------------------------------------------
(* Properties                                                              *)

\* Every transaction is ended on every way out of a call, errors included:
\* a goroutine holds locks in the steps between Begin and Commit or Rollback
\* alone, and removes directories "after the transaction is closed"
\* (snapshotter.go:216-218).
LocksHeld ==
  \A p \in Procs :
    /\ rwlock = p <=> call[p].step \in {"beginWrite", "write", "remap", "commit"}
    /\ metalock = p <=> At(p, "rlock")
    /\ p \in readers => call[p].step \in {"read", "building", "endRead"}
    /\ remapper = p <=> At(p, "remap")

\* Nobody waits in a circle: if calls are under way and all of them wait,
\* somebody's lock is free.  With the builder in step "building", what blocks
\* everyone is at most a builder.
SomebodyRuns ==
  LET Waiting(p) ==
        \/ At(p, "rlock") /\ remapper # NoProc
        \/ At(p, "remap") /\ readers # {}
        \/ At(p, "beginWrite") /\ metalock # NoProc
        \/ At(p, "endRead") /\ p \notin readers /\ metalock # NoProc
        \/ /\ At(p, "next")
           /\ call[p].parts # <<>>
           /\ \/ Part(p) \in Reading /\ metalock # NoProc
              \/ Part(p) \in Writing /\ rwlock # NoProc
  IN (\E p \in Procs : ~At(p, "idle")) =>
       \E p \in Procs : ~At(p, "idle") /\ ~Waiting(p)

\* Every call returns, although a reader keeps its transaction while the
\* builder runs (lines 129-163), a writer that remaps waits for it, and new
\* readers wait for the writer with metalock in their hands.
CallsReturn == \A p \in Procs : ~At(p, "idle") ~> At(p, "idle")
=============================================================================
