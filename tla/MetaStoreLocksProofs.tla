------------------------ MODULE MetaStoreLocksProofs ------------------------
(* Theorems about MetaStoreLocks, for any number of goroutines.            *)
EXTENDS MetaStoreLocks, TLAPS

\* A goroutine that is past "next" still has the part that it works on.
Working == \A p \in Procs : call[p].step \notin {"idle", "next"} => call[p].parts # <<>>

\* The inductive invariant.
IInv == TypeOK /\ Working /\ LocksHeld

-----------------------------------------------------------------------------
(* Types                                                                   *)

\* The rest of a list of two.
LEMMA PairTail == ASSUME NEW x, NEW y PROVE Tail(<<x, y>>) = <<y>>
OBVIOUS

\* The rest of a list of one.
LEMMA OneTail == ASSUME NEW x PROVE Tail(<<x>>) = <<>>
OBVIOUS

\* What is left of a call after one more of its parts.
LEMMA TailPart ==
  ASSUME NEW s \in Parts, s # <<>>
  PROVE  Tail(s) \in Parts
<1>1. CASE s \in Calls
  BY <1>1 DEF Parts
<1>2. ASSUME NEW c \in Calls, s = Tail(c)
      PROVE  Tail(s) = <<>>
  <2>1. Tail(c) \in {<<"build">>, <<"bind">>, <<"sweep">>, <<>>}
    BY PairTail, OneTail DEF Calls
  <2>2. QED
    BY <1>2, <2>1, OneTail
<1>3. QED
  BY <1>1, <1>2 DEF Parts

\* A goroutine that goes to another step of its part.
LEMMA GotoType ==
  ASSUME TypeOK, NEW p \in Procs, NEW step \in Steps, Goto(p, step)
  PROVE  /\ call' \in [Procs -> [step : Steps, parts : Parts]]
         /\ call'[p].step = step
         /\ call'[p].parts = call[p].parts
         /\ \A q \in Procs \ {p} : call'[q] = call[q]
BY DEF TypeOK, Goto

\* A goroutine that is through with a part, or returns with an error.
LEMMA DoneType ==
  ASSUME TypeOK, NEW p \in Procs, call[p].parts # <<>>, Done(p) \/ Fail(p)
  PROVE  /\ call' \in [Procs -> [step : Steps, parts : Parts]]
         /\ call'[p].step = "next"
         /\ \A q \in Procs \ {p} : call'[q] = call[q]
<1>1. call[p].parts \in Parts /\ Tail(call[p].parts) \in Parts /\ <<>> \in Parts
  BY TailPart DEF TypeOK, Parts
<1>2. PICK rest \in Parts :
        call' = [call EXCEPT ![p] = [step |-> "next", parts |-> rest]]
  BY <1>1 DEF Done, Fail
<1>3. QED
  BY <1>2 DEF TypeOK, Steps

-----------------------------------------------------------------------------
(* Locks                                                                   *)

\* Every step of a goroutine keeps the invariant.
LEMMA IInvStep == IInv /\ [Next]_vars => IInv'
<1> SUFFICES ASSUME IInv, [Next]_vars
             PROVE  IInv'
  OBVIOUS
<1> USE ProcsAssumption
<1>a. TypeOK /\ Working /\ LocksHeld
  BY DEF IInv
<1>1. ASSUME NEW p \in Procs, NEW c \in Calls, Begin(p, c)
      PROVE  IInv'
  <2>1. c \in Parts
    BY DEF Parts
  <2>2. /\ call' \in [Procs -> [step : Steps, parts : Parts]]
        /\ call'[p].step = "next"
        /\ \A q \in Procs \ {p} : call'[q] = call[q]
    BY <1>a, <1>1, <2>1 DEF Begin, TypeOK, Steps
  <2>3. QED
    BY <1>a, <1>1, <2>2 DEF Begin, At, IInv, TypeOK, Working, LocksHeld
<1>2. ASSUME NEW p \in Procs, Return(p)
      PROVE  IInv'
  <2>1. /\ call' \in [Procs -> [step : Steps, parts : Parts]]
        /\ call'[p].step = "idle"
        /\ call'[p].parts = call[p].parts
        /\ \A q \in Procs \ {p} : call'[q] = call[q]
    BY <1>a, <1>2, GotoType DEF Return, Steps
  <2>2. QED
    BY <1>a, <1>2, <2>1 DEF Return, At, IInv, TypeOK, Working, LocksHeld
<1>3. ASSUME NEW p \in Procs, StartSweep(p)
      PROVE  IInv'
  <2>1. /\ call' \in [Procs -> [step : Steps, parts : Parts]]
        /\ call'[p].step = "sweep"
        /\ call'[p].parts = call[p].parts
        /\ \A q \in Procs \ {p} : call'[q] = call[q]
    BY <1>a, <1>3, GotoType DEF StartSweep, Steps
  <2>2. QED
    BY <1>a, <1>3, <2>1 DEF StartSweep, At, IInv, TypeOK, Working, LocksHeld
<1>4. ASSUME NEW p \in Procs, BeginRead(p)
      PROVE  IInv'
  <2>1. /\ call' \in [Procs -> [step : Steps, parts : Parts]]
        /\ call'[p].step = "rlock"
        /\ call'[p].parts = call[p].parts
        /\ \A q \in Procs \ {p} : call'[q] = call[q]
    BY <1>a, <1>4, GotoType DEF BeginRead, Steps
  <2>2. QED
    BY <1>a, <1>4, <2>1 DEF BeginRead, At, IInv, TypeOK, Working, LocksHeld
<1>5. ASSUME NEW p \in Procs, RLock(p)
      PROVE  IInv'
  <2>1. /\ call' \in [Procs -> [step : Steps, parts : Parts]]
        /\ call'[p].step = "read"
        /\ call'[p].parts = call[p].parts
        /\ \A q \in Procs \ {p} : call'[q] = call[q]
    BY <1>a, <1>5, GotoType DEF RLock, Steps
  <2>2. QED
    BY <1>a, <1>5, <2>1 DEF RLock, At, IInv, TypeOK, Working, LocksHeld
<1>6. ASSUME NEW p \in Procs, StartBuilder(p)
      PROVE  IInv'
  <2>1. /\ call' \in [Procs -> [step : Steps, parts : Parts]]
        /\ call'[p].step = "building"
        /\ call'[p].parts = call[p].parts
        /\ \A q \in Procs \ {p} : call'[q] = call[q]
    BY <1>a, <1>6, GotoType DEF StartBuilder, Steps
  <2>2. QED
    BY <1>a, <1>6, <2>1 DEF StartBuilder, At, IInv, TypeOK, Working, LocksHeld
<1>7. ASSUME NEW p \in Procs, Built(p)
      PROVE  IInv'
  <2>1. /\ call' \in [Procs -> [step : Steps, parts : Parts]]
        /\ call'[p].step = "endRead"
        /\ call'[p].parts = call[p].parts
        /\ \A q \in Procs \ {p} : call'[q] = call[q]
    BY <1>a, <1>7, GotoType DEF Built, Steps
  <2>2. QED
    BY <1>a, <1>7, <2>1 DEF Built, At, IInv, TypeOK, Working, LocksHeld
<1>8. ASSUME NEW p \in Procs, LockWrite(p)
      PROVE  IInv'
  <2>1. /\ call' \in [Procs -> [step : Steps, parts : Parts]]
        /\ call'[p].step = "beginWrite"
        /\ call'[p].parts = call[p].parts
        /\ \A q \in Procs \ {p} : call'[q] = call[q]
    BY <1>a, <1>8, GotoType DEF LockWrite, Steps
  <2>2. QED
    BY <1>a, <1>8, <2>1 DEF LockWrite, At, IInv, TypeOK, Working, LocksHeld
<1>9. ASSUME NEW p \in Procs, BeginWrite(p)
      PROVE  IInv'
  <2>1. /\ call' \in [Procs -> [step : Steps, parts : Parts]]
        /\ call'[p].step = "write"
        /\ call'[p].parts = call[p].parts
        /\ \A q \in Procs \ {p} : call'[q] = call[q]
    BY <1>a, <1>9, GotoType DEF BeginWrite, Steps
  <2>2. QED
    BY <1>a, <1>9, <2>1 DEF BeginWrite, At, IInv, TypeOK, Working, LocksHeld
<1>10. ASSUME NEW p \in Procs, AskRemap(p)
      PROVE  IInv'
  <2>1. /\ call' \in [Procs -> [step : Steps, parts : Parts]]
        /\ call'[p].step = "remap"
        /\ call'[p].parts = call[p].parts
        /\ \A q \in Procs \ {p} : call'[q] = call[q]
    BY <1>a, <1>10, GotoType DEF AskRemap, Steps
  <2>2. QED
    BY <1>a, <1>10, <2>1 DEF AskRemap, At, IInv, TypeOK, Working, LocksHeld
<1>11. ASSUME NEW p \in Procs, Remap(p)
      PROVE  IInv'
  <2>1. /\ call' \in [Procs -> [step : Steps, parts : Parts]]
        /\ call'[p].step = "commit"
        /\ call'[p].parts = call[p].parts
        /\ \A q \in Procs \ {p} : call'[q] = call[q]
    BY <1>a, <1>11, GotoType DEF Remap, Steps
  <2>2. QED
    BY <1>a, <1>11, <2>1 DEF Remap, At, IInv, TypeOK, Working, LocksHeld
<1>12. ASSUME NEW p \in Procs, RollbackRead(p)
      PROVE  IInv'
  <2>1. /\ call' \in [Procs -> [step : Steps, parts : Parts]]
        /\ call'[p].step = "endRead"
        /\ call'[p].parts = call[p].parts
        /\ \A q \in Procs \ {p} : call'[q] = call[q]
    BY <1>a, <1>12, GotoType DEF RollbackRead, GiveUpRLock, Steps
  <2>2. QED
    BY <1>a, <1>12, <2>1
       DEF RollbackRead, GiveUpRLock, At, IInv, TypeOK, Working, LocksHeld
<1>13. ASSUME NEW p \in Procs, Sweep(p)
      PROVE  IInv'
  <2>1. call[p].parts # <<>> /\ (Done(p) \/ Fail(p))
    BY <1>a, <1>13 DEF Sweep, At, Working
  <2>2. /\ call' \in [Procs -> [step : Steps, parts : Parts]]
        /\ call'[p].step = "next"
        /\ \A q \in Procs \ {p} : call'[q] = call[q]
    BY <1>a, <2>1, DoneType
  <2>3. QED
    BY <1>a, <1>13, <2>2 DEF Sweep, At, IInv, TypeOK, Working, LocksHeld
<1>14. ASSUME NEW p \in Procs, EndRead(p)
      PROVE  IInv'
  <2>1. call[p].parts # <<>> /\ (Done(p) \/ Fail(p))
    BY <1>a, <1>14 DEF EndRead, At, Working
  <2>2. /\ call' \in [Procs -> [step : Steps, parts : Parts]]
        /\ call'[p].step = "next"
        /\ \A q \in Procs \ {p} : call'[q] = call[q]
    BY <1>a, <2>1, DoneType
  <2>3. QED
    BY <1>a, <1>14, <2>2 DEF EndRead, At, IInv, TypeOK, Working, LocksHeld
<1>15. ASSUME NEW p \in Procs, Commit(p)
      PROVE  IInv'
  <2>1. call[p].parts # <<>> /\ (Done(p) \/ Fail(p))
    BY <1>a, <1>15 DEF Commit, At, Working
  <2>2. /\ call' \in [Procs -> [step : Steps, parts : Parts]]
        /\ call'[p].step = "next"
        /\ \A q \in Procs \ {p} : call'[q] = call[q]
    BY <1>a, <2>1, DoneType
  <2>3. QED
    BY <1>a, <1>15, <2>2 DEF Commit, At, IInv, TypeOK, Working, LocksHeld
<1>16. ASSUME NEW p \in Procs, RollbackWrite(p)
      PROVE  IInv'
  <2>1. call[p].parts # <<>> /\ (Done(p) \/ Fail(p))
    BY <1>a, <1>16 DEF RollbackWrite, At, Working
  <2>2. /\ call' \in [Procs -> [step : Steps, parts : Parts]]
        /\ call'[p].step = "next"
        /\ \A q \in Procs \ {p} : call'[q] = call[q]
    BY <1>a, <2>1, DoneType
  <2>3. QED
    BY <1>a, <1>16, <2>2 DEF RollbackWrite, At, IInv, TypeOK, Working, LocksHeld
<1>17. CASE UNCHANGED vars
  BY <1>a, <1>17 DEF vars, At, IInv, TypeOK, Working, LocksHeld
<1>18. QED
  BY <1>1, <1>2, <1>3, <1>4, <1>5, <1>6, <1>7, <1>8, <1>9,
     <1>10, <1>11, <1>12, <1>13, <1>14, <1>15, <1>16, <1>17
     DEF Next, Run, Lock

\* Every way out of a call ends its transactions: whatever fails, a goroutine
\* holds bolt's locks in the steps of a transaction alone, for any number of
\* calls at a time (snapshotter.go:133-135, 196-202, 258-260, 311-313).
THEOREM LocksKept == Spec => []LocksHeld
<1>1. Init => IInv
  BY ProcsAssumption DEF Init, IInv, TypeOK, Working, LocksHeld, At, Steps, Parts
<1>2. IInv => LocksHeld
  BY DEF IInv
<1>3. QED
  BY <1>1, <1>2, IInvStep, PTL DEF Spec

\* Locks, steps and the parts of a call that are left have their types in
\* every behaviour.
THEOREM TypeCorrect == Spec => []TypeOK
<1>1. Init => IInv
  BY ProcsAssumption DEF Init, IInv, TypeOK, Working, LocksHeld, At, Steps, Parts
<1>2. IInv => TypeOK
  BY DEF IInv
<1>3. QED
  BY <1>1, <1>2, IInvStep, PTL DEF Spec

-----------------------------------------------------------------------------
(* No circle of waiting                                                    *)

\* What a goroutine may wait for: a lock that another one has.
WaitsFor(p) ==
  \/ At(p, "rlock") /\ remapper # NoProc
  \/ At(p, "remap") /\ readers # {}
  \/ At(p, "beginWrite") /\ metalock # NoProc
  \/ At(p, "endRead") /\ p \notin readers /\ metalock # NoProc
  \/ /\ At(p, "next")
     /\ \/ metalock # NoProc
        \/ rwlock # NoProc

\* Whoever shares mmaplock is about to give it up, and waits for nobody.
LEMMA ReaderRuns ==
  ASSUME IInv, readers # {}
  PROVE  \E p \in Procs : ~At(p, "idle") /\ ~WaitsFor(p)
<1>1. PICK p \in readers : p \in Procs
  BY DEF IInv, TypeOK
<1>2. call[p].step \in {"read", "building", "endRead"}
  BY <1>1 DEF IInv, LocksHeld
<1>3. QED
  BY <1>1, <1>2 DEF At, WaitsFor

\* A writer that remaps waits for readers alone.
LEMMA RemapperRuns ==
  ASSUME IInv, remapper # NoProc
  PROVE  \E p \in Procs : ~At(p, "idle") /\ ~WaitsFor(p)
<1>1. remapper \in Procs /\ At(remapper, "remap")
  BY DEF IInv, TypeOK, LocksHeld
<1>2. CASE readers = {}
  BY <1>1, <1>2 DEF At, WaitsFor
<1>3. QED
  BY <1>2, ReaderRuns

\* Whoever has metalock waits for a writer that remaps, or for nobody.
LEMMA MetaLockRuns ==
  ASSUME IInv, metalock # NoProc
  PROVE  \E p \in Procs : ~At(p, "idle") /\ ~WaitsFor(p)
<1>1. metalock \in Procs /\ At(metalock, "rlock")
  BY DEF IInv, TypeOK, LocksHeld
<1>2. CASE remapper = NoProc
  BY <1>1, <1>2 DEF At, WaitsFor
<1>3. QED
  BY <1>2, RemapperRuns

\* A writer waits for metalock, for readers, or for nobody.
LEMMA WriterRuns ==
  ASSUME IInv, rwlock # NoProc, metalock = NoProc, readers = {}
  PROVE  \E p \in Procs : ~At(p, "idle") /\ ~WaitsFor(p)
<1>1. /\ rwlock \in Procs
      /\ call[rwlock].step \in {"beginWrite", "write", "remap", "commit"}
  BY DEF IInv, TypeOK, LocksHeld
<1>2. QED
  BY <1>1 DEF At, WaitsFor

\* The locks are ordered: rwlock before metalock, metalock before mmaplock as a
\* reader, mmaplock as a writer before the readers that share it.  So if calls
\* are under way, one of them can go on, for any number of calls: a reader
\* that keeps its transaction while the builder runs (snapshotter.go:129-163)
\* delays the others but closes no circle.
THEOREM NoCircle == Spec => []SomebodyRuns
<1>1. IInv => SomebodyRuns
  <2> SUFFICES ASSUME IInv, NEW p \in Procs, ~At(p, "idle")
               PROVE  \E q \in Procs : ~At(q, "idle") /\ ~WaitsFor(q)
    BY DEF SomebodyRuns, WaitsFor
  <2>1. CASE metalock # NoProc
    BY <2>1, MetaLockRuns
  <2>2. CASE readers # {}
    BY <2>2, ReaderRuns
  <2>3. CASE rwlock # NoProc /\ metalock = NoProc /\ readers = {}
    BY <2>3, WriterRuns
  <2>4. CASE rwlock = NoProc /\ metalock = NoProc /\ readers = {}
    <3>1. ~At(p, "rlock")
      BY <2>4, ProcsAssumption DEF IInv, LocksHeld
    <3>2. QED
      BY <2>4, <3>1 DEF WaitsFor
  <2>5. QED
    BY <2>1, <2>2, <2>3, <2>4
<1>2. Init => IInv
  BY ProcsAssumption DEF Init, IInv, TypeOK, Working, LocksHeld, At, Steps, Parts
<1>3. QED
  BY <1>1, <1>2, IInvStep, PTL DEF Spec
=============================================================================
