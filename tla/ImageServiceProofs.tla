------------------------- MODULE ImageServiceProofs -------------------------
(***************************************************************************)
(* Proofs about ImageService, for any number of goroutines and archives:   *)
(* the mutex is held by who uses it, and the client that Load gets without *)
(* the mutex is never nil.                                                 *)
(***************************************************************************)
EXTENDS ImageService, TLAPS

\* What the goroutines of the gRPC server may be doing.
Calling == [Procs -> [step : Steps, op : Ops, archive : Archives]]

\* A goroutine that moves leaves the others where they are.
LEMMA GotoType ==
  ASSUME call \in Calling, NEW p \in Procs, NEW s \in Steps, Goto(p, s)
  PROVE  /\ call' \in Calling
         /\ call'[p].step = s
         /\ \A q \in Procs \ {p} : call'[q] = call[q]
BY DEF Calling, Goto

\* The mutex is held by the connector in its critical section, by a goroutine
\* in getClient, or by nobody (image_service.go:58-61 and 75-77).
THEOREM TypeCorrect == Spec => []TypeOK
<1>1. Init => TypeOK
  <2> SUFFICES ASSUME Init PROVE TypeOK
    OBVIOUS
  <2>1. \A p \in Procs : mu # p /\ mu # Connector
    BY ProcsAssumption DEF Init, Nobody, Connector
  <2>2. conn.step = "dial" /\ conn.failed = 0
    BY DEF Init
  <2>3. /\ \A p \in Procs : call[p].step = "idle"
        /\ call \in [Procs -> [step : Steps, op : Ops, archive : Archives]]
    BY DEF Init, Steps, Ops
  <2>4. mu \in Procs \cup {Nobody, Connector} /\ mu # Connector
    BY DEF Init, Nobody, Connector
  <2>5. /\ up \in BOOLEAN /\ calm \in BOOLEAN /\ client \in BOOLEAN /\ cri \in BOOLEAN
        /\ archives \subseteq Archives /\ images \subseteq Archives /\ content \subseteq Archives
    BY DEF Init
  <2>6. conn \in [step : {"dial", "lock", "setClient", "setCRI", "connected", "gaveUp"},
                 failed : 0..Attempts]
    BY AttemptsAssumption DEF Init
  <2>7. conn.failed < Attempts
    BY <2>2, AttemptsAssumption
  <2> QED
    BY <2>1, <2>2, <2>3, <2>4, <2>5, <2>6, <2>7 DEF TypeOK
<1>2. TypeOK /\ [Next]_vars => TypeOK'
  <2> SUFFICES ASSUME TypeOK, [Next]_vars PROVE TypeOK'
    OBVIOUS
  <2> USE DEF TypeOK
  <2>1. CASE Connect
    <3>1. Procs \cap {Nobody, Connector} = {} /\ Nobody # Connector
      BY ProcsAssumption DEF Nobody, Connector
    <3>2. CASE Dial
      <4>1. conn.failed \in Nat /\ conn.failed < Attempts /\ Attempts \in Nat
        BY <3>2, AttemptsAssumption DEF Dial
      <4>2. CASE up
        BY <3>2, <4>2 DEF Dial
      <4>3. CASE ~up
        <5> DEFINE last == conn.failed + 1 = Attempts
        <5>1. conn' = [step |-> IF last THEN "gaveUp" ELSE "dial",
                       failed |-> conn.failed + 1]
          BY <3>2, <4>3 DEF Dial
        <5>2. conn.failed + 1 \in 0..Attempts /\ (~last => conn.failed + 1 < Attempts)
          BY <4>1
        <5>3. /\ conn' \in [step : {"dial", "gaveUp"}, failed : 0..Attempts]
              /\ conn'.step = "dial" => conn'.failed < Attempts
          BY <5>1, <5>2
        <5> HIDE DEF last
        <5> QED BY <3>2, <5>3 DEF Dial
      <4> QED BY <4>2, <4>3
    <3>3. CASE LockMu
      BY <3>3, <3>1 DEF LockMu
    <3>4. CASE SetClient
      BY <3>4 DEF SetClient
    <3>5. CASE SetCRI
      BY <3>5, <3>1 DEF SetCRI
    <3> QED
      BY <2>1, <3>2, <3>3, <3>4, <3>5 DEF Connect
  <2>2. ASSUME NEW p \in Procs, Continue(p) PROVE TypeOK'
    <3>1. Procs \cap {Nobody, Connector} = {} /\ Nobody # Connector
      BY ProcsAssumption DEF Nobody, Connector
    <3>2. CASE Lock(p)
      <4>1. Goto(p, "read") BY <3>2 DEF Lock
      <4> QED BY <3>1, <3>2, <4>1, GotoType DEF Lock, Calling, Steps
    <3>3. CASE Read(p)
      <4>1. PICK s \in {"failed", "stat", "forward"} : Goto(p, s)
        BY <3>3 DEF Read
      <4> QED BY <3>1, <3>3, <4>1, GotoType DEF Read, Calling, Steps
    <3>4. CASE ~Lock(p) /\ ~Read(p)
      <4>1. /\ call[p].step # "read"
            /\ \E s \in Steps \ {"read"} : Goto(p, s)
            /\ UNCHANGED <<calm, conn, mu, client, cri, up>>
            /\ archives' \subseteq Archives
            /\ images' \subseteq Archives
            /\ content' \subseteq Archives
        BY <2>2, <3>4 DEF Continue, Forward, Stat, BuildArchive, OpenArchive,
             Transfer, GetImage, StoreImage, ReadConfig, Steps
      <4> QED BY <3>1, <4>1, GotoType DEF Calling
    <3> QED BY <3>2, <3>3, <3>4
  <2>3. ASSUME NEW p \in Procs, NEW op \in Ops, NEW a \in Archives, Begin(p, op, a)
        PROVE  TypeOK'
    BY <2>3 DEF Begin, Steps
  <2>4. CASE Toggle
    BY <2>4 DEF Toggle
  <2>5. CASE CalmDown
    BY <2>5 DEF CalmDown
  <2>6. ASSUME NEW a \in Archives, CollectArchive(a) PROVE TypeOK'
    BY <2>6 DEF CollectArchive
  <2>7. CASE UNCHANGED vars
    BY <2>7 DEF vars
  <2> QED BY <2>1, <2>2, <2>3, <2>4, <2>5, <2>6, <2>7 DEF Next
<1> QED BY <1>1, <1>2, PTL DEF Spec

-----------------------------------------------------------------------------
\* Steps of a call that getClient has let through.
Served == Loading \cup {"forward", "stat", "build", "open"}

\* The CRI client is set after the other one, and a call is let through only
\* once it is set.
Handed ==
  /\ cri => client
  /\ conn.step = "setCRI" => client
  /\ \A p \in Procs : call[p].step \in Served => cri
  /\ \A p \in Procs : call[p].step # "panic"

\* is.client is never nil at line 132, although it is read without the mutex.
THEOREM ClientSet == Spec => []NoNilClient
<1>1. Init => Handed
  BY DEF Init, Handed, Served, Loading
<1>2. TypeOK /\ Handed /\ [Next]_vars => Handed'
  <2> SUFFICES ASSUME TypeOK, Handed, [Next]_vars PROVE Handed'
    OBVIOUS
  <2> USE DEF Handed
  <2>0. call \in Calling
    BY DEF TypeOK, Calling
  <2>1. CASE Connect
    BY <2>1 DEF Connect, Dial, LockMu, SetClient, SetCRI, TypeOK
  <2>2. ASSUME NEW p \in Procs, Continue(p) PROVE Handed'
    <3>1. /\ UNCHANGED <<conn, client, cri>>
          /\ \E s \in Steps : /\ Goto(p, s)
                              /\ s \in Served => cri
                              /\ s # "panic"
      BY <2>2 DEF Continue, Lock, Read, Forward, Stat, BuildArchive, OpenArchive,
           Transfer, GetImage, StoreImage, ReadConfig, Steps, Served, Loading
    <3> QED BY <2>0, <3>1, GotoType
  <2>3. ASSUME NEW p \in Procs, NEW op \in Ops, NEW a \in Archives, Begin(p, op, a)
        PROVE  Handed'
    BY <2>0, <2>3 DEF Begin, Calling, Served, Loading
  <2>4. CASE Toggle \/ CalmDown \/ (\E a \in Archives : CollectArchive(a)) \/ UNCHANGED vars
    BY <2>4 DEF Toggle, CalmDown, CollectArchive, vars
  <2> QED BY <2>1, <2>2, <2>3, <2>4 DEF Next
<1>3. Handed => NoNilClient
  BY DEF Handed, NoNilClient, Served
<1> QED BY <1>1, <1>2, <1>3, TypeCorrect, PTL DEF Spec
=============================================================================
