----------------------------- MODULE PushProofs -----------------------------
(* Theorems about Push, for any domains, hosts and Docker configs.         *)
EXTENDS Push, TLAPS

-----------------------------------------------------------------------------
(* The invariants                                                          *)

\* The registry is Docker Hub, under one of its names.
Hub == req.domain \in {DockerIO, DockerHost}

\* The names still to look up are a rest of AuthConfigHostnames.
NamesInv ==
  \/ names = <<>>
  \/ names = <<req.domain>>
  \/ Hub /\ names = <<IndexServer, req.domain>>

\* Hosts are answered from credentials that do not change any more, and that
\* are of the registry, with its scheme.
HomeInv ==
  /\ asked # {} => step \in {"push", "done", "failed"}
  /\ creds.server \in NamesOf(req.domain) \cup {NoAddress}
  /\ scheme = "http" => req.plainHTTP \/ req.domain \in Localhosts

\* The entry that `docker login` makes for the registry, and whether it can
\* be used.
Login == config[IF Hub THEN IndexServer ELSE req.domain]
Usable == Login # Broken /\ Secret(Login) # "none"

\* A login that can be used is the first entry that is looked at, and kept.
LoginInv ==
  Usable =>
    /\ step = "lookUp" =>
         \/ names = AuthConfigHostnames(req.domain)
         \/ names = <<>> /\ creds = Login
    /\ step = "push" => creds = Login

\* The inductive invariant.
IInv == TypeOK /\ NamesInv /\ HomeInv /\ SecretsStayHome /\ LoginInv /\ LoginUsed

-----------------------------------------------------------------------------
(* Operators                                                               *)

\* The names of a registry are its domain and, for Docker Hub, IndexServer.
LEMMA NamesOfDomain ==
  NamesOf(req.domain) = IF Hub THEN {IndexServer, req.domain} ELSE {req.domain}
BY DEF NamesOf, ToSet, AuthConfigHostnames, Hub

\* The names of a domain are a sequence of names.
LEMMA HostnamesType ==
  ASSUME NEW domain \in Domains
  PROVE  AuthConfigHostnames(domain) \in Seq(Domains \cup {IndexServer})
<1> DEFINE N == Domains \cup {IndexServer}
<1>1. <<domain>> \in Seq(N) /\ <<IndexServer, domain>> \in Seq(N)
  <2> HIDE DEF N
  <2>1. \A x, y \in N : <<x>> \in Seq(N) /\ <<x, y>> \in Seq(N)
    OBVIOUS
  <2>2. QED
    BY <2>1 DEF N
<1>2. QED
  BY <1>1 DEF AuthConfigHostnames

\* An entry with a secret to send is not empty.
LEMMA SecretNotEmpty ==
  ASSUME NEW entry, Secret(entry) # "none"
  PROVE  ~IsEmpty(entry)
BY DEF Secret, IsEmpty

\* One turn of the loop is about a name of the registry, and the first turn
\* about that of the login.
LEMMA HeadName ==
  ASSUME NamesInv, names # <<>>
  PROVE  /\ Head(names) \in NamesOf(req.domain)
         /\ Head(names) \in {IndexServer, req.domain}
         /\ Tail(names) = <<>> \/ Tail(names) = <<req.domain>>
         /\ names = AuthConfigHostnames(req.domain) => config[Head(names)] = Login
<1>1. CASE names = <<req.domain>>
  BY <1>1, NamesOfDomain DEF AuthConfigHostnames, Hub, Login
<1>2. CASE Hub /\ names = <<IndexServer, req.domain>>
  BY <1>2, NamesOfDomain DEF AuthConfigHostnames, Hub, Login
<1>3. QED
  BY <1>1, <1>2 DEF NamesInv

-----------------------------------------------------------------------------
(* The steps                                                               *)

\* The loop over names takes an entry of the registry, and the login if it can
\* be used.
LEMMA LookUpStep ==
  ASSUME IInv, LookUp
  PROVE  IInv'
<1> DEFINE entry == config[Head(names)]
<1>1. /\ step = "lookUp" /\ asked = {} /\ names # <<>>
      /\ UNCHANGED <<req, config, scheme, asked>>
  BY DEF LookUp, IInv, HomeInv
<1>2. /\ Head(names) \in NamesOf(req.domain)
      /\ Head(names) \in {IndexServer, req.domain}
      /\ Tail(names) = <<>> \/ Tail(names) = <<req.domain>>
      /\ names = AuthConfigHostnames(req.domain) => entry = Login
  BY <1>1, HeadName DEF IInv
<1>3. entry \in Entry \cup {Empty, Broken}
  BY <1>2 DEF IInv, TypeOK
<1>4. Usable => entry = Login /\ ~IsEmpty(entry) /\ entry # Broken
  BY <1>1, <1>2, SecretNotEmpty DEF IInv, LoginInv, Usable
<1>5. Usable' = Usable /\ Login' = Login /\ Hub' = Hub
  BY <1>1 DEF Usable, Login, Hub
<1>6. SecretsStayHome' /\ LoginUsed'
  BY <1>1 DEF SecretsStayHome, LoginUsed
<1>7. CASE IsEmpty(entry) \/ entry = Broken
  <2>1. names' = Tail(names) /\ UNCHANGED <<step, creds>>
    BY <1>7 DEF LookUp
  <2>2. TypeOK'
    BY <1>1, <1>2, <2>1 DEF IInv, TypeOK
  <2>3. NamesInv' /\ HomeInv' /\ LoginInv'
    BY <1>1, <1>2, <1>4, <1>5, <1>7, <2>1
       DEF IInv, NamesInv, HomeInv, LoginInv, NamesOf
  <2>4. QED
    BY <1>6, <2>2, <2>3 DEF IInv
<1>8. CASE ~IsEmpty(entry) /\ entry # Broken /\ Mismatch(Head(names), entry)
  <2>1. step' = "failed" /\ UNCHANGED <<names, creds>>
    BY <1>8 DEF LookUp, Goto
  <2>2. TypeOK'
    BY <1>1, <2>1 DEF IInv, TypeOK, Steps
  <2>3. NamesInv' /\ HomeInv' /\ LoginInv'
    BY <1>1, <1>5, <2>1 DEF IInv, NamesInv, HomeInv, LoginInv, NamesOf
  <2>4. QED
    BY <1>6, <2>2, <2>3 DEF IInv
<1>9. CASE ~IsEmpty(entry) /\ entry # Broken /\ ~Mismatch(Head(names), entry)
  <2>1. creds' = entry /\ names' = <<>> /\ UNCHANGED step
    BY <1>9 DEF LookUp
  <2>2. TypeOK'
    BY <1>1, <1>3, <1>9, <2>1 DEF IInv, TypeOK
  <2>3. entry.server \in {NoAddress, Head(names)}
    BY <1>9 DEF Mismatch
  <2>4. NamesInv' /\ HomeInv' /\ LoginInv'
    BY <1>1, <1>2, <1>4, <1>5, <2>1, <2>3
       DEF IInv, NamesInv, HomeInv, LoginInv, NamesOf
  <2>5. QED
    BY <1>6, <2>2, <2>4 DEF IInv
<1>10. QED
  BY <1>7, <1>8, <1>9

\* A challenge is answered with the secret of the credentials, to the
\* registry alone if there is one.
LEMMA ChallengeStep ==
  ASSUME IInv, NEW host \in Hosts, Challenge(host)
  PROVE  IInv'
<1> DEFINE answer == [host |-> host, secret |-> Secret(creds), scheme |-> SchemeOf(host)]
<1>1. step = "push" /\ UNCHANGED <<req, config, names, creds, scheme>>
  BY DEF Challenge
<1>2. Usable' = Usable /\ Login' = Login /\ Hub' = Hub
  BY <1>1 DEF Usable, Login, Hub
<1>3. NamesInv'
  BY <1>1, <1>2 DEF IInv, NamesInv
<1>4. CASE IsEmpty(creds) \/ host = DefaultHost(req.domain)
  <2>1. asked' = asked \cup {answer} /\ UNCHANGED step
    BY <1>4 DEF Challenge
  <2>2. answer \in Answer
    BY DEF Answer, Secret, Secrets, SchemeOf, IInv, TypeOK
  <2>3. TypeOK'
    BY <1>1, <2>1, <2>2 DEF IInv, TypeOK
  <2>4. HomeInv' /\ LoginInv'
    BY <1>1, <1>2, <2>1 DEF IInv, HomeInv, LoginInv, NamesOf
  <2>5. SecretsStayHome'
    <3>1. answer.secret # "none" => answer.host = DefaultHost(req.domain)
      BY <1>4, SecretNotEmpty
    <3>2. answer.scheme = "http" => req.plainHTTP \/ req.domain \in Localhosts
      BY DEF IInv, HomeInv, SchemeOf
    <3>3. creds.server \in NamesOf(req.domain) \cup {NoAddress}
      BY DEF IInv, HomeInv
    <3>4. QED
      BY <1>1, <2>1, <3>1, <3>2, <3>3 DEF IInv, SecretsStayHome, NamesOf
  <2>6. LoginUsed'
    <3>1. Usable => answer.secret = Secret(Login)
      BY <1>1 DEF IInv, LoginInv
    <3>2. QED
      BY <1>1, <2>1, <3>1 DEF IInv, LoginUsed, Usable, Login, Hub
  <2>7. QED
    BY <1>3, <2>3, <2>4, <2>5, <2>6 DEF IInv
<1>5. CASE ~(IsEmpty(creds) \/ host = DefaultHost(req.domain))
  <2>1. step' = "failed" /\ UNCHANGED asked
    BY <1>5 DEF Challenge, Goto
  <2>2. QED
    BY <1>1, <1>2, <1>3, <2>1 DEF IInv, TypeOK, Steps, HomeInv, LoginInv,
       SecretsStayHome, LoginUsed, NamesOf
<1>6. QED
  BY <1>4, <1>5

\* Every step keeps the invariants.
LEMMA IInvStep == IInv /\ [Next]_vars => IInv'
<1> SUFFICES ASSUME IInv, [Next]_vars
             PROVE  IInv'
  OBVIOUS
<1> USE DEF IInv, TypeOK, Steps, NamesInv, HomeInv, SecretsStayHome, LoginInv,
            LoginUsed, NamesOf, Usable, Login, Hub
<1>1. CASE ImportArchive
  BY <1>1 DEF ImportArchive, Goto
<1>2. CASE ParseRef
  BY <1>2 DEF ParseRef, Goto
<1>3. CASE LoadConfig
  <2>1. AuthConfigHostnames(req.domain) \in Seq(Domains \cup {IndexServer})
    BY HostnamesType
  <2>2. QED
    BY <1>3, <2>1 DEF LoadConfig, Goto, AuthConfigHostnames
<1>4. CASE LookUp
  BY <1>4, LookUpStep
<1>5. CASE ChooseScheme
  BY <1>5 DEF ChooseScheme, Goto, AuthConfigHostnames
<1>6. ASSUME NEW host \in Hosts, Challenge(host)
      PROVE  IInv'
  BY <1>6, ChallengeStep
<1>7. CASE Finish
  BY <1>7 DEF Finish, Goto
<1>8. CASE UNCHANGED vars
  BY <1>8 DEF vars
<1>9. QED
  BY <1>1, <1>2, <1>3, <1>4, <1>5, <1>6, <1>7, <1>8 DEF Next

\* The command starts with nothing looked up and nobody answered.
LEMMA IInvInit == Init => IInv
BY DEF Init, IInv, TypeOK, Steps, NamesInv, HomeInv, SecretsStayHome, LoginInv,
       LoginUsed, Empty

-----------------------------------------------------------------------------
(* The theorems                                                            *)

\* What is looked up, chosen and answered has its type in every behaviour.
THEOREM TypeCorrect == Spec => []TypeOK
<1>1. IInv => TypeOK
  BY DEF IInv
<1>2. QED
  BY <1>1, IInvInit, IInvStep, PTL DEF Spec

\* No challenge of another host is answered with a secret, nor one in plain
\* HTTP unasked,
\* for any set of hosts and domains, any answers of the Docker config and any
\* redirections (dockerconfigresolver.go:181-237).
THEOREM StaysHome == Spec => []SecretsStayHome
<1>1. IInv => SecretsStayHome
  BY DEF IInv
<1>2. QED
  BY <1>1, IInvInit, IInvStep, PTL DEF Spec

\* A usable login for the registry is what the registry gets, whatever else
\* the Docker config holds (dockerconfigresolver.go:188-237).
THEOREM LoginKept == Spec => []LoginUsed
<1>1. IInv => LoginUsed
  BY DEF IInv
<1>2. QED
  BY <1>1, IInvInit, IInvStep, PTL DEF Spec
=============================================================================
