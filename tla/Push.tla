-------------------------------- MODULE Push --------------------------------
(***************************************************************************)
(* `nix2container push`: an archive is imported into a temporary store and *)
(* pushed to the registry of a reference, with the credentials that        *)
(* `docker login` left in the Docker config (pkg/nix2container/push.go,    *)
(* pkg/dockerconfigresolver).                                              *)
(*                                                                         *)
(* External: the Docker config or its credential helper, which answer for  *)
(* a name, and the registry, which challenges the pusher for credentials   *)
(* and may redirect it to another host.                                    *)
(***************************************************************************)
EXTENDS Sequences, SequencesExt

CONSTANTS
  Domains,     \* what references may name
  Strangers,   \* other hosts, to which a registry may redirect
  Localhosts,  \* domains that docker.MatchLocalhost accepts
  Kinds        \* sets of secrets an entry may have

\* Host names, and the names under which the Docker config has an entry.
DockerIO == "docker.io"
DockerHost == "registry-1.docker.io"
IndexServer == "https://index.docker.io/v1/"
Hosts == Domains \cup Strangers \cup {DockerHost}

\* The server address of an entry, as the host name part of it.
NoAddress == ""
Addresses == Domains \cup Strangers \cup {IndexServer, NoAddress}

Secrets == {"password", "identity", "registryToken"}

ASSUME KindsAssumption == Kinds \subseteq SUBSET Secrets
ASSUME LocalAssumption == Localhosts \subseteq Domains

\* What GetAuthConfig returns for a name: an error (Broken) or an entry with
\* its address, which is empty for helpers such as that of Amazon ECR.
Entry == [has : Kinds, server : Addresses]
Empty == [has |-> {}, server |-> NoAddress]
Broken == [has |-> {"error"}, server |-> NoAddress]

VARIABLES
  req,     \* the command: domain, plain HTTP or not
  config,  \* the answer of the Docker config for each name
  step,    \* what the command does next
  names,   \* the names still to look up (authConfigHostnames)
  creds,   \* what credFunc hands out: an entry, or Empty if it is nil
  scheme,  \* http or https
  asked    \* hosts that were answered: host, secret and scheme

vars == <<req, config, step, names, creds, scheme, asked>>

Steps == {"import", "parse", "load", "lookUp", "push", "done", "failed"}
Answer == [host : Hosts, secret : Secrets \cup {"none"}, scheme : {"http", "https"}]

TypeOK ==
  /\ req \in [domain : Domains, plainHTTP : BOOLEAN]
  /\ config \in [{IndexServer, req.domain} -> Entry \cup {Empty, Broken}]
  /\ step \in Steps
  /\ names \in Seq(Domains \cup {IndexServer})
  /\ creds \in Entry \cup {Empty}
  /\ scheme \in {"http", "https"}
  /\ asked \subseteq Answer

Init ==
  /\ req \in [domain : Domains, plainHTTP : BOOLEAN]
  /\ config \in [{IndexServer, req.domain} -> Entry \cup {Empty, Broken}]
  /\ step = "import"
  /\ names = <<>>
  /\ creds = Empty
  /\ scheme = "https"
  /\ asked = {}

Goto(s) == step' = s

-----------------------------------------------------------------------------
\* docker.DefaultHost: where the registry of a domain is.
DefaultHost(domain) == IF domain = DockerIO THEN DockerHost ELSE domain

\* The names to look up (lines 181-186 of dockerconfigresolver.go).
AuthConfigHostnames(domain) ==
  IF domain \in {DockerIO, DockerHost} THEN <<IndexServer, domain>> ELSE <<domain>>

\* isAuthConfigEmpty.
IsEmpty(entry) == entry.has = {}

\* Mutant of Mismatch: the address of an entry is not compared.
MismatchNever(name, entry) == FALSE

\* The address of an entry is neither empty nor that of the name (200-216).
Mismatch(name, entry) == entry.server \notin {NoAddress, name}

\* What credFunc returns of an entry (229-233); a registry token alone is
\* not supported and leaves user and password empty.
Secret(entry) ==
  IF "identity" \in entry.has THEN "identity"
  ELSE IF "password" \in entry.has THEN "password" ELSE "none"

-----------------------------------------------------------------------------
\* The command makes a temporary content store, and the index of the archive
\* is imported into it (command/push.go:36-44, push.go:34-43).
ImportArchive ==
  /\ step = "import"
  /\ Goto("parse") \/ Goto("failed")
  /\ UNCHANGED <<req, config, names, creds, scheme, asked>>

\* newPusher: the domain of the reference, if it is one (push.go:59-63).
ParseRef ==
  /\ step = "parse"
  /\ Goto("load") \/ Goto("failed")
  /\ UNCHANGED <<req, config, names, creds, scheme, asked>>

\* NewAuthCreds: the Docker config is loaded, unless it is malformed, and the
\* names to look up are chosen (165-186).
LoadConfig ==
  /\ step = "load"
  /\ \/ /\ names' = AuthConfigHostnames(req.domain)
        /\ Goto("lookUp")
     \/ UNCHANGED names /\ Goto("failed")
  /\ UNCHANGED <<req, config, creds, scheme, asked>>

\* Mutant of LookUp: the loop goes on after it found an entry.
LookUpAll ==
  /\ step = "lookUp"
  /\ names # <<>>
  /\ LET entry == config[Head(names)] IN
       \/ /\ IsEmpty(entry) \/ entry = Broken
          /\ names' = Tail(names)
          /\ UNCHANGED <<step, creds>>
       \/ /\ ~IsEmpty(entry) /\ entry # Broken
          /\ creds' = entry
          /\ names' = Tail(names)
          /\ UNCHANGED step
  /\ UNCHANGED <<req, config, scheme, asked>>

\* Mutant of LookUp: the error of GetAuthConfig is not looked at.
LookUpBroken ==
  /\ step = "lookUp"
  /\ names # <<>>
  /\ LET entry == config[Head(names)] IN
       \/ /\ IsEmpty(entry)
          /\ names' = Tail(names)
          /\ UNCHANGED creds
       \/ /\ ~IsEmpty(entry)
          /\ creds' = entry
          /\ names' = <<>>
  /\ UNCHANGED <<req, config, step, scheme, asked>>

\* One turn of the loop (188-237): an error is only logged, an empty entry
\* skipped, one of another server an error, and the first other one taken.
LookUp ==
  /\ step = "lookUp"
  /\ names # <<>>
  /\ LET entry == config[Head(names)] IN
       \/ /\ IsEmpty(entry) \/ entry = Broken
          /\ names' = Tail(names)
          /\ UNCHANGED <<step, creds>>
       \/ /\ ~IsEmpty(entry) /\ entry # Broken
          /\ Mismatch(Head(names), entry)
          /\ Goto("failed")
          /\ UNCHANGED <<names, creds>>
       \/ /\ ~IsEmpty(entry) /\ entry # Broken
          /\ ~Mismatch(Head(names), entry)
          /\ creds' = entry
          /\ names' = <<>>
          /\ UNCHANGED step
  /\ UNCHANGED <<req, config, scheme, asked>>

\* NewHostOptions: plain HTTP if it was asked for, or on this host (123-131).
ChooseScheme ==
  /\ step = "lookUp"
  /\ names = <<>>
  /\ scheme' = IF req.plainHTTP \/ req.domain \in Localhosts THEN "http" ELSE "https"
  /\ Goto("push")
  /\ UNCHANGED <<req, config, names, creds, asked>>

\* The default scheme is used for the registry of the domain, but not for
\* Docker Hub, whose host is fixed together with https (external).
SchemeOf(host) ==
  IF req.domain = DockerIO THEN "https"
  ELSE IF host = DefaultHost(req.domain) THEN scheme ELSE "https"

\* A host asks the pusher to authenticate: credFunc answers the expected one
\* and fails for any other (223-228); without credentials nothing is sent.
Challenge(host) ==
  /\ step = "push"
  /\ IF IsEmpty(creds) \/ host = DefaultHost(req.domain)
     THEN /\ asked' = asked \cup {[host |-> host, secret |-> Secret(creds),
                                   scheme |-> SchemeOf(host)]}
          /\ UNCHANGED step
     ELSE Goto("failed") /\ UNCHANGED asked
  /\ UNCHANGED <<req, config, names, creds, scheme>>

\* PushContent ends, well or not (push.go:53).
Finish ==
  /\ step = "push"
  /\ Goto("done") \/ Goto("failed")
  /\ UNCHANGED <<req, config, names, creds, scheme, asked>>

Next ==
  \/ ImportArchive \/ ParseRef \/ LoadConfig \/ LookUp
  \/ ChooseScheme
  \/ \E host \in Hosts : Challenge(host)
  \/ Finish

Spec == Init /\ [][Next]_vars

-----------------------------------------------------------------------------
(* Properties                                                              *)

\* The names that stand for the registry of a domain.
NamesOf(domain) == ToSet(AuthConfigHostnames(domain))

\* No secret is given out for a host that it is not for, whatever a credential
\* helper answers and wherever a registry redirects: only a challenge of the
\* registry of the reference is answered with one, from an entry without an
\* address or with one of that registry, and in plain HTTP only if "Allow
\* connections using plain HTTP" (command/push.go:18-20) was chosen or the
\* registry is local.  For a bearer challenge containerd's authorizer takes the
\* secret to the token server that the registry names; that is not part of it.
SecretsStayHome ==
  \A a \in asked : a.secret # "none" =>
    /\ a.host = DefaultHost(req.domain)
    /\ creds.server \in NamesOf(req.domain) \cup {NoAddress}
    /\ a.scheme = "http" => req.plainHTTP \/ req.domain \in Localhosts

\* "It will try to use your Docker credentials to push" (README.md:346-348):
\* if `docker login` left an entry for the registry (under IndexServer for
\* Docker Hub) that can be read and used, that one is what the registry gets.
LoginUsed ==
  LET login == config[IF req.domain \in {DockerIO, DockerHost} THEN IndexServer
                      ELSE req.domain]
  IN \A a \in asked :
       login # Broken /\ Secret(login) # "none" => a.secret = Secret(login)
=============================================================================
