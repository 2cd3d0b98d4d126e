----------------------------- MODULE MCNixImage -----------------------------
(***************************************************************************)
(* NixImage for TLC: five store paths, all closures and copyToRoot lists   *)
(* of a few of them, and base images of every kind.                        *)
(***************************************************************************)
EXTENDS NixImage, FiniteSets

\* A package with bin/sh, one with bin/ls, a clashing package whose bin is a
\* symlink, a script, a config and a path that is not there.
MCPaths == {"bash", "coreutils", "busybox", "script", "config", "gone"}
MCFileType == [p \in MCPaths |->
  CASE p \in {"bash", "coreutils", "busybox"} -> "dir"
    [] p \in {"script", "config"} -> "file"
    [] p = "gone" -> "missing"]

MCNames == {"/", "bin", "bin/sh", "bin/ls"}
MCParent == [n \in MCNames |-> IF n \in {"bin/sh", "bin/ls"} THEN "bin" ELSE "/"]
Directory(files, links) ==
  [n \in {"/", "bin"} \cup files |->
     IF n \in files THEN "file" ELSE IF n \in links THEN "dirlink" ELSE "dir"]
MCTree == [p \in MCPaths |->
  CASE p = "bash" -> Directory({"bin/sh"}, {})
    [] p = "coreutils" -> Directory({"bin/ls"}, {})
    [] p = "busybox" -> Directory({}, {"bin"})
    [] OTHER -> Directory({}, {})]

\* Duplicate-free sequences over S of at most n members.
Arrangements(S, n) ==
  {q \in BoundedSeq(S, n) : \A i, j \in DOMAIN q : q[i] = q[j] => i = j}

\* closureInfo takes the config and copyToRoot as its roots (package.nix:59-61).
Calls(bases) ==
  {r \in [config : {"config"}, closure : Arrangements(MCPaths, 4),
          copyToRoots : Arrangements(MCPaths \ {"config", "gone"}, 2), base : bases] :
     {"config"} \cup Range(r.copyToRoots) \subseteq Range(r.closure)}

\* Layers of an image that was built by other means.
PlainBlob(n) == [gzip |-> FALSE, holds |-> [mountpoints |-> {}, links |-> {<<n, n>>}]]
PlainLayer(n) == Desc("tar", PlainBlob(n), FALSE, {})
PlainBase(ns) ==
  [image |-> Image([i \in DOMAIN ns |-> PlainLayer(ns[i])],
                   [i \in DOMAIN ns |-> PlainBlob(ns[i]).holds], {}),
   manifests |-> 1]

\* An image of nix2container, and one with annotations.
NixBlob == ClosureBlob({"bash"}, {})
NixBase ==
  [image |-> Image(<<Desc("gzip", NixBlob, TRUE, {"bash"})>>, <<NixBlob.holds>>, {}),
   manifests |-> 1]
AnnotatedBase ==
  [image |-> Image(<<PlainLayer("etc")>>, <<PlainBlob("etc").holds>>, {"author"}),
   manifests |-> 1]

PlainRequests ==
  Calls({NoBase, PlainBase(<<"etc">>), PlainBase(<<"etc", "usr">>),
         [PlainBase(<<"etc">>) EXCEPT !.manifests = 2]})
NixRequests == Calls({NixBase, AnnotatedBase})
=============================================================================
