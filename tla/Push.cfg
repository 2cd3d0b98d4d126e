\* Docker Hub under both of its names, a registry and a local one.  The
\* command ends.
CONSTANTS
  Domains = {"docker.io", "registry-1.docker.io", "example.com", "localhost"}
  Strangers = {"stranger.net"}
  Localhosts = {"localhost"}
  Kinds = {{}, {"password"}, {"identity"}, {"password", "identity"}, {"registryToken"}}
SPECIFICATION Spec
INVARIANTS TypeOK SecretsStayHome LoginUsed
CHECK_DEADLOCK FALSE
