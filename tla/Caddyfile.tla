------------------------------- MODULE Caddyfile -------------------------------
(***************************************************************************)
(* The ingress: the Caddyfile and its temporary file in the directory that *)
(* is mounted into the decloud-caddy container, and what Caddy serves.     *)
(* A Caddyfile is abstracted to its site blocks <<hostname, service>>; the *)
(* stub of WriteStubIfMissing has none.                                    *)
(***************************************************************************)
CONSTANTS Hosts,      \* hostnames a deploy can name
          BadHosts,   \* those Caddy cannot parse
          NoConfig,   \* the file does not exist
          Down        \* decloud-caddy is not running

VARIABLES disk,       \* Caddyfile
          tmp,        \* Caddyfile.tmp
          live        \* the site blocks Caddy serves, or Down

caddyVars == <<disk, tmp, live>>

Stub == {}

(* What caddy validate makes of a file: it must be there, every hostname   *)
(* must parse, and no two blocks may claim the same one.                   *)
Accepts(file) ==
  /\ file # NoConfig
  /\ \A b \in file : b[1] \notin BadHosts
  /\ \A b, c \in file : b[1] = c[1] => b = c

(* Mutant: the stub is written over what is there. *)
StubAlways(file) == Stub

WithStub(file) == IF file = NoConfig THEN Stub ELSE file
=============================================================================
