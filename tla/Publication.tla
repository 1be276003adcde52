----------------------------- MODULE Publication -----------------------------
(***************************************************************************)
(* What the ingress promises, whoever drives it: the registry asks for a   *)
(* set of site blocks; a Caddyfile is put in place in one step, is what    *)
(* the registry asks for at that moment and one Caddy accepts; Caddy       *)
(* serves a Caddyfile that was in place when it loaded it, or is down; and *)
(* the stub is written only where there is nothing.  What the registry     *)
(* asks for is an input: it can change at any step.                        *)
(***************************************************************************)
EXTENDS Caddyfile

VARIABLE want         \* the site blocks the registry asks for

(* Nothing is published yet, or what the registry asks for is; Caddy is    *)
(* down or serves the Caddyfile there is.                                  *)
Init == /\ disk \in {NoConfig, Stub} \union {file \in {want} : Accepts(file)}
        /\ live = Down \/ (disk # NoConfig /\ live = disk)

Change == UNCHANGED <<disk, live>>

LayStub == disk = NoConfig /\ disk' = Stub /\ UNCHANGED live

Publish == Accepts(want) /\ disk' = want /\ UNCHANGED live

Load == disk # NoConfig /\ live # Down /\ live' = disk /\ UNCHANGED disk

Start == /\ live = Down
         /\ disk' = WithStub(disk) /\ Accepts(disk')
         /\ live' = disk'

Stop == live' = Down /\ UNCHANGED disk

Next == Change \/ LayStub \/ Publish \/ Load \/ Start \/ Stop

Spec == Init /\ [][Next]_<<want, disk, live>>
=============================================================================
