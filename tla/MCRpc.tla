-------------------------------- MODULE MCRpc --------------------------------
(* Rpc.tla for two CPUs, two clients, and three threads of tee-supplicant. *)
EXTENDS Rpc

CONSTANTS k1, k2, c1, c2, b1, b2
MCThr == {0, 1}
MCCores == {k1, k2}
MCClients == {c1, c2}
MCCookies == {b1, b2}
MCSlow == {c1}
MCPlatforms == {[cpus |-> {k1, k2}, irqs |-> {k1}, limit |-> 1, cache |-> TRUE],
                [cpus |-> {k1}, irqs |-> {}, limit |-> 3, cache |-> FALSE]}
=============================================================================
