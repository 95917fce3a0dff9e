----------------------------- MODULE MCImporter -----------------------------
(* Instances of Importer for TLC. *)
EXTENDS Importer, TLC

CONSTANTS reg, dump1, dump2, sand, j1, j2, r1, d1, d2, x1, b1, b2

AllServe == (reg :> "reg") @@ (dump1 :> "dump") @@ (dump2 :> "dump") @@ (sand :> "sandbox")
SlavesServe == [s \in Slave |-> AllServe[s]]
AllQueues == (r1 :> "reg") @@ (d1 :> "dump") @@ (d2 :> "dump") @@ (x1 :> "reg")
             @@ (b1 :> "sandbox") @@ (b2 :> "sandbox")
Queues == [m \in Msg |-> AllQueues[m]]
Jobs == [m \in Msg |-> IF m \in {d2, b2} THEN j2 ELSE j1]
=============================================================================
