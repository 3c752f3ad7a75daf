---------------------------- MODULE MCGdPipeline ----------------------------
(***************************************************************************)
(* Small instances of GdPipeline for TLC, with the settings each run goes  *)
(* through.                                                                *)
(***************************************************************************)
EXTENDS GdPipeline

Setting(connected, zero, update) ==
  [local_prediction |-> connected, unique_id_zero |-> zero,
   global_update |-> update]

\* No cluster.
Alone == {Setting(FALSE, FALSE, "none")}

\* Node 0 of a cluster, whose relay only reads the answers of the master.
Node == {Setting(TRUE, TRUE, "none")}

\* Every way to take part in a cluster: with a relay, or only sending.
Cluster == Node \cup {Setting(TRUE, FALSE, "backprop"),
                      Setting(TRUE, FALSE, "delayed_global"),
                      Setting(TRUE, FALSE, "none")}

AloneOrNode == Alone \cup Node

\* No prediction is sent for an example tagged save, so the relay has no
\* answer to take it out of the delay ring with: with a relay, none is tagged.
SoloInit ==
  /\ Init
  /\ Mesg = 1 => \A i \in Items : stream[i] # "save"

SoloSpec == SoloInit /\ [][Next]_vars /\ Fairness
=============================================================================
