------------------------------ MODULE MCParts ------------------------------
(***************************************************************************)
(* The parts of the library that keep their state to themselves, for TLC:   *)
(* the message queue, the packets in a receive buffer, the socket with its  *)
(* address caches, the storage of a node's publishers and subscribers, and  *)
(* the command line of the programs.  A behaviour is one of one part; the   *)
(* others stay in their initial states.                                     *)
(***************************************************************************)
EXTENDS MessageQueue, MCCodec, MCLinuxNetwork, NodeStorage, Options

VARIABLE part

all_vars == <<part, queue_vars, codec_vars, network_vars, storage_vars, options_vars>>

Init ==
  /\ part \in {"queue", "codec", "network", "storage", "options"}
  /\ QueueInit /\ CodecInit /\ NetworkInit /\ StorageInit /\ OptionsInit
  /\ part # "options" => argv = <<>>

QueueStep == /\ part = "queue" /\ QueueNext
             /\ UNCHANGED <<codec_vars, network_vars, storage_vars, options_vars>>
CodecStep == /\ part = "codec" /\ CodecNext
             /\ UNCHANGED <<queue_vars, network_vars, storage_vars, options_vars>>
NetworkStep == /\ part = "network" /\ NetworkNext
               /\ UNCHANGED <<queue_vars, codec_vars, storage_vars, options_vars>>
StorageStep == /\ part = "storage" /\ StorageNext
               /\ UNCHANGED <<queue_vars, codec_vars, network_vars, options_vars>>
OptionsStep == /\ part = "options" /\ OptionsNext
               /\ UNCHANGED <<queue_vars, codec_vars, network_vars, storage_vars>>

Next == /\ QueueStep \/ CodecStep \/ NetworkStep \/ StorageStep \/ OptionsStep
        /\ UNCHANGED part

Spec == Init /\ [][Next]_all_vars
=============================================================================
