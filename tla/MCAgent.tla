------------------------------- MODULE MCAgent -------------------------------
(* Instances of Agent for TLC.                                               *)
EXTENDS Agent

Configured(h, e, d) == [hash |-> h, encrypts |-> e, decrypts |-> d]

(* RSA keys alone, and with a common key for the hash.                        *)
MCConfigs == { Configured("off", TRUE, TRUE), Configured("same", TRUE, TRUE) }
==============================================================================
