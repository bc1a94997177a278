-------------------------------- MODULE MCAudit --------------------------------
(* Instances of Audit for TLC.                                               *)
EXTENDS Audit, TLC

AllConfigs == [file : BOOLEAN, url : BOOLEAN]
FileOrBoth == {[file |-> TRUE, url |-> u] : u \in BOOLEAN}
Unconfigured == {[file |-> FALSE, url |-> FALSE]}
UrlOnly == {[file |-> FALSE, url |-> TRUE]}
NoFaults == {}
=============================================================================
