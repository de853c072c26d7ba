---------------------------- MODULE MCHostNetwork ----------------------------
(***************************************************************************)
(* VMs for TLC that share the guest address or the TAP name; what they do  *)
(* not share is named after them.                                          *)
(***************************************************************************)
EXTENDS HostNetwork

Own == [v \in Vms |-> v]
SameIP == [tap |-> Own, ip |-> [v \in Vms |-> "ip1"]]
SameTap == [tap |-> [v \in Vms |-> "cr1"], ip |-> Own]

MCNamings == {SameIP, SameTap}
MCOneNaming == {SameTap}

(* Late cleanups are explored where they matter to a second VM.             *)
MCMaxClock == [n \in Namings |-> IF n = SameTap THEN 2 ELSE 0]

MCDests == {"registry"}

=============================================================================
