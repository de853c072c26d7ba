------------------------- MODULE MCFirecrackerAdapter -------------------------
(* Sandboxes that all get the same guest address, for TLC.                  *)
EXTENDS FirecrackerAdapter

MCGuestIPOf == [s \in Sandboxes |-> "ip"]

=============================================================================
