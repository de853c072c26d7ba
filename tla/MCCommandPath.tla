---------------------------- MODULE MCCommandPath ----------------------------
(***************************************************************************)
(* The three ends of the way of a command, for TLC: the client that asks   *)
(* for it, the adapter that runs it in a VM, and the agent in the guest.   *)
(* They wait on one another only over connections that each module models  *)
(* on its own side, so the variable part says which of them moves while    *)
(* the others stay in an initial state.                                    *)
(***************************************************************************)
EXTENDS MCFirecrackerAdapter, GuestAgent, ConsoleClient

VARIABLE part

pathVars == <<part, adapterVars, guestVars, consoleVars>>

PathInit ==
    /\ part \in {"adapter", "guest", "client"}
    /\ Init /\ GuestInit
    /\ ConsoleInit /\ (part # "client" => client.kind = "exec" /\ ~client.remove /\ plane.sandbox = "none")

ByAdapter(A) == part = "adapter" /\ A /\ UNCHANGED <<part, guestVars, consoleVars>>
ByGuest(A) == part = "guest" /\ A /\ UNCHANGED <<part, adapterVars, consoleVars>>
ByClient(A) == part = "client" /\ A /\ UNCHANGED <<part, adapterVars, guestVars>>

PathNext == ByAdapter(Next) \/ ByGuest(GuestNext) \/ ByClient(ConsoleNext)

(* The fairness of each module, of the part that moves.                     *)
PathFair ==
    /\ \A s \in Sandboxes : /\ WF_pathVars(ByAdapter(Launch(s) \/ Shutdown(s)))
                            /\ WF_pathVars(ByAdapter(VMStep(s)))
    /\ \A r \in Runs : WF_pathVars(ByAdapter(RunStep(r)))
    /\ WF_pathVars(ByGuest(AgentStep))
    /\ \A k \in Conns : WF_pathVars(ByGuest(ProcStep(k))) /\ WF_pathVars(ByGuest(HostReceive(k)))
    /\ WF_pathVars(ByClient(MainStep))
    /\ WF_pathVars(ByClient(SignalStep /\ UNCHANGED sessionVars))
    /\ WF_pathVars(ByClient(GoroutineStep))

PathSpec == PathInit /\ [][PathNext]_pathVars /\ PathFair

=============================================================================
