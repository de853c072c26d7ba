-------------------------- MODULE ClientSandboxes --------------------------
(***************************************************************************)
(* EnsureSandbox of the Go client (client/ergonomics.go): a sandbox per    *)
(* key, made on first use and reused while it is READY.  Calls with the    *)
(* same key exclude one another by a lock that exists only while someone   *)
(* uses it.  Keys do not interact, so the module has one.                  *)
(*                                                                         *)
(*   entry     the lock that ensureLocks holds for the key, or NoLock      *)
(*   gates[l]  whether the channel of lock l holds its token               *)
(*   refs[l]   the reference count of lock l                               *)
(*   tracked   sandboxByKey: the sandbox of the key, or NoSandbox          *)
(*   ensures   the calls: where they are, their lock, the sandbox in hand  *)
(*   service   the sandboxes that the control plane has                    *)
(*   answered  the sandboxes that EnsureSandbox made, whose answer arrived *)
(*             and that no call has replaced on purpose                    *)
(*                                                                         *)
(* A lock is an address: after it left ensureLocks and every call, a new   *)
(* lock may get it.  The ids of sandboxes are never used again.            *)
(***************************************************************************)
EXTENDS Naturals, FiniteSets

CONSTANTS Ensurers, KeyLocks, NoLock, SandboxIds, NoSandbox

ASSUME EnsureAssumption ==
    /\ IsFiniteSet(Ensurers)
    /\ NoLock \notin KeyLocks
    /\ NoSandbox \notin SandboxIds

VARIABLES entry, gates, refs, tracked, ensures, service, answered

lockVars == <<entry, gates, refs>>
ensureVars == <<entry, gates, refs, tracked, ensures, service, answered>>

Outside == [at |-> "idle", lock |-> NoLock, id |-> NoSandbox]

EnsureTypeOK ==
    /\ entry \in KeyLocks \cup {NoLock}
    /\ gates \in [KeyLocks -> BOOLEAN]
    /\ refs \in [KeyLocks -> Nat]
    /\ tracked \in SandboxIds \cup {NoSandbox}
    /\ ensures \in [Ensurers -> [at : {"idle", "gate", "choose", "create", "record", "leave", "unref"},
                                 lock : KeyLocks \cup {NoLock},
                                 id : SandboxIds \cup {NoSandbox}]]
    /\ service \in [SandboxIds -> {"absent", "ready", "stopped", "gone"}]
    /\ answered \subseteq SandboxIds

EnsureInit ==
    /\ entry = NoLock
    /\ gates = [l \in KeyLocks |-> FALSE]
    /\ refs = [l \in KeyLocks |-> 0]
    /\ tracked = NoSandbox
    /\ ensures = [c \in Ensurers |-> Outside]
    /\ service \in [SandboxIds -> {"absent", "ready"}]
    /\ answered = {}

-----------------------------------------------------------------------------
(* lockEnsureKey and the function it returns.                               *)

EnsureAt(c, label) == ensures[c].at = label
EnsureGoto(c, label) == ensures' = [ensures EXCEPT ![c].at = label]

Unused(l) == l # entry /\ \A c \in Ensurers : ensures[c].lock # l

(* Under c.mu: find the lock of the key or make one, and count it.          *)
EnsureEnter(c) ==
    /\ EnsureAt(c, "idle")
    /\ \E l \in KeyLocks :
         /\ IF entry = NoLock THEN Unused(l) ELSE l = entry
         /\ entry' = l
         /\ gates' = [gates EXCEPT ![l] = IF entry = NoLock THEN TRUE ELSE @]
         /\ refs' = [refs EXCEPT ![l] = IF entry = NoLock THEN 1 ELSE @ + 1]
         /\ ensures' = [ensures EXCEPT ![c] = [at |-> "gate", lock |-> l, id |-> NoSandbox]]
    /\ UNCHANGED <<tracked, service, answered>>

(* Mutant: the entry is deleted by whoever is done with the lock.           *)
UncountEager(c) ==
    /\ refs' = [refs EXCEPT ![ensures[c].lock] = @ - 1]
    /\ entry' = IF entry = ensures[c].lock THEN NoLock ELSE entry
    /\ ensures' = [ensures EXCEPT ![c] = Outside]

(* Mutant: the last one does not delete the entry of a lock it only waited  *)
(* for.                                                                     *)
UncountKeeping(c) ==
    /\ refs' = [refs EXCEPT ![ensures[c].lock] = @ - 1]
    /\ entry' = IF refs'[ensures[c].lock] = 0 /\ EnsureAt(c, "unref") THEN NoLock ELSE entry
    /\ ensures' = [ensures EXCEPT ![c] = Outside]

(* Under c.mu: count down; the last one deletes the entry.                  *)
Uncount(c) ==
    /\ refs' = [refs EXCEPT ![ensures[c].lock] = @ - 1]
    /\ entry' = IF refs'[ensures[c].lock] = 0 THEN NoLock ELSE entry
    /\ ensures' = [ensures EXCEPT ![c] = Outside]

(* The context is done; the select may choose this with the token there.    *)
EnsureGiveUp(c) ==
    /\ EnsureAt(c, "gate")
    /\ Uncount(c)
    /\ UNCHANGED <<gates, tracked, service, answered>>

EnsureGate(c) ==
    /\ EnsureAt(c, "gate")
    /\ gates[ensures[c].lock]
    /\ gates' = [gates EXCEPT ![ensures[c].lock] = FALSE]
    /\ EnsureGoto(c, "choose")
    /\ UNCHANGED <<entry, refs, tracked, service, answered>>

(* The function that lockEnsureKey returned: first the token ...            *)
EnsureUnlock(c) ==
    /\ EnsureAt(c, "leave")
    /\ gates' = [gates EXCEPT ![ensures[c].lock] = TRUE]
    /\ EnsureGoto(c, "unref")
    /\ UNCHANGED <<entry, refs, tracked, service, answered>>

(* ... then, under c.mu, the count.                                         *)
EnsureUnref(c) ==
    /\ EnsureAt(c, "unref")
    /\ Uncount(c)
    /\ UNCHANGED <<gates, tracked, service, answered>>

-----------------------------------------------------------------------------
(* EnsureSandbox with the lock.                                             *)

(* opts.SandboxID names a sandbox: it is used if GetSandbox finds it.       *)
EnsureExplicit(c) ==
    /\ EnsureAt(c, "choose")
    /\ \/ \E s \in SandboxIds :
            /\ service[s] \in {"ready", "stopped"}
            /\ ensures' = [ensures EXCEPT ![c].at = "record", ![c].id = s]
       \/ EnsureGoto(c, "leave")
    /\ UNCHANGED <<lockVars, tracked, service, answered>>

(* The tracked sandbox is READY and its backend will do, or GetSandbox      *)
(* fails with another error than NotFound: the handle, or the error, is     *)
(* returned and nothing changes.                                            *)
EnsureReuse(c) ==
    /\ EnsureAt(c, "choose") /\ tracked # NoSandbox
    /\ EnsureGoto(c, "leave")
    /\ UNCHANGED <<lockVars, tracked, service, answered>>

(* It is not READY, has another backend or is not found: clearSandboxKey.   *)
EnsureClear(c) ==
    /\ EnsureAt(c, "choose") /\ tracked # NoSandbox
    /\ tracked' = NoSandbox
    /\ answered' = answered \ {tracked}
    /\ EnsureGoto(c, "create")
    /\ UNCHANGED <<lockVars, service>>

(* CreateSandbox: refused, answered, or made with the answer lost.          *)
EnsureCreate(c) ==
    /\ EnsureAt(c, "create") \/ (EnsureAt(c, "choose") /\ tracked = NoSandbox)
    /\ \/ /\ EnsureGoto(c, "leave")
          /\ UNCHANGED <<service, answered>>
       \/ \E s \in SandboxIds :
            /\ service[s] = "absent"
            /\ service' = [service EXCEPT ![s] = "ready"]
            /\ \/ /\ answered' = answered \cup {s}
                  /\ ensures' = [ensures EXCEPT ![c].at = "record", ![c].id = s]
               \/ /\ UNCHANGED answered
                  /\ EnsureGoto(c, "leave")
    /\ UNCHANGED <<lockVars, tracked>>

(* recordSandboxKey.  An explicit sandbox replaces the tracked one.         *)
EnsureRecord(c) ==
    /\ EnsureAt(c, "record")
    /\ tracked' = ensures[c].id
    /\ answered' = IF ensures[c].id \in answered THEN answered ELSE answered \ {tracked}
    /\ ensures' = [ensures EXCEPT ![c].at = "leave", ![c].id = NoSandbox]
    /\ UNCHANGED <<lockVars, service>>

(* The control plane: a sandbox stops, and later is pruned.                 *)
ServiceEnds(s) ==
    /\ \/ service[s] = "ready" /\ service' = [service EXCEPT ![s] = "stopped"]
       \/ service[s] = "stopped" /\ service' = [service EXCEPT ![s] = "gone"]
    /\ UNCHANGED <<lockVars, tracked, ensures, answered>>

-----------------------------------------------------------------------------
EnsureStep(c) ==
    \/ EnsureEnter(c) \/ EnsureGiveUp(c) \/ EnsureGate(c) \/ EnsureUnlock(c) \/ EnsureUnref(c)
    \/ EnsureExplicit(c) \/ EnsureReuse(c) \/ EnsureClear(c) \/ EnsureCreate(c) \/ EnsureRecord(c)

EnsureNext ==
    \/ \E c \in Ensurers : EnsureStep(c)
    \/ \E s \in SandboxIds : ServiceEnds(s)

EnsureSpec == EnsureInit /\ [][EnsureNext]_ensureVars

-----------------------------------------------------------------------------
Inside(c) == ensures[c].at \in {"choose", "create", "record", "leave"}

(* EnsureSandbox never makes a second sandbox for the key while one that it *)
(* made before runs and was not given up on purpose: concurrent calls share *)
(* one (lockEnsureKey around the lookup, CreateSandbox and the record).     *)
OneSandboxPerKey ==
    \A s, t \in answered : service[s] = "ready" /\ service[t] = "ready" => s = t

(* ensureLocks holds a lock exactly while some call counts on it, the count *)
(* is the number of those calls, and no call is left with a lock of its own *)
(* (the two places that decrease refs).                                     *)
LocksReclaimed ==
    /\ \A l \in KeyLocks : refs[l] = Cardinality({c \in Ensurers : ensures[c].lock = l})
    /\ \A l \in KeyLocks : l = entry <=> refs[l] > 0

=============================================================================
