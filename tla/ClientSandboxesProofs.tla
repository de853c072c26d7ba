----------------------- MODULE ClientSandboxesProofs -----------------------
(***************************************************************************)
(* EnsureSandbox makes one sandbox per key and gives its locks back, for   *)
(* any number of callers, locks and sandboxes.                             *)
(*                                                                         *)
(* The argument: a call that is not idle uses the lock in ensureLocks, so  *)
(* all calls queue at the same channel; its token is there or with one     *)
(* call; and only the call with the token changes sandboxByKey.            *)
(***************************************************************************)
EXTENDS ClientSandboxes, FiniteSetTheorems, TLAPS

Users(l) == {c \in Ensurers : ensures[c].lock = l}

(* All calls that are not idle use the one lock of the key.                 *)
SameLock ==
    \A c \in Ensurers : IF ensures[c].at = "idle" THEN ensures[c].lock = NoLock
                        ELSE ensures[c].lock = entry /\ entry # NoLock

Counted == \A l \in KeyLocks : refs[l] = Cardinality(Users(l))

InUse == entry # NoLock => \E c \in Ensurers : ensures[c].lock = entry

(* The token is in the channel or with exactly one call.                    *)
OneToken ==
    /\ \A c, d \in Ensurers : Inside(c) /\ Inside(d) => c = d
    /\ \A c \in Ensurers : Inside(c) => ~gates[entry]

(* A sandbox that was made is the tracked one, or is about to be.           *)
Followed ==
    /\ \A s \in answered : \/ s = tracked
                           \/ /\ tracked = NoSandbox
                              /\ \E c \in Ensurers : ensures[c].at = "record" /\ ensures[c].id = s
    /\ \A c \in Ensurers : /\ ensures[c].at = "create" => tracked = NoSandbox
                           /\ ensures[c].at = "record" => ensures[c].id \in SandboxIds

LockInv == SameLock /\ Counted /\ InUse /\ OneToken

EnsureInv == EnsureTypeOK /\ LockInv /\ Followed

-----------------------------------------------------------------------------
(* Only finitely many calls use a lock: the count of lockEnsureKey is a     *)
(* number, and it is zero when nobody uses the lock.                        *)
LEMMA UsersFinite ==
    ASSUME NEW l
    PROVE  /\ IsFiniteSet(Users(l)) /\ Cardinality(Users(l)) \in Nat
           /\ Cardinality(Users(l)) = 0 <=> Users(l) = {}
<1>1. IsFiniteSet(Users(l))
  <2>1. Users(l) \in SUBSET Ensurers
    BY DEF Users
  <2>2. QED
    BY <2>1, EnsureAssumption, FS_Subset
<1>2. QED
  BY <1>1, FS_CardinalityType, FS_EmptySet

(* The client starts without locks, calls and sandboxes of its own.         *)
LEMMA EnsureInitial == EnsureInit => EnsureInv
<1> SUFFICES ASSUME EnsureInit PROVE EnsureInv
  OBVIOUS
<1>1. EnsureTypeOK
  BY EnsureAssumption DEF EnsureInit, EnsureTypeOK, Outside
<1>2. SameLock /\ InUse /\ OneToken
  BY DEF EnsureInit, SameLock, InUse, OneToken, Inside, Outside
<1>3. Counted
  <2> SUFFICES ASSUME NEW l \in KeyLocks PROVE refs[l] = Cardinality(Users(l))
    BY DEF Counted
  <2>1. Users(l) = {}
    BY EnsureAssumption DEF EnsureInit, Users, Outside
  <2>2. QED
    BY <2>1, FS_EmptySet DEF EnsureInit
<1>4. Followed
  BY DEF EnsureInit, Followed, Outside
<1>5. QED
  BY <1>1, <1>2, <1>3, <1>4 DEF EnsureInv, LockInv

-----------------------------------------------------------------------------
(* Every step of EnsureSandbox keeps the types.                             *)
LEMMA TypeKept == EnsureInv /\ [EnsureNext]_ensureVars => EnsureTypeOK'
<1> SUFFICES ASSUME EnsureInv, [EnsureNext]_ensureVars PROVE EnsureTypeOK'
  OBVIOUS
<1> USE DEF EnsureInv, EnsureTypeOK
<1>1. ASSUME NEW c \in Ensurers, EnsureEnter(c) PROVE EnsureTypeOK'
  <2>1. PICK l \in KeyLocks :
          /\ entry' = l
          /\ gates' = [gates EXCEPT ![l] = IF entry = NoLock THEN TRUE ELSE @]
          /\ refs' = [refs EXCEPT ![l] = IF entry = NoLock THEN 1 ELSE @ + 1]
          /\ ensures' = [ensures EXCEPT ![c] = [at |-> "gate", lock |-> l, id |-> NoSandbox]]
    BY <1>1 DEF EnsureEnter
  <2>2. gates' \in [KeyLocks -> BOOLEAN]
    BY <2>1
  <2>3. refs' \in [KeyLocks -> Nat]
    BY <2>1
  <2>4. UNCHANGED <<tracked, service, answered>>
    BY <1>1 DEF EnsureEnter
  <2>5. QED
    BY <2>1, <2>2, <2>3, <2>4
<1>2. ASSUME NEW c \in Ensurers, EnsureGiveUp(c) \/ EnsureUnref(c) PROVE EnsureTypeOK'
  <2>1. ensures[c].lock = entry /\ entry \in KeyLocks
    BY <1>2 DEF LockInv, SameLock, EnsureGiveUp, EnsureUnref, EnsureAt
  <2>2. c \in Users(entry)
    BY <2>1 DEF Users
  <2>3. refs[entry] - 1 \in Nat
    <3>1. refs[entry] \in Nat /\ refs[entry] # 0
      BY <2>1, <2>2, UsersFinite DEF LockInv, Counted
    <3>2. QED
      BY <3>1
  <2>4. QED
    BY <1>2, <2>1, <2>3, EnsureAssumption DEF EnsureGiveUp, EnsureUnref, Uncount, Outside
<1>3. ASSUME NEW c \in Ensurers, EnsureGate(c) \/ EnsureUnlock(c) PROVE EnsureTypeOK'
  <2>1. gates' = [gates EXCEPT ![ensures[c].lock] = FALSE] \/ gates' = [gates EXCEPT ![ensures[c].lock] = TRUE]
    BY <1>3 DEF EnsureGate, EnsureUnlock
  <2>2. gates' \in [KeyLocks -> BOOLEAN]
    BY <2>1
  <2>3. UNCHANGED <<entry, refs, tracked, service, answered>>
    BY <1>3 DEF EnsureGate, EnsureUnlock
  <2>4. ensures' = [ensures EXCEPT ![c].at = "choose"] \/ ensures' = [ensures EXCEPT ![c].at = "unref"]
    BY <1>3 DEF EnsureGate, EnsureUnlock, EnsureGoto
  <2>5. QED
    BY <2>2, <2>3, <2>4
<1>4. ASSUME NEW c \in Ensurers, EnsureExplicit(c) \/ EnsureReuse(c) \/ EnsureClear(c) PROVE EnsureTypeOK'
  BY <1>4 DEF EnsureExplicit, EnsureReuse, EnsureClear, EnsureGoto, lockVars
<1>5. ASSUME NEW c \in Ensurers, EnsureCreate(c) \/ EnsureRecord(c) PROVE EnsureTypeOK'
  BY <1>5 DEF EnsureCreate, EnsureRecord, EnsureGoto, lockVars
<1>6. ASSUME NEW s \in SandboxIds, ServiceEnds(s) PROVE EnsureTypeOK'
  BY <1>6 DEF ServiceEnds, lockVars
<1>7. CASE UNCHANGED ensureVars
  BY <1>7 DEF ensureVars
<1>8. QED
  BY <1>1, <1>2, <1>3, <1>4, <1>5, <1>6, <1>7 DEF EnsureNext, EnsureStep

-----------------------------------------------------------------------------
(* A step that leaves the locks alone, and lets no call into or out of      *)
(* lockEnsureKey, keeps what holds of them.                                 *)
LEMMA LockUntouched ==
    ASSUME LockInv, UNCHANGED lockVars,
           \A d \in Ensurers : /\ ensures'[d].lock = ensures[d].lock
                               /\ ensures'[d].at = "idle" <=> ensures[d].at = "idle"
                               /\ Inside(d)' => Inside(d)
    PROVE  LockInv'
<1>1. \A l : Users(l)' = Users(l)
  BY DEF Users
<1>2. Counted'
  BY <1>1 DEF LockInv, Counted, lockVars
<1>3. SameLock' /\ InUse' /\ OneToken'
  BY DEF LockInv, SameLock, InUse, OneToken, lockVars
<1>4. QED
  BY <1>2, <1>3 DEF LockInv

(* lockEnsureKey finds the lock of the key, or makes one with its token.    *)
LEMMA EnterKeepsLock ==
    ASSUME EnsureInv, NEW c \in Ensurers, EnsureEnter(c)
    PROVE  LockInv'
<1> USE DEF EnsureInv, EnsureTypeOK, LockInv
<1>1. PICK l \in KeyLocks :
        /\ IF entry = NoLock THEN Unused(l) ELSE l = entry
        /\ entry' = l
        /\ gates' = [gates EXCEPT ![l] = IF entry = NoLock THEN TRUE ELSE @]
        /\ refs' = [refs EXCEPT ![l] = IF entry = NoLock THEN 1 ELSE @ + 1]
        /\ ensures' = [ensures EXCEPT ![c] = [at |-> "gate", lock |-> l, id |-> NoSandbox]]
  BY DEF EnsureEnter
<1>2. ensures[c].lock = NoLock /\ l # NoLock
  BY EnsureAssumption DEF SameLock, EnsureEnter, EnsureAt
<1>3. entry = NoLock => \A d \in Ensurers : ensures[d].at = "idle" /\ ensures[d].lock = NoLock
  BY DEF SameLock
<1>4. SameLock' /\ InUse'
  BY <1>1, <1>2, <1>3 DEF SameLock, InUse
<1>5. OneToken'
  <2>1. \A d \in Ensurers : Inside(d)' => Inside(d) /\ entry # NoLock
    BY <1>1, <1>3 DEF Inside
  <2>2. entry # NoLock => entry' = entry /\ gates'[entry] = gates[entry]
    BY <1>1
  <2>3. QED
    BY <2>1, <2>2 DEF OneToken
<1>6. Counted'
  <2> SUFFICES ASSUME NEW m \in KeyLocks PROVE refs'[m] = Cardinality(Users(m)')
    BY DEF Counted
  <2>1. CASE m = l
    <3>1. Users(l)' = Users(l) \cup {c} /\ c \notin Users(l)
      BY <1>1, <1>2 DEF Users
    <3>2. Cardinality(Users(l)') = Cardinality(Users(l)) + 1
      BY <3>1, UsersFinite, FS_AddElement
    <3>3. CASE entry = NoLock
      <4>1. Users(l) = {}
        BY <1>2, <1>3, <3>3 DEF Users
      <4>2. QED
        BY <1>1, <2>1, <3>2, <3>3, <4>1, FS_EmptySet
    <3>4. CASE entry # NoLock
      BY <1>1, <2>1, <3>2, <3>4 DEF Counted
    <3>5. QED
      BY <3>3, <3>4
  <2>2. CASE m # l
    <3>1. m # NoLock
      BY EnsureAssumption
    <3>2. Users(m)' = Users(m)
      BY <1>1, <1>2, <2>2, <3>1 DEF Users
    <3>3. QED
      BY <1>1, <2>2, <3>2 DEF Counted
  <2>3. QED
    BY <2>1, <2>2
<1>7. QED
  BY <1>4, <1>5, <1>6

(* The last user of the lock, and no other, deletes it from ensureLocks.    *)
LEMMA UncountKeepsLock ==
    ASSUME EnsureInv, NEW c \in Ensurers, EnsureGiveUp(c) \/ EnsureUnref(c)
    PROVE  LockInv'
<1> USE DEF EnsureInv, EnsureTypeOK, LockInv
<1>1. PICK l \in KeyLocks : l = entry /\ l # NoLock /\ ensures[c].lock = l /\ ~Inside(c)
  BY EnsureAssumption DEF SameLock, EnsureGiveUp, EnsureUnref, EnsureAt, Inside
<1>2. /\ refs' = [refs EXCEPT ![l] = @ - 1]
      /\ entry' = IF refs'[l] = 0 THEN NoLock ELSE entry
      /\ ensures' = [ensures EXCEPT ![c] = Outside]
      /\ gates' = gates
  BY <1>1 DEF EnsureGiveUp, EnsureUnref, Uncount
<1>3. Users(l)' = Users(l) \ {c} /\ c \in Users(l)
  BY <1>1, <1>2 DEF Users, Outside
<1>4. refs'[l] = Cardinality(Users(l)')
  <2>1. Cardinality(Users(l)') = Cardinality(Users(l)) - 1
    BY <1>3, UsersFinite, FS_RemoveElement
  <2>2. QED
    BY <1>1, <1>2, <2>1 DEF Counted
<1>5. Counted'
  <2> SUFFICES ASSUME NEW m \in KeyLocks, m # l PROVE refs'[m] = Cardinality(Users(m)')
    BY <1>4 DEF Counted
  <2>1. m # NoLock
    BY EnsureAssumption
  <2>2. Users(m)' = Users(m)
    BY <1>1, <1>2, <2>1 DEF Users, Outside
  <2>3. QED
    BY <1>2, <2>2 DEF Counted
<1>6. refs'[l] = 0 <=> Users(l)' = {}
  <2>1. IsFiniteSet(Users(l) \ {c})
    BY UsersFinite, FS_RemoveElement
  <2>2. QED
    BY <1>3, <1>4, <2>1, FS_EmptySet
<1>7. \A d \in Ensurers : ensures'[d].at # "idle" => ensures[d].at # "idle" /\ d # c /\ ensures'[d].lock = l
  BY <1>1, <1>2 DEF SameLock, Outside
<1>8. SameLock' /\ InUse'
  <2>1. CASE refs'[l] = 0
    <3>1. \A d \in Ensurers : ensures'[d].lock # l
      BY <1>6, <2>1 DEF Users
    <3>2. entry' = NoLock
      BY <1>2, <2>1
    <3>3. \A d \in Ensurers : ensures'[d].lock \in {l, NoLock}
      BY <1>1, <1>2 DEF SameLock, Outside
    <3>4. QED
      BY <1>7, <3>1, <3>2, <3>3 DEF SameLock, InUse
  <2>2. CASE refs'[l] # 0
    <3>1. PICK d \in Ensurers : ensures'[d].lock = l
      BY <1>6, <2>2 DEF Users
    <3>2. entry' = l
      BY <1>1, <1>2, <2>2
    <3>3. \A e \in Ensurers : ensures'[e].at = "idle" => ensures'[e].lock = NoLock
      BY <1>1, <1>2 DEF SameLock, Outside
    <3>4. QED
      BY <1>1, <1>7, <3>1, <3>2, <3>3 DEF SameLock, InUse
  <2>3. QED
    BY <2>1, <2>2
<1>9. OneToken'
  <2>1. \A d \in Ensurers : Inside(d)' => Inside(d) /\ ensures'[d].lock = l /\ ensures'[d].at # "idle"
    BY <1>2, <1>7 DEF Inside, Outside
  <2>2. \A d \in Ensurers : Inside(d)' => entry' = l
    BY <1>8, <2>1 DEF SameLock
  <2>3. QED
    BY <1>1, <1>2, <2>1, <2>2 DEF OneToken
<1>10. QED
  BY <1>5, <1>8, <1>9

(* The token goes from the channel to one call, and back.                   *)
LEMMA TokenKeepsLock ==
    ASSUME EnsureInv, NEW c \in Ensurers, EnsureGate(c) \/ EnsureUnlock(c)
    PROVE  LockInv'
<1> USE DEF EnsureInv, EnsureTypeOK, LockInv
<1>1. ensures[c].lock = entry /\ entry # NoLock /\ entry \in KeyLocks
  BY EnsureAssumption DEF SameLock, EnsureGate, EnsureUnlock, EnsureAt
<1>2. UNCHANGED <<entry, refs>>
  BY DEF EnsureGate, EnsureUnlock
<1>3. \A d \in Ensurers : /\ ensures'[d].lock = ensures[d].lock
                          /\ d # c => ensures'[d].at = ensures[d].at
                          /\ ensures'[d].at = "idle" <=> ensures[d].at = "idle"
  BY DEF EnsureGate, EnsureUnlock, EnsureGoto, EnsureAt
<1>4. SameLock' /\ InUse'
  BY <1>2, <1>3 DEF SameLock, InUse
<1>5. Counted'
  <2>1. \A m : Users(m)' = Users(m)
    BY <1>3 DEF Users
  <2>2. QED
    BY <1>2, <2>1 DEF Counted
<1>6. OneToken'
  <2>1. CASE EnsureGate(c)
    <3>1. gates[entry] /\ ~gates'[entry] /\ \A d \in Ensurers : ~Inside(d)
      BY <1>1, <2>1 DEF EnsureGate, OneToken
    <3>2. QED
      BY <1>2, <1>3, <3>1 DEF OneToken, Inside
  <2>2. CASE EnsureUnlock(c)
    <3>1. Inside(c) /\ ~Inside(c)'
      BY <2>2 DEF EnsureUnlock, EnsureAt, EnsureGoto, Inside
    <3>2. \A d \in Ensurers : ~Inside(d)'
      BY <1>3, <3>1 DEF OneToken, Inside
    <3>3. QED
      BY <3>2 DEF OneToken
  <2>3. QED
    BY <2>1, <2>2
<1>7. QED
  BY <1>4, <1>5, <1>6

(* Every step of EnsureSandbox keeps what holds of the locks.               *)
LEMMA LockKept == EnsureInv /\ [EnsureNext]_ensureVars => LockInv'
<1> SUFFICES ASSUME EnsureInv, [EnsureNext]_ensureVars PROVE LockInv'
  OBVIOUS
<1>1. ASSUME NEW c \in Ensurers,
             EnsureExplicit(c) \/ EnsureReuse(c) \/ EnsureClear(c) \/ EnsureCreate(c) \/ EnsureRecord(c)
      PROVE  LockInv'
  <2>1. Inside(c) /\ UNCHANGED lockVars
    BY <1>1 DEF EnsureExplicit, EnsureReuse, EnsureClear, EnsureCreate, EnsureRecord, EnsureAt, Inside, lockVars
  <2>2. \/ \E label \in {"create", "leave"} : ensures' = [ensures EXCEPT ![c].at = label]
        \/ \E s \in SandboxIds : ensures' = [ensures EXCEPT ![c].at = "record", ![c].id = s]
        \/ ensures' = [ensures EXCEPT ![c].at = "leave", ![c].id = NoSandbox]
    BY <1>1 DEF EnsureExplicit, EnsureReuse, EnsureClear, EnsureCreate, EnsureRecord, EnsureGoto
  <2>3. \A d \in Ensurers : /\ ensures'[d].lock = ensures[d].lock
                            /\ ensures'[d].at = "idle" <=> ensures[d].at = "idle"
                            /\ Inside(d)' => Inside(d)
    BY <2>1, <2>2 DEF EnsureInv, EnsureTypeOK, Inside
  <2>4. QED
    BY <2>1, <2>3, LockUntouched DEF EnsureInv
<1>2. ASSUME NEW s \in SandboxIds, ServiceEnds(s) PROVE LockInv'
  BY <1>2, LockUntouched DEF ServiceEnds, Inside, EnsureInv
<1>3. CASE UNCHANGED ensureVars
  BY <1>3, LockUntouched DEF ensureVars, lockVars, Inside, EnsureInv
<1>4. QED
  BY <1>1, <1>2, <1>3, EnterKeepsLock, UncountKeepsLock, TokenKeepsLock DEF EnsureNext, EnsureStep

-----------------------------------------------------------------------------
(* Only the call with the token changes the tracked sandbox, and it makes   *)
(* one only when no other is followed.                                      *)
LEMMA FollowedKept == EnsureInv /\ [EnsureNext]_ensureVars => Followed'
<1> SUFFICES ASSUME EnsureInv, [EnsureNext]_ensureVars PROVE Followed'
  OBVIOUS
<1> USE EnsureAssumption DEF EnsureInv, EnsureTypeOK, EnsureAt, EnsureGoto
<1>1. ASSUME NEW c \in Ensurers,
             EnsureEnter(c) \/ EnsureGiveUp(c) \/ EnsureGate(c) \/ EnsureUnlock(c) \/ EnsureUnref(c)
      PROVE  Followed'
  <2>1. UNCHANGED <<tracked, answered>> /\ ensures[c].at \notin {"create", "record"}
    BY <1>1 DEF EnsureEnter, EnsureGiveUp, EnsureGate, EnsureUnlock, EnsureUnref
  <2>2. ensures'[c].at \notin {"create", "record"} /\ \A d \in Ensurers \ {c} : ensures'[d] = ensures[d]
    <3>1. CASE EnsureEnter(c)
      BY <3>1 DEF EnsureEnter
    <3>2. CASE EnsureGiveUp(c) \/ EnsureUnref(c)
      BY <3>2 DEF EnsureGiveUp, EnsureUnref, Uncount, Outside
    <3>3. CASE EnsureGate(c) \/ EnsureUnlock(c)
      BY <3>3 DEF EnsureGate, EnsureUnlock
    <3>4. QED
      BY <1>1, <3>1, <3>2, <3>3
  <2>3. QED
    BY <2>1, <2>2 DEF Followed
<1>2. ASSUME NEW c \in Ensurers, Inside(c) PROVE \A d \in Ensurers \ {c} : ensures[d].at \notin {"create", "record"}
  BY <1>2 DEF LockInv, OneToken, Inside
<1>3. ASSUME NEW c \in Ensurers, EnsureExplicit(c) \/ EnsureReuse(c) PROVE Followed'
  <2>1. ensures[c].at = "choose" /\ UNCHANGED <<tracked, answered>>
    BY <1>3 DEF EnsureExplicit, EnsureReuse, lockVars
  <2>2. answered \subseteq {tracked}
    BY <1>2, <2>1 DEF Followed, Inside
  <2>3. /\ ensures'[c].at # "create" /\ (ensures'[c].at = "record" => ensures'[c].id \in SandboxIds)
        /\ \A d \in Ensurers \ {c} : ensures'[d] = ensures[d]
    BY <1>3 DEF EnsureExplicit, EnsureReuse
  <2>4. QED
    BY <2>1, <2>2, <2>3 DEF Followed
<1>4. ASSUME NEW c \in Ensurers, EnsureClear(c) PROVE Followed'
  <2>1. ensures[c].at = "choose" /\ tracked' = NoSandbox
    BY <1>4 DEF EnsureClear
  <2>2. answered' = {}
    BY <1>2, <1>4, <2>1 DEF EnsureClear, Followed, Inside
  <2>3. ensures'[c].at = "create" /\ \A d \in Ensurers \ {c} : ensures'[d] = ensures[d]
    BY <1>4 DEF EnsureClear
  <2>4. QED
    BY <2>1, <2>2, <2>3 DEF Followed
<1>5. ASSUME NEW c \in Ensurers, EnsureCreate(c) PROVE Followed'
  <2>1. ensures[c].at \in {"choose", "create"} /\ tracked = NoSandbox /\ tracked' = NoSandbox
    BY <1>5 DEF EnsureCreate, Followed
  <2>2. answered = {}
    BY <1>2, <2>1 DEF Followed, Inside
  <2>3. \/ answered' = {} /\ ensures' = [ensures EXCEPT ![c].at = "leave"]
        \/ \E s \in SandboxIds : /\ answered' = {s}
                                 /\ ensures' = [ensures EXCEPT ![c].at = "record", ![c].id = s]
    BY <1>5, <2>2 DEF EnsureCreate
  <2>4. QED
    BY <2>1, <2>2, <2>3 DEF Followed
<1>6. ASSUME NEW c \in Ensurers, EnsureRecord(c) PROVE Followed'
  <2>1. ensures[c].at = "record" /\ ensures[c].id \in SandboxIds /\ tracked' = ensures[c].id
    BY <1>6 DEF EnsureRecord, Followed
  <2>2. \A s \in answered : s = tracked \/ (tracked = NoSandbox /\ s = ensures[c].id)
    BY <1>2, <2>1 DEF Followed, Inside
  <2>3. answered' \subseteq {ensures[c].id}
    BY <1>6, <2>2 DEF EnsureRecord
  <2>4. ensures'[c].at = "leave" /\ \A d \in Ensurers \ {c} : ensures'[d] = ensures[d]
    BY <1>6 DEF EnsureRecord
  <2>5. QED
    BY <1>2, <2>1, <2>3, <2>4 DEF Followed, Inside
<1>7. ASSUME NEW s \in SandboxIds, ServiceEnds(s) PROVE Followed'
  BY <1>7 DEF ServiceEnds, Followed
<1>8. CASE UNCHANGED ensureVars
  BY <1>8 DEF ensureVars, Followed
<1>9. QED
  BY <1>1, <1>3, <1>4, <1>5, <1>6, <1>7, <1>8 DEF EnsureNext, EnsureStep

-----------------------------------------------------------------------------
(* What EnsureSandbox rests on: one lock, one token, one followed sandbox.  *)
THEOREM EnsureInvariant == EnsureSpec => []EnsureInv
<1>1. EnsureInv /\ [EnsureNext]_ensureVars => EnsureInv'
  BY TypeKept, LockKept, FollowedKept DEF EnsureInv
<1>2. QED
  BY <1>1, EnsureInitial, PTL DEF EnsureSpec

(* However many calls of EnsureSandbox with a key overlap, time out or fail *)
(* they share one running sandbox.                                          *)
THEOREM OneSandboxPerKeyHolds == EnsureSpec => []OneSandboxPerKey
<1>1. EnsureInv => OneSandboxPerKey
  <2> SUFFICES ASSUME EnsureInv, NEW s \in answered, NEW t \in answered PROVE s = t
    BY DEF OneSandboxPerKey
  <2>1. s \in SandboxIds /\ t \in SandboxIds
    BY DEF EnsureInv, EnsureTypeOK
  <2>2. CASE s = tracked \/ t = tracked
    BY <2>1, <2>2, EnsureAssumption DEF EnsureInv, Followed
  <2>3. CASE s # tracked /\ t # tracked
    <3>1. PICK c \in Ensurers : ensures[c].at = "record" /\ ensures[c].id = s
      BY <2>3 DEF EnsureInv, Followed
    <3>2. PICK d \in Ensurers : ensures[d].at = "record" /\ ensures[d].id = t
      BY <2>3 DEF EnsureInv, Followed
    <3>3. QED
      BY <3>1, <3>2 DEF EnsureInv, LockInv, OneToken, Inside
  <2>4. QED
    BY <2>2, <2>3
<1>2. QED
  BY <1>1, EnsureInvariant, PTL

(* The count of lockEnsureKey is exact for any number of calls, and the     *)
(* lock is in ensureLocks exactly while it is used.                         *)
THEOREM LocksReclaimedHolds == EnsureSpec => []LocksReclaimed
<1>1. EnsureInv => LocksReclaimed
  <2> SUFFICES ASSUME EnsureInv, NEW l \in KeyLocks
               PROVE  refs[l] = Cardinality(Users(l)) /\ (l = entry <=> refs[l] > 0)
    BY DEF LocksReclaimed, Users
  <2>1. refs[l] = Cardinality(Users(l)) /\ refs[l] \in Nat
    BY UsersFinite DEF EnsureInv, LockInv, Counted
  <2>2. refs[l] > 0 <=> \E c \in Ensurers : ensures[c].lock = l
    <3>1. refs[l] = 0 <=> Users(l) = {}
      BY <2>1, UsersFinite
    <3>2. Users(l) = {} <=> ~\E c \in Ensurers : ensures[c].lock = l
      BY DEF Users
    <3>3. QED
      BY <2>1, <3>1, <3>2
  <2>3. l # NoLock
    BY EnsureAssumption
  <2>4. QED
    BY <2>1, <2>2, <2>3 DEF EnsureInv, LockInv, SameLock, InUse
<1>2. QED
  BY <1>1, EnsureInvariant, PTL

=============================================================================
