-------------------------- MODULE SpendGuardProofs --------------------------
(***************************************************************************)
(* Machine-checked facts about SpendGuard, for every number of processes,  *)
(* calls and days and every pair of limits.                                *)
(***************************************************************************)
EXTENDS SpendGuard, SumTheorems

LEMMA InitInv == Init => IInv
<1> SUFFICES ASSUME Init PROVE IInv
  OBVIOUS
<1>1. TypeOK
  <2>1. disk \in DiskState
    BY BootDiskAssumption DEF Init
  <2>2. clock \in Day /\ ledger \in [Day -> Int]
    BY ConstantsAssumption DEF Init, Day
  <2>3. mem \in [Server -> [day : {NoDay} \cup FileDay, spent : Nat]]
    BY DEF Init, Fresh
  <2>4. resDay \in [Call -> FileDay] /\ crashes \in Nat
    BY ConstantsAssumption DEF Init, FileDay
  <2>5. QED
    BY <2>1, <2>2, <2>3, <2>4 DEF TypeOK, Init, PC, Phase
<1>2. CallsSound
  BY DEF CallsSound, Init
<1>a. JobsSound
  BY DEF JobsSound, Init
<1>3. LockSound
  BY ConstantsAssumption DEF LockSound, Init, Holding, InLock
<1>4. NothingFromTheFuture
  <2>1. disk.day <= clock
    BY BootDiskAssumption DEF Init
  <2>2. QED
    BY <2>1 DEF NothingFromTheFuture, Fresh, NoDay, Day, Init
<1>5. DiskCoversLedger
  BY ConstantsAssumption, BootDiskAssumption DEF DiskCoversLedger, Init, Day
<1>6. MemoryCoversLedger
  BY DEF MemoryCoversLedger, Init
<1>7. LedgerWithinDailyLimit
  BY ConstantsAssumption DEF LedgerWithinDailyLimit, Init
<1>8. QED
  BY <1>a, <1>1, <1>2, <1>3, <1>4, <1>5, <1>6, <1>7 DEF IInv, ChainHolds

(* What the memory operations return. *)
LEMMA RolledFacts ==
  ASSUME TypeOK, NEW s \in Server, mem[s].day <= clock
  PROVE  /\ Rolled(mem[s]) \in [day : FileDay, spent : Nat]
         /\ Rolled(mem[s]).day = clock
         /\ Covers(mem[s]) => ledger[clock] <= Rolled(mem[s]).spent
BY ConstantsAssumption DEF TypeOK, Rolled, Covers, Day, FileDay, NoDay

(* ReadState's result, whatever the file says. *)
LEMMA SyncedFacts ==
  ASSUME TypeOK, NothingFromTheFuture, NEW s \in Server
  PROVE  LET m == Synced(Rolled(mem[s])) IN
         /\ m \in [day : FileDay, spent : Nat]
         /\ m.day = clock
         /\ DiskCoversLedger => Covers(m)
<1> DEFINE r == Rolled(mem[s])
           m == Synced(r)
<1>1. r \in [day : FileDay, spent : Nat] /\ r.day = clock
  BY RolledFacts DEF NothingFromTheFuture
<1> HIDE DEF r
<1>2. disk \in DiskState /\ clock \in Day /\ ledger[clock] \in Int /\ disk.day <= clock
  BY DEF TypeOK, NothingFromTheFuture
<1>3. m \in [day : FileDay, spent : Nat] /\ m.day = clock
  BY <1>1, <1>2, ConstantsAssumption DEF Synced, DiskState, Day, FileDay
<1>4. disk.kind = "valid" /\ disk.day = clock => disk.spent <= m.spent
  BY <1>1, <1>2, ConstantsAssumption DEF Synced, DiskState, Day, FileDay
<1>5. DiskCoversLedger => Covers(m)
  BY <1>2, <1>3, <1>4 DEF Covers, DiskCoversLedger, DiskState
<1>6. QED
  BY <1>3, <1>5 DEF r

(* What a guard loads at start-up covers what is on disk. *)
LEMMA LoadedFacts ==
  ASSUME TypeOK, NothingFromTheFuture, NEW m \in {Loaded, FullySpent}
  PROVE  /\ m \in [day : {NoDay} \cup FileDay, spent : Nat]
         /\ m.day <= clock
         /\ DiskCoversLedger /\ LedgerWithinDailyLimit => Covers(m)
<1>1. /\ disk \in DiskState
      /\ clock \in Day
      /\ ledger[clock] \in Int
      /\ LedgerWithinDailyLimit => ledger[clock] <= DailyLimitUsd
      /\ disk.day <= clock
  BY DEF TypeOK, NothingFromTheFuture, LedgerWithinDailyLimit
<1>2. CASE m = FullySpent
  BY <1>1, <1>2, ConstantsAssumption DEF FullySpent, Covers, Day, FileDay
<1>3. CASE m = Loaded
  <2>1. CASE disk.kind = "missing"
    BY <1>1, <1>3, <2>1, ConstantsAssumption
       DEF Loaded, Fresh, Covers, DiskCoversLedger, NoDay, Day
  <2>2. CASE disk.kind = "corrupt"
    BY <1>1, <1>3, <2>2, ConstantsAssumption
       DEF Loaded, FullySpent, Covers, Day, FileDay
  <2>3. CASE disk.kind = "valid"
    BY <1>1, <1>3, <2>3, ConstantsAssumption
       DEF Loaded, Covers, DiskCoversLedger, DiskState
  <2>4. QED
    BY <1>1, <2>1, <2>2, <2>3 DEF DiskState
<1>4. QED
  BY <1>2, <1>3

(* Either assumption of the cap guards every state. *)
LEMMA Guards == GuardAssumption /\ TypeOK => Guarded
BY ConstantsAssumption DEF GuardAssumption, OneProcess, Guarded, LoneProcess, TypeOK

(* Who runs a call is settled once: a guarded state was always guarded.    *)
HostsStay == \A c \in Call : host[c] # None => host'[c] = host[c]
LEMMA GuardStays ==
  ASSUME HostsStay
  PROVE  /\ Guarded' => Guarded
         /\ \A s \in Server : Alone(s)' => Alone(s)
BY DEF HostsStay, Guarded, LoneProcess, Alone

(* A process that works is the host of a call, and the only one of a lone  *)
(* process.                                                                *)
LEMMA WorkerIsAlone ==
  ASSUME TypeOK, JobsSound, LoneProcess, NEW s \in Server, pc[s] \notin {"down", "idle"}
  PROVE  Alone(s)
<1>1. job[s] \in Call /\ host[job[s]] = s /\ s # None
  BY ConstantsAssumption DEF JobsSound
<1>2. QED
  BY <1>1 DEF LoneProcess, Alone

(* Where the guard is safe, only one process at a time is in the section.  *)
LEMMA Exclusion ==
  ASSUME Guarded, TypeOK, JobsSound, LockSound,
         NEW s \in Server, NEW t \in Server, Holding(s), Holding(t)
  PROVE  s = t
<1>1. CASE LockReliable
  BY <1>1 DEF LockSound
<1>2. CASE LoneProcess
  <2>1. /\ job[s] \in Call /\ host[job[s]] = s /\ s # None
        /\ job[t] \in Call /\ host[job[t]] = t /\ t # None
    BY ConstantsAssumption DEF JobsSound, Holding, InLock
  <2>2. QED
    BY <1>2, <2>1 DEF LoneProcess
<1>3. QED
  BY <1>1, <1>2 DEF Guarded

(* Steps that touch neither the state file, nor a guard's memory, nor the  *)
(* ledger, nor the clock, and make nobody a holder that has read the file. *)
LEMMA QuietStep ==
  ASSUME IInv, UNCHANGED <<clock, disk, mem, ledger>>, HostsStay,
         \A s \in Server : pc'[s] = "read" => pc[s] = "read",
         \A s \in Server : pc[s] = "down" => pc'[s] = "down"
  PROVE  /\ NothingFromTheFuture'
         /\ Guarded' => ChainHolds'
<1>1. NothingFromTheFuture'
  BY DEF IInv, NothingFromTheFuture
<1>2. ASSUME Guarded' PROVE ChainHolds'
  <2>1. ChainHolds /\ \A s \in Server : Alone(s)' => Alone(s)
    BY <1>2, GuardStays DEF IInv
  <2>2. DiskCoversLedger'
    BY <2>1 DEF ChainHolds, DiskCoversLedger
  <2>3. MemoryCoversLedger'
    BY <2>1 DEF ChainHolds, MemoryCoversLedger, Covers
  <2>4. LedgerWithinDailyLimit'
    BY <2>1 DEF ChainHolds, LedgerWithinDailyLimit
  <2>5. QED
    BY <2>2, <2>3, <2>4 DEF ChainHolds
<1>3. QED
  BY <1>1, <1>2

LEMMA StartInv ==
  ASSUME IInv, NEW s \in Server, Start(s)
  PROVE  IInv'
<1>1. PICK m \in {Loaded, FullySpent} : mem' = [mem EXCEPT ![s] = m]
  BY DEF Start
<1>2. m \in [day : {NoDay} \cup FileDay, spent : Nat] /\ m.day <= clock
  BY LoadedFacts DEF IInv
<1>3. TypeOK'
  BY <1>1, <1>2 DEF IInv, TypeOK, Start, fileVars, callVars, PC
<1>4. CallsSound'
  BY DEF IInv, CallsSound, Start, callVars
<1>5. JobsSound'
  BY DEF IInv, TypeOK, JobsSound, Start, callVars
<1>6. LockSound'
  BY DEF IInv, TypeOK, LockSound, Start, fileVars, Holding, InLock, Waiting
<1>7. NothingFromTheFuture'
  BY <1>1, <1>2 DEF IInv, TypeOK, NothingFromTheFuture, Start, fileVars
<1>8. ASSUME Guarded' PROVE ChainHolds'
  <2>1. ChainHolds /\ \A t \in Server : Alone(t)' => Alone(t)
    BY <1>8, GuardStays DEF IInv, Start, callVars, HostsStay
  <2>2. Covers(m)
    BY <2>1, LoadedFacts DEF IInv, ChainHolds
  <2>3. DiskCoversLedger'
    BY <2>1 DEF ChainHolds, DiskCoversLedger, Start, fileVars
  <2>4. MemoryCoversLedger'
    BY <1>1, <2>1, <2>2 DEF IInv, TypeOK, ChainHolds, MemoryCoversLedger, Covers, Start
  <2>5. LedgerWithinDailyLimit'
    BY <2>1 DEF ChainHolds, LedgerWithinDailyLimit, Start
  <2>6. QED
    BY <2>3, <2>4, <2>5 DEF ChainHolds
<1>9. QED
  BY <1>3, <1>4, <1>5, <1>6, <1>7, <1>8 DEF IInv

LEMMA ReserveInv ==
  ASSUME IInv, NEW s \in Server, NEW c \in Call, NEW a \in Sizes, Reserve(s, c, a)
  PROVE  IInv'
<1>1. TypeOK'
  <2>1. a \in Int
    BY ConstantsAssumption
  <2>2. CASE a <= 0
    BY <2>1, <2>2 DEF IInv, TypeOK, Reserve, fileVars, Phase
  <2>3. CASE a > 0
    BY <2>1, <2>3
    DEF IInv, TypeOK, Reserve, EnterLock, fileVars, PC, Waiting, Phase
  <2>4. QED
    BY <2>1, <2>2, <2>3
<1>2. CallsSound'
  BY DEF IInv, TypeOK, CallsSound, Reserve, callVars
<1>a. JobsSound'
  BY DEF IInv, TypeOK, JobsSound, Reserve, EnterLock, CallsSound, callVars
<1>3. LockSound'
  BY DEF IInv, TypeOK, LockSound, Reserve, EnterLock, fileVars, Holding, InLock
<1>4. UNCHANGED <<clock, disk, mem, ledger>> /\ HostsStay
  BY DEF Reserve, fileVars, HostsStay, callVars, IInv, TypeOK, CallsSound
<1>5. \A t \in Server : /\ pc'[t] = "read" => pc[t] = "read"
                        /\ pc[t] = "down" => pc'[t] = "down"
  BY DEF IInv, TypeOK, Reserve, EnterLock
<1>6. QED
  BY <1>a, <1>1, <1>2, <1>3, <1>4, <1>5, QuietStep DEF IInv

LEMMA ReleaseInv ==
  ASSUME IInv, NEW s \in Server, NEW c \in Call, Release(s, c)
  PROVE  IInv'
<1>1. TypeOK'
  BY DEF IInv, TypeOK, Release, EnterLock, fileVars, callVars, PC, Waiting, Phase
<1>2. CallsSound'
  BY DEF IInv, TypeOK, CallsSound, Release, callVars
<1>a. JobsSound'
  BY DEF IInv, TypeOK, JobsSound, Release, EnterLock, Waiting, callVars
<1>3. LockSound'
  BY DEF IInv, TypeOK, LockSound, Release, EnterLock, fileVars, Holding, InLock
<1>4. UNCHANGED <<clock, disk, mem, ledger>> /\ HostsStay
  BY DEF Release, fileVars, HostsStay
<1>5. \A t \in Server : /\ pc'[t] = "read" => pc[t] = "read"
                        /\ pc[t] = "down" => pc'[t] = "down"
  BY DEF IInv, TypeOK, Release, EnterLock
<1>6. QED
  BY <1>a, <1>1, <1>2, <1>3, <1>4, <1>5, QuietStep DEF IInv

LEMMA KeepInv ==
  ASSUME IInv, NEW s \in Server, NEW c \in Call, Keep(s, c)
  PROVE  IInv'
<1>1. TypeOK'
  BY DEF IInv, TypeOK, Keep, fileVars, callVars, Phase
<1>2. CallsSound'
  BY DEF IInv, TypeOK, CallsSound, Keep
<1>a. JobsSound'
  BY DEF IInv, TypeOK, JobsSound, Keep
<1>3. LockSound'
  BY DEF IInv, LockSound, Keep, fileVars, Holding
<1>4. UNCHANGED <<clock, disk, mem, ledger, pc>> /\ HostsStay
  BY DEF Keep, fileVars, HostsStay
<1>5. QED
  BY <1>a, <1>1, <1>2, <1>3, <1>4, QuietStep DEF IInv

LEMMA TryLockInv ==
  ASSUME IInv, NEW s \in Server, TryLock(s)
  PROVE  IInv'
<1>1. TypeOK'
  BY DEF IInv, TypeOK, TryLock, callVars, PC, Waiting, InLock
<1>2. CallsSound'
  BY DEF IInv, CallsSound, TryLock, callVars
<1>a. JobsSound'
  BY DEF IInv, TypeOK, JobsSound, TryLock, callVars
<1>3. LockSound'
  BY ConstantsAssumption
  DEF IInv, TypeOK, LockSound, TryLock, Holding, InLock
<1>4. UNCHANGED <<clock, disk, mem, ledger>> /\ HostsStay
  BY DEF TryLock, HostsStay, callVars
<1>5. \A t \in Server : /\ pc'[t] = "read" => pc[t] = "read"
                        /\ pc[t] = "down" => pc'[t] = "down"
  BY DEF IInv, TypeOK, TryLock
<1>6. QED
  BY <1>a, <1>1, <1>2, <1>3, <1>4, <1>5, QuietStep DEF IInv

(* Giving up on the lock ends the call and changes no total. *)
LEMMA LockFailedInv ==
  ASSUME IInv, NEW s \in Server, pc[s] \in Waiting, LockFailed(s),
         UNCHANGED <<clock, disk, late, mem, host, amount, resDay, ledger, crashes>>,
         lockOwner' \in Server \cup {None}, lockStale' \in BOOLEAN,
         LockReliable => UNCHANGED <<lockOwner, lockStale>>
  PROVE  IInv'
<1>1. TypeOK'
  BY DEF IInv, TypeOK, LockFailed, PC, Phase
<1>2. CallsSound'
  BY DEF IInv, TypeOK, CallsSound, LockFailed
<1>a. JobsSound'
  BY DEF IInv, TypeOK, JobsSound, LockFailed, Waiting
<1>3. LockSound'
  BY DEF IInv, TypeOK, LockSound, LockFailed, Holding, InLock, Waiting
<1>5. \A t \in Server : /\ pc'[t] = "read" => pc[t] = "read"
                        /\ pc[t] = "down" => pc'[t] = "down"
  BY DEF IInv, TypeOK, LockFailed, Waiting
<1>6. QED
  BY <1>a, <1>1, <1>2, <1>3, <1>5, QuietStep DEF IInv, HostsStay

LEMMA OpenLockFailsInv ==
  ASSUME IInv, NEW s \in Server, OpenLockFails(s)
  PROVE  IInv'
<1>1. /\ lockOwner' \in Server \cup {None}
      /\ lockStale' \in BOOLEAN
      /\ LockReliable => UNCHANGED <<lockOwner, lockStale>>
  BY DEF IInv, TypeOK, OpenLockFails, LockReliable
<1>2. QED
  BY <1>1, LockFailedInv DEF OpenLockFails, Waiting

LEMMA InspectLockInv ==
  ASSUME IInv, NEW s \in Server, InspectLock(s)
  PROVE  IInv'
<1>1. CASE LockFailed(s)
  BY <1>1, LockFailedInv DEF InspectLock, fileVars, Waiting, IInv, TypeOK
<1>2. CASE ~LockFailed(s)
  <2>1. PICK p \in {"trying", "busting"} :
          /\ pc' = [pc EXCEPT ![s] = p]
          /\ p = "busting" => lockStale
    BY <1>2 DEF InspectLock
  <2>2. UNCHANGED <<clock, fileVars, late, mem, job, callVars, ledger, crashes>>
    BY <1>2 DEF InspectLock, callVars
  <2>3. pc[s] = "found"
    BY DEF InspectLock
  <2>4. TypeOK'
    BY <2>1, <2>2 DEF IInv, TypeOK, fileVars, callVars, PC, Waiting
  <2>5. CallsSound'
    BY <2>2 DEF IInv, CallsSound, callVars
  <2>6. LockSound'
    BY <2>1, <2>2, <2>3 DEF IInv, TypeOK, LockSound, fileVars, Holding, InLock
  <2>7. \A t \in Server : /\ pc'[t] = "read" => pc[t] = "read"
                          /\ pc[t] = "down" => pc'[t] = "down"
    BY <2>1, <2>3 DEF IInv, TypeOK
  <2>8. JobsSound'
    BY <2>1, <2>2, <2>3 DEF IInv, TypeOK, JobsSound, callVars
  <2>9. QED
    BY <2>2, <2>4, <2>5, <2>6, <2>7, <2>8, QuietStep DEF IInv, fileVars, callVars, HostsStay
<1>3. QED
  BY <1>1, <1>2

LEMMA BustLockInv ==
  ASSUME IInv, NEW s \in Server, BustLock(s)
  PROVE  IInv'
<1>1. TypeOK'
  BY DEF IInv, TypeOK, BustLock, UnlinkLock, callVars, PC, Waiting
<1>2. CallsSound'
  BY DEF IInv, CallsSound, BustLock, callVars
<1>a. JobsSound'
  BY DEF IInv, TypeOK, JobsSound, BustLock, callVars
<1>3. LockSound'
  BY DEF IInv, TypeOK, LockSound, BustLock
<1>4. UNCHANGED <<clock, disk, mem, ledger>> /\ HostsStay
  BY DEF BustLock, HostsStay, callVars
<1>5. \A t \in Server : /\ pc'[t] = "read" => pc[t] = "read"
                        /\ pc[t] = "down" => pc'[t] = "down"
  BY DEF IInv, TypeOK, BustLock
<1>6. QED
  BY <1>a, <1>1, <1>2, <1>3, <1>4, <1>5, QuietStep DEF IInv

LEMMA DeadlinePassesInv ==
  ASSUME IInv, NEW s \in Server, DeadlinePasses(s)
  PROVE  IInv'
<1>1. TypeOK'
  BY DEF IInv, TypeOK, DeadlinePasses, fileVars, callVars
<1>2. CallsSound'
  BY DEF IInv, CallsSound, DeadlinePasses, callVars
<1>a. JobsSound'
  BY DEF IInv, TypeOK, JobsSound, DeadlinePasses, callVars
<1>3. LockSound'
  BY DEF IInv, LockSound, DeadlinePasses, fileVars, Holding
<1>4. UNCHANGED <<clock, disk, mem, ledger, pc>> /\ HostsStay
  BY DEF DeadlinePasses, fileVars, HostsStay, callVars
<1>5. QED
  BY <1>a, <1>1, <1>2, <1>3, <1>4, QuietStep DEF IInv

LEMMA LockAgesInv ==
  ASSUME IInv, LockAges
  PROVE  IInv'
<1>1. TypeOK'
  BY DEF IInv, TypeOK, LockAges, callVars
<1>2. CallsSound'
  BY DEF IInv, CallsSound, LockAges, callVars
<1>a. JobsSound'
  BY DEF IInv, TypeOK, JobsSound, LockAges, callVars
<1>3. LockSound'
  BY DEF IInv, TypeOK, LockSound, LockAges, LockReliable
<1>4. UNCHANGED <<clock, disk, mem, ledger, pc>> /\ HostsStay
  BY DEF LockAges, HostsStay, callVars
<1>5. QED
  BY <1>a, <1>1, <1>2, <1>3, <1>4, QuietStep DEF IInv

LEMMA ReadStateInv ==
  ASSUME IInv, NEW s \in Server, ReadState(s)
  PROVE  IInv'
<1> DEFINE m == mem'[s]
<1>1. mem' = [mem EXCEPT ![s] = m]
  BY DEF ReadState, IInv, TypeOK
<1>2. mem[s].day <= clock
  BY DEF IInv, NothingFromTheFuture
<1>3. m = Synced(Rolled(mem[s])) \/ (ReadMayFail /\ m = Rolled(mem[s]))
  BY DEF ReadState, IInv, TypeOK
<1>4. m \in [day : FileDay, spent : Nat] /\ m.day = clock
  BY <1>2, <1>3, SyncedFacts, RolledFacts DEF IInv
<1>5. ASSUME Guarded PROVE Covers(m)
  <2>1. CASE m = Synced(Rolled(mem[s]))
    BY <1>5, <2>1, SyncedFacts DEF IInv, ChainHolds
  <2>2. CASE ReadMayFail /\ m = Rolled(mem[s])
    <3>1. LoneProcess
      BY <1>5, <2>2 DEF Guarded, LockReliable
    <3>2. Alone(s) /\ pc[s] # "down"
      BY <3>1, WorkerIsAlone DEF IInv, ReadState
    <3>3. Covers(mem[s])
      BY <1>5, <3>2 DEF IInv, ChainHolds, MemoryCoversLedger
    <3>4. QED
      BY <1>2, <2>2, <3>3, RolledFacts DEF IInv, Covers
  <2>3. QED
    BY <1>3, <2>1, <2>2
<1> HIDE DEF m
<1>6. TypeOK'
  BY <1>1, <1>4 DEF IInv, TypeOK, ReadState, fileVars, callVars, PC, InLock
<1>7. CallsSound'
  BY DEF IInv, CallsSound, ReadState, callVars
<1>8. JobsSound'
  BY DEF IInv, TypeOK, JobsSound, ReadState, callVars
<1>9. LockSound'
  BY DEF IInv, TypeOK, LockSound, ReadState, fileVars, Holding, InLock
<1>10. NothingFromTheFuture'
  <2>1. m.day <= clock
    BY <1>4 DEF IInv, TypeOK, Day
  <2>2. \A t \in Server : mem'[t].day <= clock
    BY <1>1, <2>1 DEF IInv, TypeOK, NothingFromTheFuture
  <2>3. QED
    BY <2>2 DEF IInv, NothingFromTheFuture, ReadState, fileVars
<1>11. ASSUME Guarded' PROVE ChainHolds'
  <2>1. Guarded /\ \A t \in Server : Alone(t)' => Alone(t)
    BY <1>11, GuardStays DEF ReadState, callVars, HostsStay
  <2>2. DiskCoversLedger'
    BY <2>1 DEF IInv, ChainHolds, DiskCoversLedger, ReadState, fileVars
  <2>3. MemoryCoversLedger'
    BY <1>1, <1>5, <2>1 DEF IInv, TypeOK, ChainHolds, MemoryCoversLedger, Covers, ReadState
  <2>4. LedgerWithinDailyLimit'
    BY <2>1 DEF IInv, ChainHolds, LedgerWithinDailyLimit, ReadState
  <2>5. QED
    BY <2>2, <2>3, <2>4 DEF ChainHolds
<1>12. QED
  BY <1>6, <1>7, <1>8, <1>9, <1>10, <1>11 DEF IInv

(* What the holder that has read the file knows before it decides. *)
LEMMA DecisionFacts ==
  ASSUME IInv, NEW s \in Server, pc[s] = "read"
  PROVE  /\ Rolled(mem[s]) \in [day : FileDay, spent : Nat]
         /\ Rolled(mem[s]).day = clock
         /\ clock \in Day
         /\ ledger[clock] \in Int
         /\ Guarded => ledger[clock] <= Rolled(mem[s]).spent
<1>1. mem[s].day <= clock
  BY DEF IInv, NothingFromTheFuture
<1>2. Guarded => Covers(mem[s])
  BY DEF IInv, ChainHolds, MemoryCoversLedger
<1>3. QED
  BY <1>1, <1>2, RolledFacts DEF IInv, TypeOK

(* A decision leaves the lock with its holder, and nobody else is about to *)
(* decide or to be trusted with the memory it has.                         *)
LEMMA FinishLock ==
  ASSUME IInv, NEW s \in Server, NEW c \in Call, NEW p \in Phase, p # "new",
         pc[s] = "read", job[s] = c, Finish(s, c, p), UNCHANGED <<lockOwner, lockStale, host>>
  PROVE  /\ LockSound'
         /\ pc' \in [Server -> PC]
         /\ phase' \in [Call -> Phase]
         /\ Guarded' => /\ Guarded /\ ChainHolds
                        /\ \A t \in Server : pc'[t] # "read" /\ (Alone(t)' => t = s)
<1>1. LockSound'
  BY DEF IInv, TypeOK, LockSound, Finish, Holding, InLock
<1>2. pc' \in [Server -> PC] /\ phase' \in [Call -> Phase]
  BY DEF IInv, TypeOK, Finish, PC, InLock
<1>3. Guarded' => Guarded /\ ChainHolds
  BY GuardStays DEF HostsStay, IInv
<1>4. ASSUME Guarded', NEW t \in Server, pc'[t] = "read"
      PROVE  FALSE
  <2>1. t # s /\ pc[t] = "read"
    BY <1>4 DEF IInv, TypeOK, Finish
  <2>2. QED
    BY <1>3, <1>4, <2>1, Exclusion DEF IInv, Holding, InLock
<1>5. ASSUME NEW t \in Server, Alone(t)'
      PROVE  t = s
  BY <1>5, ConstantsAssumption DEF IInv, JobsSound, Alone
<1>6. QED
  BY <1>1, <1>2, <1>3, <1>4, <1>5

LEMMA CommitReserveInv ==
  ASSUME IInv, NEW s \in Server, NEW c \in Call, CommitReserve(s, c)
  PROVE  IInv'
<1> DEFINE m == Rolled(mem[s])
           n == Plus(m, amount[c])
<1>1. /\ m \in [day : FileDay, spent : Nat]
      /\ m.day = clock
      /\ clock \in Day
      /\ ledger[clock] \in Int
      /\ Guarded => ledger[clock] <= m.spent
  BY DecisionFacts DEF CommitReserve
<1>2. amount[c] \in Int /\ amount[c] > 0
  BY DEF CommitReserve, IInv, TypeOK, CallsSound
<1>3. /\ pc[s] = "read"
      /\ Fits(m, amount[c])
      /\ mem' = [mem EXCEPT ![s] = n]
      /\ disk' = Saved(n)
      /\ resDay' = [resDay EXCEPT ![c] = m.day]
      /\ ledger' = [ledger EXCEPT ![m.day] = @ + amount[c]]
      /\ Finish(s, c, "reserved")
      /\ UNCHANGED <<clock, lockOwner, lockStale, late, job, host, amount, crashes>>
  BY DEF CommitReserve
<1> HIDE DEF m
<1>4. n \in [day : FileDay, spent : Nat] /\ n.day = clock /\ n.spent = m.spent + amount[c]
  BY <1>1, <1>2 DEF Plus
<1> HIDE DEF n
<1>5. disk' \in DiskState /\ disk'.kind = "valid" /\ disk'.day = clock /\ disk'.spent = n.spent
  BY <1>3, <1>4 DEF Saved, Valid, DiskState
<1>6. ledger' \in [Day -> Int] /\ ledger'[clock] = ledger[clock] + amount[c]
  BY <1>1, <1>2, <1>3 DEF IInv, TypeOK
<1>7. /\ LockSound'
      /\ pc' \in [Server -> PC]
      /\ phase' \in [Call -> Phase]
      /\ Guarded' => /\ Guarded /\ ChainHolds
                     /\ \A t \in Server : pc'[t] # "read" /\ (Alone(t)' => t = s)
  BY <1>3, FinishLock DEF Phase, CommitReserve
<1>8. TypeOK'
  BY <1>1, <1>3, <1>4, <1>5, <1>6, <1>7 DEF IInv, TypeOK
<1>9. CallsSound'
  BY <1>2, <1>3 DEF IInv, TypeOK, CallsSound, CommitReserve, Finish
<1>10. JobsSound'
  BY DEF IInv, TypeOK, JobsSound, CommitReserve, Finish
<1>11. NothingFromTheFuture'
  BY <1>1, <1>3, <1>4, <1>5 DEF IInv, TypeOK, NothingFromTheFuture, Day
<1>12. ASSUME Guarded' PROVE ChainHolds'
  <2>1. DiskCoversLedger'
    BY <1>1, <1>2, <1>3, <1>4, <1>5, <1>6, <1>7, <1>12 DEF DiskCoversLedger
  <2>2. MemoryCoversLedger'
    BY <1>1, <1>2, <1>3, <1>4, <1>6, <1>7, <1>12 DEF IInv, TypeOK, MemoryCoversLedger, Covers
  <2>3. ledger'[clock] <= DailyLimitUsd
    BY <1>1, <1>2, <1>3, <1>6, <1>7, <1>12, ConstantsAssumption DEF Fits
  <2>4. LedgerWithinDailyLimit'
    BY <1>1, <1>3, <1>7, <1>12, <2>3 DEF IInv, TypeOK, ChainHolds, LedgerWithinDailyLimit
  <2>5. QED
    BY <2>1, <2>2, <2>4 DEF ChainHolds
<1>13. QED
  BY <1>7, <1>8, <1>9, <1>10, <1>11, <1>12 DEF IInv

(* A decision that only rolls the holder's memory to today. *)
LEMMA IdleDecision ==
  ASSUME IInv, NEW s \in Server, NEW c \in Call,
         NEW p \in {"refused", "unrefunded"},
         pc[s] = "read", job[s] = c,
         mem' = [mem EXCEPT ![s] = Rolled(mem[s])],
         Finish(s, c, p),
         UNCHANGED <<clock, fileVars, late, job, host, amount, resDay, ledger, crashes>>
  PROVE  IInv'
<1> DEFINE m == Rolled(mem[s])
<1>1. /\ m \in [day : FileDay, spent : Nat]
      /\ m.day = clock
      /\ Guarded => ledger[clock] <= m.spent
  BY DecisionFacts
<1>2. mem' = [mem EXCEPT ![s] = m]
  OBVIOUS
<1> HIDE DEF m
<1>3. /\ LockSound'
      /\ pc' \in [Server -> PC]
      /\ phase' \in [Call -> Phase]
      /\ Guarded' => /\ Guarded /\ ChainHolds
                     /\ \A t \in Server : pc'[t] # "read" /\ (Alone(t)' => t = s)
  BY FinishLock DEF Phase, fileVars
<1>4. TypeOK'
  BY <1>1, <1>2, <1>3 DEF IInv, TypeOK, fileVars
<1>5. CallsSound'
  BY DEF IInv, TypeOK, CallsSound, Finish
<1>6. JobsSound'
  BY DEF IInv, TypeOK, JobsSound, Finish
<1>7. NothingFromTheFuture'
  BY <1>1, <1>2 DEF IInv, TypeOK, NothingFromTheFuture, fileVars, Day
<1>8. ASSUME Guarded' PROVE ChainHolds'
  <2>1. DiskCoversLedger'
    BY <1>3, <1>8 DEF ChainHolds, DiskCoversLedger, fileVars
  <2>2. MemoryCoversLedger'
    BY <1>1, <1>2, <1>3, <1>8 DEF IInv, TypeOK, MemoryCoversLedger, Covers
  <2>3. LedgerWithinDailyLimit'
    BY <1>3, <1>8 DEF ChainHolds, LedgerWithinDailyLimit
  <2>4. QED
    BY <2>1, <2>2, <2>3 DEF ChainHolds
<1>9. QED
  BY <1>3, <1>4, <1>5, <1>6, <1>7, <1>8 DEF IInv

LEMMA RefuseReserveInv ==
  ASSUME IInv, NEW s \in Server, NEW c \in Call, RefuseReserve(s, c)
  PROVE  IInv'
BY IdleDecision DEF RefuseReserve

LEMMA DropReleaseInv ==
  ASSUME IInv, NEW s \in Server, NEW c \in Call, DropRelease(s, c)
  PROVE  IInv'
BY IdleDecision DEF DropRelease

LEMMA CommitReleaseInv ==
  ASSUME IInv, NEW s \in Server, NEW c \in Call, CommitRelease(s, c)
  PROVE  IInv'
<1> DEFINE m == Rolled(mem[s])
           n == Minus(m, amount[c])
<1>1. /\ m \in [day : FileDay, spent : Nat]
      /\ m.day = clock
      /\ clock \in Day
      /\ ledger[clock] \in Int
      /\ Guarded => ledger[clock] <= m.spent
  BY DecisionFacts DEF CommitRelease
<1>2. amount[c] \in Int /\ amount[c] > 0
  BY DEF CommitRelease, IInv, TypeOK, CallsSound
<1>3. /\ pc[s] = "read"
      /\ mem' = [mem EXCEPT ![s] = n]
      /\ disk' = Saved(n) \/ UNCHANGED disk
      /\ ledger' = [ledger EXCEPT ![m.day] = @ - amount[c]]
      /\ Finish(s, c, "refunded")
      /\ UNCHANGED <<clock, lockOwner, lockStale, late, job, host, amount, resDay, crashes>>
  BY DEF CommitRelease
<1> HIDE DEF m
<1>4. /\ n \in [day : FileDay, spent : Nat]
      /\ n.day = clock
      /\ m.spent - amount[c] <= n.spent
  BY <1>1, <1>2 DEF Minus
<1> HIDE DEF n
<1>5. ledger' \in [Day -> Int] /\ ledger'[clock] = ledger[clock] - amount[c]
  BY <1>1, <1>2, <1>3 DEF IInv, TypeOK
<1>6. /\ disk' \in DiskState
      /\ disk'.day <= clock
      /\ \/ disk'.kind = "valid" /\ disk'.day = clock /\ disk'.spent = n.spent
         \/ UNCHANGED disk
  <2>1. CASE disk' = Saved(n)
    BY <2>1, <1>1, <1>4 DEF Saved, Valid, DiskState, Day
  <2>2. CASE UNCHANGED disk
    BY <2>2 DEF IInv, TypeOK, NothingFromTheFuture
  <2>3. QED
    BY <1>3, <2>1, <2>2
<1>7. /\ LockSound'
      /\ pc' \in [Server -> PC]
      /\ phase' \in [Call -> Phase]
      /\ Guarded' => /\ Guarded /\ ChainHolds
                     /\ \A t \in Server : pc'[t] # "read" /\ (Alone(t)' => t = s)
  BY <1>3, FinishLock DEF Phase, CommitRelease
<1>8. TypeOK'
  BY <1>1, <1>3, <1>4, <1>5, <1>6, <1>7 DEF IInv, TypeOK
<1>9. CallsSound'
  BY <1>3 DEF IInv, TypeOK, CallsSound, Finish
<1>10. JobsSound'
  BY DEF IInv, TypeOK, JobsSound, CommitRelease, Finish
<1>11. NothingFromTheFuture'
  BY <1>1, <1>3, <1>4, <1>6 DEF IInv, TypeOK, NothingFromTheFuture, Day
<1>12. ASSUME Guarded' PROVE ChainHolds'
  <2>1. DiskCoversLedger'
    <3>1. DiskCoversLedger /\ disk \in DiskState
      BY <1>7, <1>12 DEF ChainHolds, IInv, TypeOK
    <3>2. QED
      BY <3>1, <1>1, <1>2, <1>3, <1>4, <1>5, <1>6, <1>7, <1>12 DEF DiskCoversLedger, DiskState
  <2>2. MemoryCoversLedger'
    BY <1>1, <1>2, <1>3, <1>4, <1>5, <1>7, <1>12 DEF IInv, TypeOK, MemoryCoversLedger, Covers
  <2>3. LedgerWithinDailyLimit'
    BY <1>1, <1>2, <1>3, <1>7, <1>12, ConstantsAssumption
    DEF IInv, TypeOK, ChainHolds, LedgerWithinDailyLimit
  <2>4. QED
    BY <2>1, <2>2, <2>3 DEF ChainHolds
<1>13. QED
  BY <1>7, <1>8, <1>9, <1>10, <1>11, <1>12 DEF IInv

LEMMA UnlockInv ==
  ASSUME IInv, NEW s \in Server, Unlock(s)
  PROVE  IInv'
<1>1. TypeOK'
  BY DEF IInv, TypeOK, Unlock, UnlinkLock, callVars, PC
<1>2. CallsSound'
  BY DEF IInv, CallsSound, Unlock, callVars
<1>a. JobsSound'
  BY DEF IInv, TypeOK, JobsSound, Unlock, callVars
<1>3. LockSound'
  BY ConstantsAssumption
  DEF IInv, TypeOK, LockSound, LockReliable, Unlock, UnlinkLock, Holding, InLock
<1>4. UNCHANGED <<clock, disk, mem, ledger>> /\ HostsStay
  BY DEF Unlock, HostsStay, callVars
<1>5. \A t \in Server : /\ pc'[t] = "read" => pc[t] = "read"
                        /\ pc[t] = "down" => pc'[t] = "down"
  BY DEF IInv, TypeOK, Unlock
<1>6. QED
  BY <1>a, <1>1, <1>2, <1>3, <1>4, <1>5, QuietStep DEF IInv

LEMMA CrashInv ==
  ASSUME IInv, NEW s \in Server, Crash(s)
  PROVE  IInv'
<1>1. TypeOK'
  BY DEF IInv, TypeOK, Crash, fileVars, Fresh, PC, Phase
<1>2. CallsSound'
  BY DEF IInv, TypeOK, CallsSound, Crash
<1>3. JobsSound'
  BY DEF IInv, TypeOK, JobsSound, Crash
<1>4. LockSound'
  BY DEF IInv, TypeOK, LockSound, LockReliable, Crash, fileVars, Holding, InLock
<1>5. NothingFromTheFuture'
  BY DEF IInv, TypeOK, NothingFromTheFuture, Crash, fileVars, Fresh, NoDay, Day
<1>6. ASSUME Guarded' PROVE ChainHolds'
  <2>1. ChainHolds /\ \A t \in Server : Alone(t)' => Alone(t)
    BY <1>6, GuardStays DEF IInv, Crash, HostsStay
  <2>2. DiskCoversLedger'
    BY <2>1 DEF ChainHolds, DiskCoversLedger, Crash, fileVars
  <2>3. MemoryCoversLedger'
    BY <2>1 DEF IInv, TypeOK, ChainHolds, MemoryCoversLedger, Covers, Crash
  <2>4. LedgerWithinDailyLimit'
    BY <2>1 DEF ChainHolds, LedgerWithinDailyLimit, Crash
  <2>5. QED
    BY <2>2, <2>3, <2>4 DEF ChainHolds
<1>7. QED
  BY <1>1, <1>2, <1>3, <1>4, <1>5, <1>6 DEF IInv

(* Midnight opens a day nothing is charged to yet. *)
LEMMA MidnightInv ==
  ASSUME IInv, Midnight
  PROVE  IInv'
<1>1. clock' \in Day /\ clock' > clock /\ ledger'[clock'] = 0
  BY ConstantsAssumption DEF IInv, TypeOK, NothingFromTheFuture, Midnight, Day
<1>2. TypeOK'
  BY <1>1 DEF IInv, TypeOK, Midnight, fileVars, callVars
<1>3. CallsSound'
  BY DEF IInv, CallsSound, Midnight, callVars
<1>a. JobsSound'
  BY DEF IInv, TypeOK, JobsSound, Midnight, callVars
<1>4. LockSound'
  BY DEF IInv, LockSound, Midnight, fileVars, Holding
<1>5. NothingFromTheFuture'
  <2>1. clock \in Int /\ clock' \in Int /\ disk.day \in Int
    BY <1>1 DEF IInv, TypeOK, DiskState, FileDay, Day
  <2>2. \A s \in Server : mem[s].day \in Int
    BY DEF IInv, TypeOK, FileDay, NoDay
  <2>3. disk'.day <= clock'
    BY <1>1, <2>1 DEF IInv, NothingFromTheFuture, Midnight, fileVars
  <2>4. \A s \in Server : mem'[s].day <= clock'
    BY <1>1, <2>1, <2>2 DEF IInv, NothingFromTheFuture, Midnight
  <2>5. \A d \in Day : d > clock' => ledger'[d] = 0
    BY <1>1, <2>1 DEF IInv, NothingFromTheFuture, Midnight, Day
  <2>6. QED
    BY <2>3, <2>4, <2>5 DEF NothingFromTheFuture
<1>6. ASSUME Guarded' PROVE ChainHolds'
  <2>1. ChainHolds
    BY <1>6, GuardStays DEF IInv, Midnight, callVars, HostsStay
  <2>2. DiskCoversLedger'
    BY <1>1 DEF IInv, TypeOK, DiskCoversLedger, DiskState, Midnight, fileVars
  <2>3. MemoryCoversLedger'
    BY <1>1 DEF IInv, TypeOK, MemoryCoversLedger, Covers, Midnight
  <2>4. LedgerWithinDailyLimit'
    BY <2>1 DEF ChainHolds, LedgerWithinDailyLimit, Midnight
  <2>5. QED
    BY <2>2, <2>3, <2>4 DEF ChainHolds
<1>7. QED
  BY <1>a, <1>2, <1>3, <1>4, <1>5, <1>6 DEF IInv

-----------------------------------------------------------------------------
LEMMA NextInv == IInv /\ [Next]_vars => IInv'
<1> SUFFICES ASSUME IInv, [Next]_vars PROVE IInv'
  OBVIOUS
<1>1. ASSUME NEW s \in Server, Work(s) PROVE IInv'
  BY <1>1, TryLockInv, OpenLockFailsInv, InspectLockInv, BustLockInv, ReadStateInv,
     CommitReserveInv, RefuseReserveInv, CommitReleaseInv, DropReleaseInv, UnlockInv
  DEF Work
<1>2. ASSUME NEW s \in Server, Start(s) \/ DeadlinePasses(s) \/ Crash(s) PROVE IInv'
  BY <1>2, StartInv, DeadlinePassesInv, CrashInv
<1>3. ASSUME NEW s \in Server, NEW c \in Call, Release(s, c) \/ Keep(s, c) PROVE IInv'
  BY <1>3, ReleaseInv, KeepInv
<1>4. ASSUME NEW s \in Server, NEW c \in Call, NEW a \in Sizes, Reserve(s, c, a)
      PROVE IInv'
  BY <1>4, ReserveInv
<1>5. CASE LockAges \/ Midnight
  BY <1>5, LockAgesInv, MidnightInv
<1>6. CASE UNCHANGED vars
  BY <1>6 DEF vars, fileVars, callVars, IInv, TypeOK, CallsSound, JobsSound, LockSound, Holding,
     NothingFromTheFuture, ChainHolds, DiskCoversLedger, MemoryCoversLedger, Covers, Alone,
     LedgerWithinDailyLimit, Guarded, LoneProcess
<1>7. QED
  BY <1>1, <1>2, <1>3, <1>4, <1>5, <1>6 DEF Next

(* The invariant of the shared guard: typing, the lock, and, wherever one  *)
(* process makes the calls or the lock file can be relied on, the chain    *)
(* "what is charged <= what the file says <= what a decision is made on".  *)
THEOREM Invariance == Spec => []IInv
<1>1. Init => IInv
  BY InitInv
<1>2. IInv /\ [Next]_vars => IInv'
  BY NextInv
<1>3. QED
  BY <1>1, <1>2, PTL DEF Spec

(* No spend is forgotten: a guard that opens the state file, after a       *)
(* restart say, sees at least what today's reservations add up to.         *)
THEOREM NothingForgotten == GuardAssumption => (Spec => []DiskCoversLedger)
<1> SUFFICES ASSUME GuardAssumption PROVE Spec => []DiskCoversLedger
  OBVIOUS
<1>1. IInv => DiskCoversLedger
  BY Guards DEF IInv, ChainHolds
<1>2. QED
  BY <1>1, Invariance, PTL

(* The read-modify-write of reserve() and release() is never interleaved.  *)
THEOREM LockExcludes == GuardAssumption => (Spec => []MutualExclusion)
<1> SUFFICES ASSUME GuardAssumption PROVE Spec => []MutualExclusion
  OBVIOUS
<1>1. IInv => MutualExclusion
  BY Guards, Exclusion DEF IInv, MutualExclusion
<1>2. QED
  BY <1>1, Invariance, PTL

-----------------------------------------------------------------------------
(* Refinement: what the steps of the processes do to clock and ledger.     *)

LEMMA CommitReserveMoves ==
  ASSUME IInv, NEW s \in Server, NEW c \in Call, CommitReserve(s, c)
  PROVE  /\ amount[c] \in Sizes /\ amount[c] > 0 /\ amount[c] <= MaxOrderUsd
         /\ heldGrant[c] = Budget!NoGrant
         /\ heldGrant' = [heldGrant EXCEPT ![c] = [day |-> clock, usd |-> amount[c]]]
         /\ ledger' = [ledger EXCEPT ![clock] = @ + amount[c]]
         /\ clock \in Day
         /\ clock' = clock
         /\ Guarded => ledger[clock] + amount[c] <= DailyLimitUsd
<1> DEFINE m == Rolled(mem[s])
           a == amount[c]
<1>1. a \in Sizes /\ a > 0 /\ resDay[c] = 0
  BY DEF IInv, CallsSound, CommitReserve
<1>2. /\ m \in [day : FileDay, spent : Nat]
      /\ m.day = clock
      /\ clock \in Day
      /\ ledger[clock] \in Int
      /\ Guarded => ledger[clock] <= m.spent
  BY DecisionFacts DEF CommitReserve
<1>3. /\ a <= MaxOrderUsd
      /\ m.spent + a <= DailyLimitUsd
      /\ resDay' = [resDay EXCEPT ![c] = m.day]
      /\ ledger' = [ledger EXCEPT ![m.day] = @ + a]
      /\ phase' = [phase EXCEPT ![c] = "reserved"]
      /\ UNCHANGED <<clock, amount>>
  BY DEF CommitReserve, Fits, Finish
<1> HIDE DEF m
<1>4. Guarded => ledger[clock] + a <= DailyLimitUsd
  <2>1. a \in Int /\ m.spent \in Int /\ DailyLimitUsd \in Int
    BY <1>2, ConstantsAssumption DEF IInv, TypeOK
  <2>2. QED
    BY <1>2, <1>3, <2>1
<1>5. heldGrant[c] = Budget!NoGrant
  BY <1>1 DEF heldGrant, Budget!NoGrant
<1>6. heldGrant' = [heldGrant EXCEPT ![c] = [day |-> clock, usd |-> a]]
  <2>1. \A k \in Call \ {c} : heldGrant'[k] = heldGrant[k]
    BY <1>3 DEF heldGrant, IInv, TypeOK
  <2>2. heldGrant'[c] = [day |-> clock, usd |-> a]
    BY <1>2, <1>3 DEF heldGrant, IInv, TypeOK, Day
  <2>3. QED
    BY <2>1, <2>2 DEF heldGrant
<1>7. QED
  BY <1>1, <1>2, <1>3, <1>4, <1>5, <1>6

LEMMA CommitReserveGrants ==
  ASSUME Guarded, IInv, NEW s \in Server, NEW c \in Call, CommitReserve(s, c)
  PROVE  \E a \in Sizes : Budget!Grant(c, a)
BY CommitReserveMoves DEF Budget!Grant

LEMMA CommitReleaseRefunds ==
  ASSUME IInv, NEW s \in Server, NEW c \in Call, CommitRelease(s, c)
  PROVE  Budget!Refund(c)
<1> DEFINE m == Rolled(mem[s])
<1>1. m.day = clock /\ clock \in Day
  BY DecisionFacts DEF CommitRelease
<1>2. /\ resDay[c] = m.day
      /\ phase[c] = "releasing"
      /\ ledger' = [ledger EXCEPT ![m.day] = @ - amount[c]]
      /\ phase' = [phase EXCEPT ![c] = "refunded"]
      /\ UNCHANGED <<clock, amount, resDay>>
  BY DEF CommitRelease, SameDay, Finish
<1> HIDE DEF m
<1>3. heldGrant[c] = [day |-> clock, usd |-> amount[c]]
  BY <1>1, <1>2 DEF heldGrant, Day
<1>4. heldGrant' = [heldGrant EXCEPT ![c] = Budget!NoGrant]
  <2>1. \A k \in Call \ {c} : heldGrant'[k] = heldGrant[k]
    BY <1>2 DEF heldGrant, IInv, TypeOK
  <2>2. heldGrant'[c] = Budget!NoGrant
    BY <1>2 DEF heldGrant, IInv, TypeOK, Budget!NoGrant
  <2>3. QED
    BY <2>1, <2>2 DEF heldGrant
<1>5. QED
  BY <1>1, <1>2, <1>3, <1>4 DEF Budget!Refund

(* Phases may change as long as no call starts or stops being refunded and *)
(* no call that holds a reservation is touched otherwise.                  *)
LEMMA SameGrants ==
  ASSUME UNCHANGED resDay,
         \A c \in Call : phase'[c] = "refunded" <=> phase[c] = "refunded",
         \A c \in Call : resDay[c] # 0 => amount'[c] = amount[c]
  PROVE  UNCHANGED heldGrant
BY DEF heldGrant

(* Every other step leaves clock, ledger and grants alone. *)
LEMMA StepMoves ==
  ASSUME IInv, [Next]_vars
  PROVE  \/ \E s \in Server, c \in Call : CommitReserve(s, c) \/ CommitRelease(s, c)
         \/ Midnight
         \/ UNCHANGED <<clock, ledger, heldGrant>>
<1> DEFINE moves == \E s \in Server, c \in Call : CommitReserve(s, c) \/ CommitRelease(s, c)
<1>1. ASSUME NEW s \in Server, Work(s)
      PROVE  moves \/ UNCHANGED <<clock, ledger, heldGrant>>
  <2>1. ASSUME NEW c \in Call, CommitReserve(s, c) \/ CommitRelease(s, c)
        PROVE  moves
    BY <2>1
  <2>3. ASSUME NEW c \in Call, RefuseReserve(s, c) \/ DropRelease(s, c)
        PROVE  UNCHANGED <<clock, ledger, heldGrant>>
    <3>1. UNCHANGED <<clock, ledger, resDay, amount>>
      BY <2>3 DEF RefuseReserve, DropRelease
    <3>2. \A k \in Call : phase'[k] = "refunded" <=> phase[k] = "refunded"
      BY <2>3 DEF RefuseReserve, DropRelease, Finish, IInv, TypeOK
    <3>3. QED
      BY <3>1, <3>2, SameGrants
  <2>4. ASSUME pc[s] \in Waiting, LockFailed(s) \/ UNCHANGED phase,
               UNCHANGED <<resDay, amount>>
        PROVE  UNCHANGED heldGrant
    BY <2>4, SameGrants DEF LockFailed, IInv, TypeOK, JobsSound, Waiting
  <2>5. CASE OpenLockFails(s) \/ InspectLock(s)
    <3>1. /\ pc[s] \in Waiting
          /\ LockFailed(s) \/ UNCHANGED phase
          /\ UNCHANGED <<resDay, amount, clock, ledger>>
      BY <2>5 DEF OpenLockFails, InspectLock, Waiting
    <3>2. QED
      BY <3>1, <2>4
  <2>6. CASE TryLock(s) \/ BustLock(s) \/ ReadState(s) \/ Unlock(s)
    BY <2>6, SameGrants DEF TryLock, BustLock, ReadState, Unlock, callVars
  <2>7. QED
    BY <1>1, <2>1, <2>3, <2>5, <2>6 DEF Work
<1>2. ASSUME NEW s \in Server, Start(s) \/ DeadlinePasses(s) \/ Crash(s)
      PROVE  UNCHANGED <<clock, ledger, heldGrant>>
  BY <1>2, SameGrants DEF Start, DeadlinePasses, Crash, callVars, IInv, TypeOK
<1>3. ASSUME NEW s \in Server, NEW c \in Call, Release(s, c) \/ Keep(s, c)
      PROVE  UNCHANGED <<clock, ledger, heldGrant>>
  BY <1>3, SameGrants DEF Release, Keep, IInv, TypeOK
<1>4. ASSUME NEW s \in Server, NEW c \in Call, NEW a \in Sizes, Reserve(s, c, a)
      PROVE  UNCHANGED <<clock, ledger, heldGrant>>
  BY <1>4, SameGrants DEF Reserve, IInv, TypeOK, CallsSound
<1>5. CASE LockAges
  BY <1>5, SameGrants DEF LockAges, callVars
<1>6. CASE Midnight
  BY <1>6
<1>7. CASE UNCHANGED vars
  BY <1>7, SameGrants DEF vars, callVars
<1>8. QED
  BY <1>1, <1>2, <1>3, <1>4, <1>5, <1>6, <1>7 DEF Next

(* Seen from the budget: a grant, a refund, midnight, or nothing.          *)
LEMMA StepRefines ==
  ASSUME Guarded, IInv, [Next]_vars
  PROVE  [Budget!BudgetNext]_(Budget!budgetVars)
<1>1. ASSUME NEW s \in Server, NEW c \in Call, CommitReserve(s, c) \/ CommitRelease(s, c)
      PROVE  Budget!BudgetNext
  BY <1>1, CommitReserveGrants, CommitReleaseRefunds DEF Budget!BudgetNext
<1>2. CASE Midnight
  BY <1>2, SameGrants DEF Midnight, Budget!Midnight, Budget!BudgetNext, callVars
<1>3. QED
  BY <1>1, <1>2, StepMoves DEF Budget!budgetVars

(* The processes, their files and locks together implement one atomic      *)
(* daily budget: seen from the ledger they only grant, refund and roll.    *)
THEOREM Refinement == GuardAssumption => (Spec => ImplementsBudget)
<1> SUFFICES ASSUME GuardAssumption PROVE Spec => ImplementsBudget
  OBVIOUS
<1>1. Init => Budget!BudgetInit
  BY DEF Init, Budget!BudgetInit, Day, Budget!Day, heldGrant, Budget!NoGrant
<1>2. IInv /\ [Next]_vars => [Budget!BudgetNext]_(Budget!budgetVars)
  BY StepRefines, Guards DEF IInv
<1>3. Spec => []IInv
  BY Invariance
<1>4. QED
  BY <1>1, <1>2, <1>3, PTL DEF Spec, ImplementsBudget, Budget!BudgetSpec

-----------------------------------------------------------------------------
(* The ledger is what the calls add up to. *)

LEMMA RealDays == \A d \in Day : d \in Nat /\ d # 0
BY ConstantsAssumption DEF Day

LEMMA ChargedFacts ==
  ASSUME IInv, NEW d \in Day
  PROVE  /\ Exposure(d) = Sum(amount, ChargedTo(d))
         /\ IsFiniteSet(ChargedTo(d))
         /\ \A c \in ChargedTo(d) : amount[c] \in Nat
<1>1. Exposure(d) = Sum(amount, ChargedTo(d))
  BY DEF Exposure, Sum
<1>2. IsFiniteSet(ChargedTo(d))
  BY ConstantsAssumption, FS_Subset DEF ChargedTo
<1>3. \A c \in ChargedTo(d) : amount[c] \in Nat
  BY RealDays DEF ChargedTo, IInv, TypeOK, CallsSound
<1>4. QED
  BY <1>1, <1>2, <1>3

(* Who is charged to a day, and how much, is what the grants say.          *)
LEMMA ChargedByGrant ==
  ASSUME NEW d \in Day
  PROVE  /\ ChargedTo(d) = {c \in Call : heldGrant[c].day = d}
         /\ \A c \in ChargedTo(d) : heldGrant[c].usd = amount[c]
         /\ ChargedTo(d)' = {c \in Call : heldGrant'[c].day = d}
         /\ \A c \in ChargedTo(d)' : heldGrant'[c].usd = amount'[c]
         /\ Exposure(d)' = Sum(amount', ChargedTo(d)')
<1>1. d # 0
  BY RealDays
<1>2. /\ ChargedTo(d) = {c \in Call : heldGrant[c].day = d}
      /\ \A c \in ChargedTo(d) : heldGrant[c].usd = amount[c]
  BY <1>1 DEF ChargedTo, heldGrant
<1>3. /\ ChargedTo(d)' = {c \in Call : heldGrant'[c].day = d}
      /\ \A c \in ChargedTo(d)' : heldGrant'[c].usd = amount'[c]
  BY <1>1 DEF ChargedTo, heldGrant
<1>4. Exposure(d)' = Sum(amount', ChargedTo(d)')
  BY DEF Exposure, Sum, MapThenSumSet, MapThenFoldSet
<1>5. QED
  BY <1>2, <1>3, <1>4

LEMMA GrantPerCall == heldGrant = [k \in Call |-> heldGrant[k]]
BY DEF heldGrant

LEMMA SameExposure ==
  ASSUME IInv, UNCHANGED heldGrant, NEW d \in Day
  PROVE  Exposure(d)' = Exposure(d)
<1>1. /\ ChargedTo(d)' = ChargedTo(d)
      /\ \A c \in ChargedTo(d) : amount'[c] = amount[c]
      /\ Exposure(d)' = Sum(amount', ChargedTo(d)')
  BY ChargedByGrant
<1>2. QED
  BY <1>1, ChargedFacts, SumEqual

(* A grant adds its call, and nothing else, to today.                      *)
LEMMA GrantExposure ==
  ASSUME IInv, NEW s \in Server, NEW c \in Call, CommitReserve(s, c), NEW d \in Day,
         ledger[d] = Exposure(d)
  PROVE  ledger'[d] = Exposure(d)'
<1>1. /\ amount' = amount /\ amount[c] \in Nat /\ heldGrant[c].day = 0
      /\ heldGrant'[c].day = clock
      /\ \A k \in Call \ {c} : heldGrant'[k] = heldGrant[k]
      /\ ledger' = [ledger EXCEPT ![clock] = @ + amount[c]]
      /\ clock \in Day
  <2>1. amount' = amount
    BY DEF CommitReserve
  <2>2. amount[c] \in Nat
    BY CommitReserveMoves DEF IInv, TypeOK
  <2>3. heldGrant[c].day = 0
    BY CommitReserveMoves DEF Budget!NoGrant
  <2>4. /\ heldGrant'[c].day = clock
        /\ \A k \in Call \ {c} : heldGrant'[k] = heldGrant[k]
    BY CommitReserveMoves, GrantPerCall
  <2>5. QED
    BY <2>1, <2>2, <2>3, <2>4, CommitReserveMoves
<1>2. IsFiniteSet(ChargedTo(d)) /\ \A k \in ChargedTo(d) : amount[k] \in Nat
  BY ChargedFacts
<1>3. CASE d = clock
  <2>1. c \notin ChargedTo(d) /\ ChargedTo(d)' = ChargedTo(d) \cup {c}
    BY <1>1, <1>3, ChargedByGrant, RealDays
  <2>2. IsFiniteSet(ChargedTo(d)') /\ ChargedTo(d)' \ {c} = ChargedTo(d)
    BY <1>2, <2>1, FS_AddElement
  <2>3. Sum(amount, ChargedTo(d)') = amount[c] + Sum(amount, ChargedTo(d))
    BY <1>1, <1>2, <2>1, <2>2, SumStep
  <2>4. Exposure(d)' = amount[c] + Exposure(d)
    BY <1>1, <2>3, ChargedByGrant, ChargedFacts
  <2>5. QED
    BY <1>1, <1>3, <2>4 DEF IInv, TypeOK
<1>4. CASE d # clock
  <2>1. ChargedTo(d)' = ChargedTo(d)
    <3>1. \A k \in Call : heldGrant'[k].day = d <=> heldGrant[k].day = d
      BY <1>1, <1>4, RealDays
    <3>2. QED
      BY <3>1, ChargedByGrant
  <2>2. QED
    BY <1>1, <1>4, <2>1, ChargedByGrant, ChargedFacts DEF IInv, TypeOK
<1>5. QED
  BY <1>3, <1>4

(* A refund takes its call, and nothing else, out of today.                *)
LEMMA RefundExposure ==
  ASSUME IInv, NEW s \in Server, NEW c \in Call, CommitRelease(s, c), NEW d \in Day,
         ledger[d] = Exposure(d)
  PROVE  ledger'[d] = Exposure(d)'
<1>1. /\ amount' = amount /\ heldGrant[c].day = clock
      /\ heldGrant'[c].day = 0
      /\ \A k \in Call \ {c} : heldGrant'[k] = heldGrant[k]
      /\ ledger' = [ledger EXCEPT ![clock] = @ - amount[c]]
      /\ clock \in Day
  <2>1. heldGrant[c].day = clock /\ clock \in Day
    BY CommitReleaseRefunds DEF Budget!Refund, IInv, TypeOK
  <2>2. heldGrant[c].usd = amount[c]
    BY <2>1, RealDays DEF heldGrant
  <2>3. ledger' = [ledger EXCEPT ![clock] = @ - amount[c]]
    BY <2>2, CommitReleaseRefunds DEF Budget!Refund
  <2>4. /\ heldGrant'[c].day = 0
        /\ \A k \in Call \ {c} : heldGrant'[k] = heldGrant[k]
    BY CommitReleaseRefunds, GrantPerCall DEF Budget!Refund, Budget!NoGrant
  <2>5. amount' = amount
    BY DEF CommitRelease
  <2>6. QED
    BY <2>1, <2>3, <2>4, <2>5
<1>2. IsFiniteSet(ChargedTo(d)) /\ \A k \in ChargedTo(d) : amount[k] \in Nat
  BY ChargedFacts
<1>3. CASE d = clock
  <2>1. c \in ChargedTo(d) /\ ChargedTo(d)' = ChargedTo(d) \ {c}
    BY <1>1, <1>3, ChargedByGrant, RealDays
  <2>2. Exposure(d) = amount[c] + Exposure(d)'
    BY <1>1, <1>2, <2>1, SumStep, ChargedByGrant, ChargedFacts
  <2>3. Exposure(d)' \in Nat
    <3>1. IsFiniteSet(ChargedTo(d)') /\ \A k \in ChargedTo(d)' : amount[k] \in Nat
      BY <1>2, <2>1, FS_RemoveElement
    <3>2. Sum(amount, ChargedTo(d)') \in Nat
      BY <3>1, SumNat
    <3>3. QED
      BY <1>1, <3>2, ChargedByGrant
  <2>4. amount[c] \in Nat
    BY <1>2, <2>1
  <2>5. QED
    BY <1>1, <1>3, <2>2, <2>3, <2>4 DEF IInv, TypeOK
<1>4. CASE d # clock
  <2>1. ChargedTo(d)' = ChargedTo(d)
    <3>1. \A k \in Call : heldGrant'[k].day = d <=> heldGrant[k].day = d
      BY <1>1, <1>4, RealDays
    <3>2. QED
      BY <3>1, ChargedByGrant
  <2>2. QED
    BY <1>1, <1>4, <2>1, ChargedByGrant, ChargedFacts DEF IInv, TypeOK
<1>5. QED
  BY <1>3, <1>4

(* What a day's ledger says is what its calls add up to, whatever fails.   *)
THEOREM LedgerIsTheSum == Spec => []LedgerIsExposure
<1>1. Init => LedgerIsExposure
  <2> SUFFICES ASSUME Init, NEW d \in Day PROVE ledger[d] = Exposure(d)
    BY DEF LedgerIsExposure
  <2>1. ChargedTo(d) = {}
    BY RealDays DEF Init, ChargedTo
  <2>2. Exposure(d) = Sum(amount, ChargedTo(d))
    BY DEF Exposure, Sum
  <2>3. QED
    BY <2>1, <2>2, SumEmpty DEF Init
<1>2. IInv /\ [Next]_vars /\ LedgerIsExposure => LedgerIsExposure'
  <2> SUFFICES ASSUME IInv, [Next]_vars, LedgerIsExposure, NEW d \in Day
               PROVE  ledger'[d] = Exposure(d)'
    BY DEF LedgerIsExposure
  <2>1. ledger[d] = Exposure(d)
    BY DEF LedgerIsExposure
  <2>2. ASSUME NEW s \in Server, NEW c \in Call, CommitReserve(s, c) \/ CommitRelease(s, c)
        PROVE  ledger'[d] = Exposure(d)'
    BY <2>1, <2>2, GrantExposure, RefundExposure
  <2>3. CASE Midnight
    <3>1. UNCHANGED <<ledger, heldGrant>>
      BY <2>3, SameGrants DEF Midnight, callVars
    <3>2. QED
      BY <2>1, <3>1, SameExposure
  <2>4. CASE UNCHANGED <<clock, ledger, heldGrant>>
    BY <2>1, <2>4, SameExposure
  <2>5. QED
    BY <2>2, <2>3, <2>4, StepMoves
<1>3. QED
  BY <1>1, <1>2, Invariance, PTL DEF Spec

(* The daily cap, on the money itself: what reserve() approved on a day    *)
(* and release() did not take back stays within dailyLimitUsd, for any     *)
(* number of processes with a reliable lock file, or for one process       *)
(* whatever fails around it.                                               *)
THEOREM DailyCap == GuardAssumption => (Spec => []ExposureWithinDailyLimit)
<1> SUFFICES ASSUME GuardAssumption PROVE Spec => []ExposureWithinDailyLimit
  OBVIOUS
<1>1. IInv /\ LedgerIsExposure => ExposureWithinDailyLimit
  BY Guards DEF IInv, ChainHolds, LedgerWithinDailyLimit, LedgerIsExposure, ExposureWithinDailyLimit
<1>2. QED
  BY <1>1, Invariance, LedgerIsTheSum, PTL

(* With no assumption on the environment: as long as one process makes all *)
(* the calls, stale and orphaned locks, failed reads and writes, crashes   *)
(* and idle processes beside it leave the cap standing.                    *)
THEOREM LoneProcessIsSafe == Spec => []LoneProcessKeepsCap
<1>1. IInv /\ LedgerIsExposure => LoneProcessKeepsCap
  BY DEF IInv, Guarded, ChainHolds, LedgerWithinDailyLimit, LedgerIsExposure, LoneProcessKeepsCap
<1>2. QED
  BY <1>1, Invariance, LedgerIsTheSum, PTL

-----------------------------------------------------------------------------
(* A state file found corrupt. *)

(* A process that decides on the first day, on a file still corrupt, has no *)
(* room for any order and nothing to give back.                             *)
LEMMA CorruptDecision ==
  ASSUME IInv, CorruptIInv, disk.kind = "corrupt", NEW s \in Server, NEW c \in Call
  PROVE  /\ CommitReserve(s, c) => clock # 1 /\ ledger' = [ledger EXCEPT ![clock] = @ + amount[c]]
         /\ ~CommitRelease(s, c)
<1>1. clock \in Day /\ 0 \notin Day /\ resDay[c] = 0
  BY DEF IInv, TypeOK, CorruptIInv, Day
<1>2. ASSUME CommitReserve(s, c)
      PROVE  clock # 1 /\ ledger' = [ledger EXCEPT ![clock] = @ + amount[c]]
  <2>1. Rolled(mem[s]).day = clock
    BY <1>2, DecisionFacts DEF CommitReserve
  <2>2. ledger' = [ledger EXCEPT ![clock] = @ + amount[c]]
    BY <1>2, <2>1 DEF CommitReserve
  <2>3. SUFFICES ASSUME clock = 1 PROVE FALSE
    BY <2>2
  <2>4. mem[s].day = 1 /\ mem[s].spent >= DailyLimitUsd
    BY <1>2, <2>3 DEF CommitReserve, CorruptIInv
  <2>5. mem[s].spent + amount[c] <= DailyLimitUsd
    BY <1>2, <2>3, <2>4 DEF CommitReserve, Rolled, Fits
  <2>6. amount[c] \in Int /\ amount[c] > 0 /\ mem[s].spent \in Nat /\ DailyLimitUsd \in Nat
    BY <1>2, ConstantsAssumption DEF CommitReserve, IInv, TypeOK, CallsSound
  <2>7. QED
    BY <2>4, <2>5, <2>6
<1>3. ASSUME CommitRelease(s, c) PROVE FALSE
  <2>1. Rolled(mem[s]).day = clock
    BY <1>3, DecisionFacts DEF CommitRelease
  <2>2. QED
    BY <1>1, <1>3, <2>1 DEF CommitRelease, SameDay
<1>4. QED
  BY <1>2, <1>3

(* A step leaves the corrupt file alone, or writes a usable one. *)
LEMMA CorruptStep ==
  ASSUME IInv, CorruptIInv, [Next]_vars
  PROVE  CorruptIInv'
<1> SUFFICES ASSUME disk'.kind = "corrupt" PROVE CorruptIInv'
  BY DEF CorruptIInv
<1> USE DEF fileVars, callVars
<1>1. ASSUME UNCHANGED disk, UNCHANGED <<clock, pc, mem, resDay>> PROVE CorruptIInv'
  BY <1>1 DEF CorruptIInv
<1>2. ASSUME NEW s \in Server, UNCHANGED <<disk, clock, resDay>>,
             \A t \in Server \ {s} : pc'[t] = pc[t] /\ mem'[t] = mem[t],
             clock = 1 /\ pc'[s] # "down" => mem'[s].day = 1 /\ mem'[s].spent >= DailyLimitUsd
      PROVE  CorruptIInv'
  BY <1>2 DEF CorruptIInv
<1>3. ASSUME NEW s \in Server, UNCHANGED <<disk, clock, resDay>>, pc[s] # "down",
             \A t \in Server \ {s} : pc'[t] = pc[t] /\ mem'[t] = mem[t],
             mem'[s] \in {mem[s], Rolled(mem[s])}
      PROVE  CorruptIInv'
  <2>1. clock = 1 => mem'[s].day = 1 /\ mem'[s].spent >= DailyLimitUsd
    BY <1>3 DEF CorruptIInv, Rolled
  <2>2. QED
    BY <1>2, <1>3, <2>1
<1>4. ASSUME NEW s \in Server, Start(s) PROVE CorruptIInv'
  <2>1. /\ UNCHANGED <<disk, clock, resDay>>
        /\ \A t \in Server \ {s} : pc'[t] = pc[t] /\ mem'[t] = mem[t]
    BY <1>4 DEF Start, IInv, TypeOK
  <2>2. mem'[s] = FullySpent
    BY <1>4, <2>1 DEF Start, IInv, TypeOK, Loaded
  <2>3. FullySpent.day = clock /\ FullySpent.spent >= DailyLimitUsd
    BY ConstantsAssumption DEF FullySpent
  <2>4. QED
    BY <1>2, <2>1, <2>2, <2>3
<1>5. ASSUME NEW s \in Server, ReadState(s) PROVE CorruptIInv'
  <2>1. /\ UNCHANGED <<disk, clock, resDay>> /\ pc[s] = "locked"
        /\ \A t \in Server \ {s} : pc'[t] = pc[t] /\ mem'[t] = mem[t]
    BY <1>5 DEF ReadState, IInv, TypeOK
  <2>2. mem'[s] = Rolled(mem[s])
    BY <1>5, <2>1 DEF ReadState, IInv, TypeOK, Synced
  <2>3. QED
    BY <1>3, <2>1, <2>2
<1>6. ASSUME NEW s \in Server, NEW c \in Call, RefuseReserve(s, c) \/ DropRelease(s, c)
      PROVE  CorruptIInv'
  <2>1. /\ UNCHANGED <<disk, clock, resDay>> /\ pc[s] = "read"
        /\ \A t \in Server \ {s} : pc'[t] = pc[t] /\ mem'[t] = mem[t]
        /\ mem'[s] = Rolled(mem[s])
    BY <1>6 DEF RefuseReserve, DropRelease, Finish, IInv, TypeOK
  <2>2. QED
    BY <1>3, <2>1
<1>7. ASSUME NEW s \in Server, NEW c \in Call, CommitReserve(s, c) \/ CommitRelease(s, c)
      PROVE  CorruptIInv'
  <2>1. disk' = disk \/ disk'.kind = "valid"
    BY <1>7 DEF CommitReserve, CommitRelease, Saved, Valid
  <2>2. ~CommitRelease(s, c)
    BY <2>1, CorruptDecision
  <2>3. disk'.kind = "valid"
    BY <1>7, <2>2 DEF CommitReserve, Saved, Valid
  <2>4. QED
    BY <2>3
<1>8. ASSUME NEW s \in Server,
             TryLock(s) \/ OpenLockFails(s) \/ InspectLock(s) \/ BustLock(s) \/ Unlock(s)
      PROVE  CorruptIInv'
  <2>1. UNCHANGED <<disk, clock, resDay, mem>> /\ pc[s] # "down"
    BY <1>8 DEF TryLock, OpenLockFails, InspectLock, BustLock, Unlock, UnlinkLock, LockFailed
  <2>2. \A t \in Server \ {s} : pc'[t] = pc[t]
    BY <1>8 DEF TryLock, OpenLockFails, InspectLock, BustLock, Unlock, LockFailed, IInv, TypeOK
  <2>3. QED
    BY <1>3, <2>1, <2>2
<1>9. ASSUME NEW s \in Server, DeadlinePasses(s) PROVE CorruptIInv'
  BY <1>1, <1>9 DEF DeadlinePasses
<1>10. ASSUME NEW s \in Server, Crash(s) PROVE CorruptIInv'
  <2>1. /\ UNCHANGED <<disk, clock, resDay>> /\ pc'[s] = "down"
        /\ \A t \in Server \ {s} : pc'[t] = pc[t] /\ mem'[t] = mem[t]
    BY <1>10 DEF Crash, IInv, TypeOK
  <2>2. QED
    BY <1>2, <2>1
<1>11. ASSUME NEW s \in Server, NEW c \in Call, Release(s, c) \/ Keep(s, c) PROVE CorruptIInv'
  <2>1. /\ UNCHANGED <<disk, clock, resDay, mem>> /\ pc[s] # "down"
        /\ \A t \in Server \ {s} : pc'[t] = pc[t]
    BY <1>11 DEF Release, Keep, EnterLock, IInv, TypeOK
  <2>2. QED
    BY <1>3, <2>1
<1>12. ASSUME NEW s \in Server, NEW c \in Call, NEW a \in Sizes, Reserve(s, c, a)
       PROVE  CorruptIInv'
  <2>1. /\ UNCHANGED <<disk, clock, resDay, mem>> /\ pc[s] # "down"
        /\ \A t \in Server \ {s} : pc'[t] = pc[t]
    BY <1>12 DEF Reserve, EnterLock, IInv, TypeOK
  <2>2. QED
    BY <1>3, <2>1
<1>13. CASE LockAges
  BY <1>1, <1>13 DEF LockAges
<1>14. CASE Midnight
  <2>1. clock' # 1
    BY <1>14 DEF Midnight, IInv, TypeOK, Day
  <2>2. QED
    BY <1>14, <2>1 DEF Midnight, CorruptIInv
<1>15. CASE UNCHANGED vars
  BY <1>1, <1>15 DEF vars
<1>16. QED
  BY <1>4, <1>5, <1>6, <1>7, <1>8, <1>9, <1>10, <1>11, <1>12, <1>13, <1>14, <1>15
  DEF Next, Work

(* On a file still corrupt, a step moves the ledger of a later day only. *)
LEMMA CorruptLedger ==
  ASSUME IInv, CorruptIInv, [Next]_vars, disk.kind = "corrupt"
  PROVE  ledger'[1] = ledger[1]
<1>1. ASSUME NEW s \in Server, Work(s) PROVE ledger'[1] = ledger[1]
  <2>1. ASSUME NEW c \in Call, CommitReserve(s, c) PROVE ledger'[1] = ledger[1]
    <3>1. clock # 1 /\ ledger' = [ledger EXCEPT ![clock] = @ + amount[c]]
      BY <2>1, CorruptDecision
    <3>2. 1 \in Day /\ ledger \in [Day -> Int]
      BY ConstantsAssumption DEF IInv, TypeOK, Day
    <3>3. QED
      BY <3>1, <3>2
  <2>2. ASSUME NEW c \in Call PROVE ~CommitRelease(s, c)
    BY CorruptDecision
  <2>3. ASSUME NEW c \in Call, RefuseReserve(s, c) \/ DropRelease(s, c)
        PROVE  ledger'[1] = ledger[1]
    BY <2>3 DEF RefuseReserve, DropRelease
  <2>4. QED
    BY <1>1, <2>1, <2>2, <2>3
    DEF Work, TryLock, OpenLockFails, InspectLock, BustLock, ReadState, Unlock
<1>2. ASSUME NEW s \in Server, Start(s) \/ DeadlinePasses(s) \/ Crash(s)
      PROVE  ledger'[1] = ledger[1]
  BY <1>2 DEF Start, DeadlinePasses, Crash
<1>3. ASSUME NEW s \in Server, NEW c \in Call, Release(s, c) \/ Keep(s, c)
      PROVE  ledger'[1] = ledger[1]
  BY <1>3 DEF Release, Keep
<1>4. ASSUME NEW s \in Server, NEW c \in Call, NEW a \in Sizes, Reserve(s, c, a)
      PROVE  ledger'[1] = ledger[1]
  BY <1>4 DEF Reserve
<1>5. QED
  BY <1>1, <1>2, <1>3, <1>4 DEF Next, LockAges, Midnight, vars

(* A state file that cannot be trusted never reopens the day it was found,  *)
(* however many processes start, crash and restart on it (loadState).       *)
THEOREM CorruptStaysClosed == Spec => CorruptFileGrantsNothing
<1>1. Init => CorruptIInv
  BY DEF Init, CorruptIInv
<1>2. IInv /\ CorruptIInv /\ [Next]_vars => CorruptIInv'
  BY CorruptStep
<1>3. IInv /\ CorruptIInv /\ [Next]_vars =>
        [disk.kind = "corrupt" => ledger'[1] = ledger[1]]_vars
  BY CorruptLedger
<1>4. Spec => []IInv
  BY Invariance
<1>5. QED
  BY <1>1, <1>2, <1>3, <1>4, PTL DEF Spec, CorruptFileGrantsNothing

=============================================================================
