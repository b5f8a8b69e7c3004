----------------------------- MODULE SpendGuard -----------------------------
(***************************************************************************)
(* packages/mcp-server/src/spendGuard.ts: the daily real-money cap shared  *)
(* by every MCP server process on one machine.                             *)
(*                                                                         *)
(* Each MCP client spawns its own server process.  The processes share a   *)
(* state file (day, daySpentUsd) and the lock file beside it.  reserve()   *)
(* and release() are synchronous, so a process runs one of them at a time, *)
(* but every file-system call in them may interleave with the calls of     *)
(* another process, with a crash, and with midnight.  A step below is one  *)
(* such call together with the memory operations up to the next one.       *)
(*                                                                         *)
(* Days are numbers: 1 is the day a behaviour starts on, 0 the day before, *)
(* and NoDay is the empty string a guard starts with, older than any day.  *)
(***************************************************************************)
EXTENDS Integers, FiniteSets, FiniteSetsExt

CONSTANTS
  Server,         \* MCP server processes sharing one statePath
  Call,           \* order calls made in one behaviour (a bound)
  None,           \* no call, no lock owner
  Sizes,          \* sizes a call may pass to reserve(); <= 0 is an invalid size
  MaxOrderUsd,    \* config.maxOrderUsd
  DailyLimitUsd,  \* config.dailyLimitUsd
  LastDay,        \* bound on the clock
  MaxCrashes,     \* bound on process crashes
  BootDisk,       \* the state files a behaviour may start with
  \* Which faults of the environment a behaviour may contain:
  Orphans,        \* a lock file may outlive its owner
  HolderMayStall, \* a live owner may be suspended for over LOCK_STALE_MS
  FsMayFail,      \* opening the lock or writing the state file may fail
  ReadMayFail,    \* reading the state file inside the lock may fail
  UnlinkMayFail   \* removing the lock file may fail

NoDay == -1
Day == 1..LastDay
FileDay == 0..LastDay

DiskState == [kind : {"missing", "corrupt", "valid"}, day : FileDay, spent : Nat]
Missing == [kind |-> "missing", day |-> 0, spent |-> 0]
Corrupt == [kind |-> "corrupt", day |-> 0, spent |-> 0]
Valid(d, usd) == [kind |-> "valid", day |-> d, spent |-> usd]

ASSUME ConstantsAssumption ==
  /\ None \notin Server \cup Call
  /\ IsFiniteSet(Call)
  /\ Sizes \subseteq Int
  /\ MaxOrderUsd \in Nat
  /\ DailyLimitUsd \in Nat
  /\ LastDay \in Nat \ {0}
  /\ MaxCrashes \in Nat
  /\ {Orphans, HolderMayStall, FsMayFail, ReadMayFail, UnlinkMayFail} \subseteq BOOLEAN

(* The files a behaviour starts with were not written by a day still to    *)
(* come: either nothing usable is there or it is yesterday's total.        *)
ASSUME BootDiskAssumption ==
  /\ BootDisk \subseteq DiskState
  /\ \A d \in BootDisk : d.day = 0

VARIABLES
  clock,      \* today(), the same for every process of the machine
  disk,       \* the file at statePath
  lockOwner,  \* None when no lock file exists, else the process that created it
  lockStale,  \* the lock file is older than LOCK_STALE_MS
  pc,         \* pc[s]: where process s is inside reserve()/release()
  late,       \* late[s]: LOCK_MAX_WAIT_MS has passed since acquireLock began
  mem,        \* mem[s]: the guard's own day and daySpentUsd
  job,        \* job[s]: the call process s is working for
  phase,      \* phase[c]: how far call c has got
  host,       \* host[c]: the process that runs call c
  amount,     \* amount[c]: the size passed to reserve() and release()
  resDay,     \* resDay[c]: reservedDay, 0 when nothing was reserved
  ledger,     \* history: ledger[d] is what day d's reservations really add up to
  crashes

fileVars == <<disk, lockOwner, lockStale>>
callVars == <<phase, host, amount, resDay>>
vars == <<clock, fileVars, pc, late, mem, job, callVars, ledger, crashes>>

Waiting == {"trying", "found", "busting"}
InLock == {"locked", "read", "unlock"}
Holding(s) == pc[s] \in InLock

PC == {"down", "idle"} \cup Waiting \cup InLock
Phase == {"new", "reserving", "refused", "reserved", "kept", "releasing",
          "refunded", "unrefunded", "lost"}

TypeOK ==
  /\ clock \in Day
  /\ disk \in DiskState
  /\ lockOwner \in Server \cup {None}
  /\ lockStale \in BOOLEAN
  /\ pc \in [Server -> PC]
  /\ late \in [Server -> BOOLEAN]
  /\ mem \in [Server -> [day : {NoDay} \cup FileDay, spent : Nat]]
  /\ job \in [Server -> Call \cup {None}]
  /\ phase \in [Call -> Phase]
  /\ host \in [Call -> Server \cup {None}]
  /\ amount \in [Call -> Int]
  /\ resDay \in [Call -> FileDay]
  /\ ledger \in [Day -> Int]
  /\ crashes \in Nat

-----------------------------------------------------------------------------
(* Memory operations of the class. *)

Fresh == [day |-> NoDay, spent |-> 0]

(* Mutant: a file that cannot be trusted counts as an unused day. *)
LoadedOpen == IF disk.kind = "valid" THEN [day |-> disk.day, spent |-> disk.spent]
              ELSE Fresh

(* loadState: a file that cannot be trusted counts as a day fully spent. *)
FullySpent == [day |-> clock, spent |-> DailyLimitUsd]
Loaded == CASE disk.kind = "missing" -> Fresh
            [] disk.kind = "corrupt" -> FullySpent
            [] OTHER -> [day |-> disk.day, spent |-> disk.spent]

(* rollDayIfNeeded *)
Rolled(m) == IF m.day = clock THEN m ELSE [day |-> clock, spent |-> 0]

(* Mutant: the file is only read at start-up. *)
SyncedNever(m) == m

(* syncFromDisk: keep the higher total of the same day, adopt a newer day. *)
Synced(m) ==
  IF disk.kind # "valid" \/ disk.day < m.day THEN m
  ELSE IF disk.day > m.day THEN [day |-> disk.day, spent |-> disk.spent]
  ELSE [m EXCEPT !.spent = IF disk.spent > m.spent THEN disk.spent ELSE m.spent]

(* Mutant: the write is skipped. *)
SavedNothing(m) == disk

(* What saveState writes for the memory m. *)
Saved(m) == Valid(m.day, m.spent)

Plus(m, usd) == [m EXCEPT !.spent = @ + usd]

Minus(m, usd) == [m EXCEPT !.spent = IF @ > usd THEN @ - usd ELSE 0]

-----------------------------------------------------------------------------
Init ==
  /\ clock = 1
  /\ disk \in BootDisk
  /\ lockOwner = None
  /\ lockStale = FALSE
  /\ pc = [s \in Server |-> "down"]
  /\ late = [s \in Server |-> FALSE]
  /\ mem = [s \in Server |-> Fresh]
  /\ job = [s \in Server |-> None]
  /\ phase = [c \in Call |-> "new"]
  /\ host = [c \in Call |-> None]
  /\ amount = [c \in Call |-> 0]
  /\ resDay = [c \in Call |-> 0]
  /\ ledger = [d \in Day |-> 0]
  /\ crashes = 0

(* new SpendGuard(config): the constructor loads the state file. *)
Start(s) ==
  /\ pc[s] = "down"
  /\ pc' = [pc EXCEPT ![s] = "idle"]
  /\ \/ mem' = [mem EXCEPT ![s] = Loaded]
     \/ ReadMayFail /\ disk.kind # "missing" /\ mem' = [mem EXCEPT ![s] = FullySpent]
  /\ UNCHANGED <<clock, fileVars, late, job, callVars, ledger, crashes>>

(* A process enters withLock on behalf of call c. *)
EnterLock(s, c) ==
  /\ pc' = [pc EXCEPT ![s] = "trying"]
  /\ late' = [late EXCEPT ![s] = FALSE]
  /\ job' = [job EXCEPT ![s] = c]

(* reserve(a): a size that is not a positive finite number is refused at   *)
(* once; any other goes for the lock.                                      *)
Reserve(s, c, a) ==
  /\ pc[s] = "idle"
  /\ phase[c] = "new"
  /\ host' = [host EXCEPT ![c] = s]
  /\ amount' = [amount EXCEPT ![c] = a]
  /\ \/ /\ a <= 0
        /\ phase' = [phase EXCEPT ![c] = "refused"]
        /\ UNCHANGED <<pc, late, job>>
     \/ /\ a > 0
        /\ phase' = [phase EXCEPT ![c] = "reserving"]
        /\ EnterLock(s, c)
  /\ UNCHANGED <<clock, fileVars, mem, resDay, ledger, crashes>>

(* The caller learned that its order was not placed: release(). *)
Release(s, c) ==
  /\ pc[s] = "idle"
  /\ phase[c] = "reserved"
  /\ host[c] = s
  /\ phase' = [phase EXCEPT ![c] = "releasing"]
  /\ EnterLock(s, c)
  /\ UNCHANGED <<clock, fileVars, mem, host, amount, resDay, ledger, crashes>>

(* The order was accepted, or its fate is unknown: the reservation stays.  *)
Keep(s, c) ==
  /\ pc[s] = "idle"
  /\ phase[c] = "reserved"
  /\ host[c] = s
  /\ phase' = [phase EXCEPT ![c] = "kept"]
  /\ UNCHANGED <<clock, fileVars, pc, late, mem, job, host, amount, resDay,
                 ledger, crashes>>

-----------------------------------------------------------------------------
(* acquireLock *)

(* openSync(lockPath, 'wx') either creates the file or says EEXIST. *)
TryLock(s) ==
  /\ pc[s] = "trying"
  /\ \/ /\ lockOwner = None
        /\ lockOwner' = s
        /\ lockStale' = FALSE
        /\ pc' = [pc EXCEPT ![s] = "locked"]
     \/ /\ lockOwner # None
        /\ pc' = [pc EXCEPT ![s] = "found"]
        /\ UNCHANGED <<lockOwner, lockStale>>
  /\ UNCHANGED <<clock, disk, late, mem, job, callVars, ledger, crashes>>

(* onLockFailed: reserve() answers spend_guard_busy, release() does nothing. *)
LockFailed(s) ==
  /\ pc' = [pc EXCEPT ![s] = "idle"]
  /\ job' = [job EXCEPT ![s] = None]
  /\ phase' = [phase EXCEPT ![job[s]] =
                 IF @ = "reserving" THEN "refused" ELSE "unrefunded"]

(* The directory or the lock file cannot be made, for another reason than  *)
(* EEXIST.  The file may exist all the same: when only writing the pid     *)
(* into it fails, nobody removes it.                                       *)
OpenLockFails(s) ==
  /\ FsMayFail
  /\ pc[s] = "trying"
  /\ \/ UNCHANGED <<lockOwner, lockStale>>
     \/ /\ Orphans
        /\ lockOwner = None
        /\ lockOwner' = s
        /\ lockStale' = FALSE
  /\ LockFailed(s)
  /\ UNCHANGED <<clock, disk, late, mem, host, amount, resDay, ledger, crashes>>

(* statSync, after EEXIST: gone - retry; stale - go and unlink it; fresh - *)
(* give up past the deadline, otherwise sleep LOCK_RETRY_MS and retry.     *)
InspectLock(s) ==
  /\ pc[s] = "found"
  /\ \/ /\ lockOwner = None
        /\ pc' = [pc EXCEPT ![s] = "trying"]
        /\ UNCHANGED <<job, phase>>
     \/ /\ lockOwner # None
        /\ lockStale
        /\ pc' = [pc EXCEPT ![s] = "busting"]
        /\ UNCHANGED <<job, phase>>
     \/ /\ lockOwner # None
        /\ ~lockStale
        /\ ~late[s]
        /\ pc' = [pc EXCEPT ![s] = "trying"]
        /\ UNCHANGED <<job, phase>>
     \/ /\ lockOwner # None
        /\ ~lockStale
        /\ late[s]
        /\ LockFailed(s)
  /\ UNCHANGED <<clock, fileVars, late, mem, host, amount, resDay, ledger, crashes>>

(* Mutant: the lock file stays. *)
UnlinkNothing == UNCHANGED <<lockOwner, lockStale>>

(* unlinkSync(lockPath): whatever file is there by now goes. *)
UnlinkLock ==
  \/ lockOwner' = None /\ lockStale' = FALSE
  \/ UnlinkMayFail /\ UNCHANGED <<lockOwner, lockStale>>

(* The file that was found stale is unlinked.  A failure, like success,    *)
(* retries at once, without a look at the deadline.                        *)
BustLock(s) ==
  /\ pc[s] = "busting"
  /\ pc' = [pc EXCEPT ![s] = "trying"]
  /\ UnlinkLock
  /\ UNCHANGED <<clock, disk, late, mem, job, callVars, ledger, crashes>>

(* Time: the wait passes LOCK_MAX_WAIT_MS. *)
DeadlinePasses(s) ==
  /\ pc[s] \in Waiting
  /\ ~late[s]
  /\ late' = [late EXCEPT ![s] = TRUE]
  /\ UNCHANGED <<clock, fileVars, pc, mem, job, callVars, ledger, crashes>>

(* Time: a lock file passes LOCK_STALE_MS.  The critical section is a few  *)
(* file operations, so only an abandoned lock, or one whose owner is       *)
(* suspended, gets that old.                                               *)
LockAges ==
  /\ lockOwner # None
  /\ ~lockStale
  /\ ~Holding(lockOwner) \/ HolderMayStall
  /\ lockStale' = TRUE
  /\ UNCHANGED <<clock, disk, lockOwner, pc, late, mem, job, callVars, ledger, crashes>>

-----------------------------------------------------------------------------
(* The critical section of reserve() and release(). *)

(* rollDayIfNeeded, then syncFromDisk, which goes on with the memory it    *)
(* has when the file cannot be read.                                       *)
ReadState(s) ==
  /\ pc[s] = "locked"
  /\ \/ mem' = [mem EXCEPT ![s] = Synced(Rolled(@))]
     \/ ReadMayFail /\ mem' = [mem EXCEPT ![s] = Rolled(@)]
  /\ pc' = [pc EXCEPT ![s] = "read"]
  /\ UNCHANGED <<clock, fileVars, late, job, callVars, ledger, crashes>>

(* The end of fn(): call c is in phase p, the lock is still held. *)
Finish(s, c, p) ==
  /\ pc' = [pc EXCEPT ![s] = "unlock"]
  /\ phase' = [phase EXCEPT ![c] = p]

(* Neither the per-order nor the daily limit stands in the way. *)
Fits(m, usd) == usd <= MaxOrderUsd /\ m.spent + usd <= DailyLimitUsd

CommitReserve(s, c) ==
  LET m == Rolled(mem[s]) IN
  /\ pc[s] = "read"
  /\ job[s] = c
  /\ phase[c] = "reserving"
  /\ Fits(m, amount[c])
  /\ mem' = [mem EXCEPT ![s] = Plus(m, amount[c])]
  /\ disk' = Saved(Plus(m, amount[c]))
  /\ resDay' = [resDay EXCEPT ![c] = m.day]
  /\ ledger' = [ledger EXCEPT ![m.day] = @ + amount[c]]
  /\ Finish(s, c, "reserved")
  /\ UNCHANGED <<clock, lockOwner, lockStale, late, job, host, amount, crashes>>

(* Mutant: a refund goes to whatever day it is now. *)
AnyDay(c, m) == TRUE

(* The reservation of call c was charged to the day of memory m. *)
SameDay(c, m) == resDay[c] = m.day

(* Over a limit, or the state could not be saved: memory keeps the total   *)
(* it had before the call.                                                 *)
RefuseReserve(s, c) ==
  LET m == Rolled(mem[s]) IN
  /\ pc[s] = "read"
  /\ job[s] = c
  /\ phase[c] = "reserving"
  /\ ~Fits(m, amount[c]) \/ FsMayFail
  /\ mem' = [mem EXCEPT ![s] = m]
  /\ Finish(s, c, "refused")
  /\ UNCHANGED <<clock, fileVars, late, job, host, amount, resDay, ledger, crashes>>

CommitRelease(s, c) ==
  LET m == Rolled(mem[s]) IN
  /\ pc[s] = "read"
  /\ job[s] = c
  /\ phase[c] = "releasing"
  /\ SameDay(c, m)
  /\ mem' = [mem EXCEPT ![s] = Minus(m, amount[c])]
  /\ \/ disk' = Saved(Minus(m, amount[c]))
     \/ FsMayFail /\ UNCHANGED disk
  /\ ledger' = [ledger EXCEPT ![m.day] = @ - amount[c]]
  /\ Finish(s, c, "refunded")
  /\ UNCHANGED <<clock, lockOwner, lockStale, late, job, host, amount, resDay, crashes>>

(* The reservation belongs to a day that is over. *)
DropRelease(s, c) ==
  LET m == Rolled(mem[s]) IN
  /\ pc[s] = "read"
  /\ job[s] = c
  /\ phase[c] = "releasing"
  /\ ~SameDay(c, m)
  /\ mem' = [mem EXCEPT ![s] = m]
  /\ Finish(s, c, "unrefunded")
  /\ UNCHANGED <<clock, fileVars, late, job, host, amount, resDay, ledger, crashes>>

(* releaseLock: unlinks whatever lock file is there, and ignores a failure. *)
Unlock(s) ==
  /\ pc[s] = "unlock"
  /\ pc' = [pc EXCEPT ![s] = "idle"]
  /\ job' = [job EXCEPT ![s] = None]
  /\ UnlinkLock
  /\ UNCHANGED <<clock, disk, late, mem, callVars, ledger, crashes>>

-----------------------------------------------------------------------------
(* The process dies: memory and every call it was running are gone, its    *)
(* lock file, if it had one, is not.                                       *)
Crash(s) ==
  /\ crashes < MaxCrashes
  /\ pc[s] # "down"
  /\ Holding(s) => Orphans
  /\ crashes' = crashes + 1
  /\ pc' = [pc EXCEPT ![s] = "down"]
  /\ mem' = [mem EXCEPT ![s] = Fresh]
  /\ job' = [job EXCEPT ![s] = None]
  /\ phase' = [c \in Call |->
                 IF host[c] = s /\ phase[c] \in {"reserving", "reserved", "releasing"}
                 THEN "lost" ELSE phase[c]]
  /\ UNCHANGED <<clock, fileVars, late, host, amount, resDay, ledger>>

Midnight ==
  /\ clock < LastDay
  /\ clock' = clock + 1
  /\ UNCHANGED <<fileVars, pc, late, mem, job, callVars, ledger, crashes>>

Work(s) ==
  \/ TryLock(s)
  \/ OpenLockFails(s)
  \/ InspectLock(s)
  \/ BustLock(s)
  \/ ReadState(s)
  \/ \E c \in Call : CommitReserve(s, c) \/ RefuseReserve(s, c)
  \/ \E c \in Call : CommitRelease(s, c) \/ DropRelease(s, c)
  \/ Unlock(s)

Next ==
  \/ \E s \in Server :
       \/ Start(s)
       \/ Work(s)
       \/ DeadlinePasses(s)
       \/ Crash(s)
       \/ \E c \in Call : Release(s, c) \/ Keep(s, c)
       \/ \E c \in Call, a \in Sizes : Reserve(s, c, a)
  \/ LockAges
  \/ Midnight

Spec == Init /\ [][Next]_vars

(* The operating system runs a live process, and time passes.  Nothing is  *)
(* assumed of callers, crashes or midnight.                                *)
Fairness == \A s \in Server : WF_vars(Work(s)) /\ WF_vars(DeadlinePasses(s))

FairSpec == Spec /\ Fairness /\ WF_vars(LockAges)

(* Removing the lock file does not fail forever. *)
UnlinkWorks(s) == BustLock(s) /\ lockOwner' = None
KindSpec == FairSpec /\ \A s \in Server : SF_vars(UnlinkWorks(s))

-----------------------------------------------------------------------------
(* Properties.                                                             *)

(* No two processes are between taking and removing the lock at once: the  *)
(* read-modify-write of withLock(fn) is never interleaved with another's.  *)
MutualExclusion ==
  \A s, t \in Server : Holding(s) /\ Holding(t) => s = t

(* The reservations charged to a day, refunds taken out: money that may    *)
(* really have been spent that day.                                        *)
ChargedTo(d) == {c \in Call : resDay[c] = d /\ phase[c] # "refunded"}
Exposure(d) == MapThenSumSet(LAMBDA c : amount[c], ChargedTo(d))

(* The daily cap: over all processes of the machine, restarts included,    *)
(* what reserve() approved on a day and release() did not take back stays  *)
(* within dailyLimitUsd.                                                   *)
ExposureWithinDailyLimit == \A d \in Day : Exposure(d) <= DailyLimitUsd

(* The same on the history variable, the form the proofs use.              *)
LedgerWithinDailyLimit == \A d \in Day : ledger[d] <= DailyLimitUsd

(* Any guard that opens the state file now sees at least today's real      *)
(* spend: no reservation of a live or dead process is lost from the file.  *)
DiskCoversLedger ==
  ledger[clock] <= IF disk.kind = "valid" /\ disk.day = clock THEN disk.spent ELSE 0

(* A state file found corrupt at start-up reopens nothing that day: only a *)
(* process that was there the day before may write a usable file again.    *)
CorruptFileGrantsNothing ==
  [][disk.kind = "corrupt" => ledger'[1] = ledger[1]]_vars

(* The cap does not hang on the lock as long as one process makes all the  *)
(* calls: stale and orphaned locks, failing reads and writes and its own   *)
(* crashes and restarts leave it standing.                                 *)
LoneProcess == \A c, d \in Call : host[c] # None /\ host[d] # None => host[c] = host[d]
LoneProcessKeepsCap == LoneProcess => \A d \in Day : Exposure(d) <= DailyLimitUsd

(* reserve() and release() return: no process waits for the lock forever,  *)
(* whatever happened to its owner.                                         *)
LockWaitEnds == \A s \in Server : pc[s] \in Waiting ~> pc[s] \notin Waiting

(* The processes together do what one atomic budget would: what a call     *)
(* holds is the reservation it was told of, unless that was refunded.      *)
heldGrant ==
  [c \in Call |->
     IF resDay[c] = 0 \/ phase[c] = "refunded" THEN [day |-> 0, usd |-> 0]
     ELSE [day |-> resDay[c], usd |-> amount[c]]]

Budget ==
  INSTANCE SpendBudget WITH clock <- clock, ledger <- ledger, grant <- heldGrant
ImplementsBudget == Budget!BudgetSpec

-----------------------------------------------------------------------------
(* The inductive invariant behind the theorems of SpendGuardProofs.        *)

(* When the cap is safe: one process makes all the calls, whatever fails;  *)
(* or several do, and no lock file outlives or outwaits its owner, or is   *)
(* left in place.                                                          *)
OneProcess == \A s, t \in Server : s = t
LockReliable == ~Orphans /\ ~HolderMayStall /\ ~ReadMayFail /\ ~UnlinkMayFail
GuardAssumption == OneProcess \/ LockReliable
Guarded == LoneProcess \/ LockReliable

CallsSound ==
  \A c \in Call :
    /\ phase[c] \in {"reserving", "reserved", "releasing"}
       => amount[c] \in Sizes /\ amount[c] > 0
    /\ phase[c] \in {"new", "reserving"} => resDay[c] = 0
    /\ resDay[c] # 0 => amount[c] > 0
    /\ phase[c] = "new" => host[c] = None

(* A process inside reserve()/release() works for a call of its own.       *)
JobsSound ==
  \A s \in Server :
    pc[s] \notin {"down", "idle"} =>
      /\ job[s] \in Call
      /\ host[job[s]] = s
      /\ phase[job[s]] # "new"
      /\ pc[s] # "unlock" => phase[job[s]] \in {"reserving", "releasing"}

LockSound ==
  LockReliable =>
    /\ ~lockStale
    /\ \A s \in Server : pc[s] # "busting"
    /\ \A s \in Server : Holding(s) <=> lockOwner = s

NothingFromTheFuture ==
  /\ disk.day <= clock
  /\ \A s \in Server : mem[s].day <= clock
  /\ \A d \in Day : d > clock => ledger[d] = 0

(* The history variable is what the calls add up to. *)
LedgerIsExposure == \A d \in Day : ledger[d] = Exposure(d)

(* A memory that decides has today's whole spend in it; so has that of a   *)
(* process which alone has made calls, at any time.                        *)
Covers(m) == ledger[clock] <= IF m.day = clock THEN m.spent ELSE 0
Alone(s) == \A c \in Call : host[c] \in {None, s}
MemoryCoversLedger ==
  \A s \in Server :
    pc[s] = "read" \/ (Alone(s) /\ pc[s] # "down") => Covers(mem[s])

(* The chain from what was charged over the file to what a process decides *)
(* on.                                                                     *)
ChainHolds == DiskCoversLedger /\ MemoryCoversLedger /\ LedgerWithinDailyLimit

(* Holds in every reachable state; implies the daily cap wherever the      *)
(* guard can keep it, and is preserved by every step of processes, clock   *)
(* and crash.                                                              *)
IInv ==
  /\ TypeOK
  /\ CallsSound
  /\ JobsSound
  /\ LockSound
  /\ NothingFromTheFuture
  /\ Guarded => ChainHolds

(* Why a corrupt file grants nothing: no call has written over it yet, and  *)
(* on the day it was found every process takes the budget for spent.        *)
CorruptIInv ==
  disk.kind = "corrupt" =>
    /\ \A c \in Call : resDay[c] = 0
    /\ clock = 1 => \A s \in Server : pc[s] # "down" =>
                      mem[s].day = 1 /\ mem[s].spent >= DailyLimitUsd

=============================================================================
