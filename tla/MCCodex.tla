------------------------------- MODULE MCCodex -------------------------------
(****************************************************************************)
(* CodexTransport with instances of CodexRuntime beside it: a turn of       *)
(* Codex, from the pool of runtimes down to the app-server process. Which   *)
(* one moves is chosen at the start, so that a run asks the questions of    *)
(* both at once; the variables of CodexTransport keep their initial values  *)
(* while the pool moves. CodexRuntime gets the longer histories in one      *)
(* instance, failures in another, and approvals with failures in the third. *)
(****************************************************************************)
EXTENDS CodexTransport, TLC

CONSTANTS
    Runs, Threads, Hosts, Null

\* The instance that moves; the variables of the pool are Off when it does not.
VARIABLE watch
VARIABLES
    poolDaemonRun, poolBindings, poolFile, poolQueue, poolRuntimes,
    poolUsedBefore, poolWriters, poolHosts, poolNative, poolNwriter,
    poolSkillDir, poolReleasing, poolPolls, poolCancelled, poolReq, poolCalls, poolFaults,
    poolOverlapped
poolVars ==
    <<poolDaemonRun, poolBindings, poolFile, poolQueue, poolRuntimes,
      poolUsedBefore, poolWriters, poolHosts, poolNative, poolNwriter,
      poolSkillDir, poolReleasing, poolPolls, poolCancelled, poolReq, poolCalls,
      poolFaults, poolOverlapped>>
Off == "off"

Pool == INSTANCE CodexRuntime WITH
    Requests <- Calls, MaxRuntimes <- 1, MaxCalls <- 4, MaxFaults <- 0,
    MaxPolls <- 0,
    None <- Null, daemonRun <- poolDaemonRun, bindings <- poolBindings,
    file <- poolFile, queue <- poolQueue, runtimes <- poolRuntimes,
    usedBefore <- poolUsedBefore, writers <- poolWriters, hosts <- poolHosts,
    native <- poolNative, nwriter <- poolNwriter, skillDir <- poolSkillDir,
    releasing <- poolReleasing,
    polls <- poolPolls, cancelled <- poolCancelled, req <- poolReq,
    calls <- poolCalls, faults <- poolFaults, overlapped <- poolOverlapped

PoolFaults == INSTANCE CodexRuntime WITH
    Requests <- Calls, MaxRuntimes <- 1, MaxCalls <- 3, MaxFaults <- 1,
    MaxPolls <- 0,
    None <- Null, daemonRun <- poolDaemonRun, bindings <- poolBindings,
    file <- poolFile, queue <- poolQueue, runtimes <- poolRuntimes,
    usedBefore <- poolUsedBefore, writers <- poolWriters, hosts <- poolHosts,
    native <- poolNative, nwriter <- poolNwriter, skillDir <- poolSkillDir,
    releasing <- poolReleasing,
    polls <- poolPolls, cancelled <- poolCancelled, req <- poolReq,
    calls <- poolCalls, faults <- poolFaults, overlapped <- poolOverlapped

PoolApprovals == INSTANCE CodexRuntime WITH
    Requests <- Calls, MaxRuntimes <- 1, MaxCalls <- 2, MaxFaults <- 2,
    MaxPolls <- 2,
    None <- Null, daemonRun <- poolDaemonRun, bindings <- poolBindings,
    file <- poolFile, queue <- poolQueue, runtimes <- poolRuntimes,
    usedBefore <- poolUsedBefore, writers <- poolWriters, hosts <- poolHosts,
    native <- poolNative, nwriter <- poolNwriter, skillDir <- poolSkillDir,
    releasing <- poolReleasing,
    polls <- poolPolls, cancelled <- poolCancelled, req <- poolReq,
    calls <- poolCalls, faults <- poolFaults, overlapped <- poolOverlapped

-----------------------------------------------------------------------------
PoolOff ==
    /\ poolDaemonRun = Off /\ poolBindings = Off /\ poolFile = Off
    /\ poolQueue = Off /\ poolRuntimes = Off /\ poolUsedBefore = Off
    /\ poolWriters = Off /\ poolHosts = Off /\ poolNative = Off
    /\ poolNwriter = Off /\ poolSkillDir = Off /\ poolPolls = Off
    /\ poolReleasing = Off
    /\ poolCancelled = Off /\ poolReq = Off /\ poolCalls = Off
    /\ poolFaults = Off /\ poolOverlapped = Off
CodexInit ==
    /\ Init
    /\ \/ watch = "pool" /\ Pool!Init
       \/ watch = "pool faults" /\ PoolFaults!Init
       \/ watch = "pool approvals" /\ PoolApprovals!Init
       \/ watch = "host" /\ PoolOff
CodexNext ==
    \/ /\ watch = "pool" /\ Pool!Next
       /\ UNCHANGED <<watch, vars>>
    \/ /\ watch = "pool faults" /\ PoolFaults!Next
       /\ UNCHANGED <<watch, vars>>
    \/ /\ watch = "pool approvals" /\ PoolApprovals!Next
       /\ UNCHANGED <<watch, vars>>
    \/ /\ watch = "host" /\ Next
       /\ UNCHANGED <<watch, poolVars>>
CodexSpec == CodexInit /\ [][CodexNext]_<<watch, poolVars, vars>>

\* Processes, calls and names that a module treats alike.
Symmetry ==
    Permutations(Calls) \cup Permutations(Runs)
      \cup Permutations(Threads) \cup Permutations(Hosts)

-----------------------------------------------------------------------------
\* A thread has one writer, the turn that runs in it; what the pool records is
\* what the hosts do, however turns, cancellations, evictions and clears
\* overlap (codex-runtime-pool.ts).
TurnOwnsItsThread ==
    /\ watch = "pool" => Pool!TurnOwnsItsThread
    /\ watch = "pool faults" => PoolFaults!TurnOwnsItsThread
    /\ watch = "pool approvals" => PoolApprovals!TurnOwnsItsThread

\* When all writes are through, the registry file is the registry in memory
\* (codex-thread-store.ts).
StoreConverges ==
    /\ watch = "pool" => Pool!StoreConverges
    /\ watch = "pool faults" => PoolFaults!StoreConverges
    /\ watch = "pool approvals" => PoolApprovals!StoreConverges

=============================================================================
