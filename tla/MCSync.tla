------------------------------- MODULE MCSync -------------------------------
(***************************************************************************)
(* The synchronization objects for TLC, in three worlds of the same        *)
(* threads: a Mutex and a ConditionVariable, a Monitor over the two, or a  *)
(* SizedQueue.  What a world does not use is left alone.  The Monitor's is *)
(* about its count only: some of the threads use it, and none is fair.     *)
(***************************************************************************)
EXTENDS Monitor, Sequences

CONSTANTS Bounds, MaxPushes,
  Users,       \* the threads in the Monitor's world
  Observed     \* whose waits are checked to end: one does, threads are alike

ASSUME ThreadsFinite == IsFiniteSet(Threads)
ASSUME UsersAreThreads == Users \subseteq Threads
ASSUME BoundsAreNat == Bounds \subseteq Nat

VARIABLES world, items, closed, max, waiting, notified, qpc, pushed, popped, cleared

Q == INSTANCE SyncQueue WITH pc <- qpc

queueVars == <<items, closed, max, waiting, notified, qpc, pushed, popped, cleared>>
MCvars == <<world, monitorVars, queueVars>>

MCInit ==
  /\ world \in {"condvar", "monitor", "queue"}
  /\ MonitorInit
  /\ Q!Init
  /\ world = "queue" \/ max = 1

InCondVar(A) == world = "condvar" /\ A /\ UNCHANGED <<world, monitor, queueVars>>
InMonitor(A) == world = "monitor" /\ A /\ UNCHANGED <<world, queueVars>>
InQueue(A) == world = "queue" /\ A /\ UNCHANGED <<world, monitorVars>>

MCNext == InCondVar(Next) \/ InMonitor(\E t \in Users : MonitorStep(t)) \/ InQueue(Q!Next)

\* CondVar's FairSpec and SyncQueue's, each in its world.
MCSpec ==
  /\ MCInit /\ [][MCNext]_MCvars
  /\ \A t \in Threads :
       /\ WF_MCvars(InCondVar(Release(t) \/ Park(t) \/ Unlock(t)))
       /\ SF_MCvars(InCondVar(TakeHandoff(t) \/ Woken(t) \/ Broadcast(t)))
       /\ SF_MCvars(InCondVar(Locked(t)))
       /\ WF_MCvars(InQueue(Q!Advance(t)))

\* The Monitor's owner and count are exact until a wait_for_cond came back
\* without the Mutex.
MonitorNesting == world = "monitor" => NestingExact

\* A waiter on a flag that was set gets back from ConditionVariable#wait.
CondVarReturns == world = "condvar" => \A t \in Observed : WaiterReturns(t)

\* Items leave a queue in the order they came, once each, and none disappears
\* but by clear (queue_push_locked, queue_pop, clear).
QueueOrder == Q!FirstInFirstOut

\* A pop is not left waiting beside an item, nor a push beside a free slot,
\* whoever gives up or barges meanwhile (queue_push_locked, queue_pop_locked).
QueueServes == \A t \in Observed : Q!Serves(t)

\* close ends every wait, of a push by its slices (queue_close).
QueueCloseReleases == \A t \in Observed : Q!CloseReleases(t)
=============================================================================
