------------------------------- MODULE Spinner -------------------------------
(***************************************************************************)
(* The threads of the block spinner and their locks                        *)
(* (cryptonote_basic/spinner.cpp): the worker that builds and submits      *)
(* blocks, the controller of background spinning, the RPC threads that     *)
(* start and stop the spinner, the idle thread that restarts it to find    *)
(* the best number of threads, and the network threads that hand the node  *)
(* a new block and then ask the spinner for a new template.                *)
(*                                                                         *)
(* A step ends where another thread can see or block it: at a lock, at a   *)
(* read or write of a shared flag.  What is built and submitted is not     *)
(* modelled, only who waits for whom.  The pool lock and the blockchain    *)
(* lock are taken together, in this order, everywhere here; they are one.  *)
(***************************************************************************)
EXTENDS Integers, FiniteSets

CONSTANTS
  Worker,       \* identities for workers; their number bounds those alive
  Controller,   \* threads that call start and stop
  Peer,         \* network threads that handle an incoming block
  Idle,         \* the thread that runs on_idle: one element, or none
  NoThread,
  Background,   \* may start be called with do_background?
  Autodetect,   \* may start be called with threads_count = 0?
  Late          \* is the height above START_AMOUNT_BLOCKS?

Thread == Worker \cup Controller \cup Peer \cup Idle
Locks == {"incoming", "pool", "template", "threads"}

ASSUME ThreadAssumption ==
  /\ IsFiniteSet(Worker) /\ Worker # {} /\ IsFiniteSet(Peer)
  /\ Worker \cap (Controller \cup Peer \cup Idle) = {}
  /\ Controller \cap (Peer \cup Idle) = {} /\ Peer \cap Idle = {}
  /\ NoThread \notin Thread
  /\ Background \in BOOLEAN /\ Autodetect \in BOOLEAN /\ Late \in BOOLEAN

VARIABLES
  pc,         \* where each thread is
  lock,       \* the owner of each lock
  m_stop, m_threads, m_threads_active, m_pausers_count,
  autodetect, \* is m_threads_autodetect not empty?
  bgEnabled,  \* m_is_background_spinning_enabled
  bgStarted,  \* m_is_background_spinning_started
  bgThread    \* where background_worker_thread is

flags == <<autodetect, bgEnabled, bgStarted, bgThread>>
vars == <<pc, lock, m_stop, m_threads, m_threads_active, m_pausers_count, flags>>

Init ==
  /\ pc = [t \in Thread |-> "idle"]
  /\ lock = [l \in Locks |-> NoThread]
  /\ m_stop = TRUE /\ m_threads = {}
  /\ m_threads_active = 0 /\ m_pausers_count = 0
  /\ autodetect = FALSE /\ bgEnabled = FALSE /\ bgStarted = FALSE
  /\ bgThread = "none"

At(t, label) == pc[t] = label
Go(t, label) == pc' = [pc EXCEPT ![t] = label]

Free(t, l) == lock[l] \in {t, NoThread}
Take(t, l) == lock[l] = NoThread /\ lock' = [lock EXCEPT ![l] = t]
Give(S) == lock' = [l \in Locks |-> IF l \in S THEN NoThread ELSE lock[l]]

(* An identity that is not in use; start and restart wait for one.         *)
Unused(w) == At(w, "idle") /\ w \notin m_threads
-----------------------------------------------------------------------------
(* request_block_template outside the worker's critical section: the pool  *)
(* lock inside create_block_template, then the template lock inside        *)
(* set_block_template.  Nothing is taken inside them, so each is taken and *)
(* given back in one step; t may hold the pool lock already.               *)
GetTemplate(t, from, to) ==
  /\ At(t, from) /\ Free(t, "pool")
  /\ Go(t, to)
  /\ UNCHANGED <<lock, m_stop, m_threads, m_threads_active, m_pausers_count, flags>>

SetTemplate(t, from, to) ==
  /\ At(t, from) /\ Free(t, "template")
  /\ Go(t, to)
  /\ UNCHANGED <<lock, m_stop, m_threads, m_threads_active, m_pausers_count, flags>>
-----------------------------------------------------------------------------
(* worker_thread.                                                          *)

(* Before the thread counts itself it waits for its first spinner data.    *)
WorkerBegin(w) ==
  /\ At(w, "new")
  /\ IF Late
     THEN /\ Go(w, "data")
          /\ UNCHANGED m_threads_active
     ELSE /\ Go(w, "loop")
          /\ m_threads_active' = m_threads_active + 1
  /\ UNCHANGED <<lock, m_stop, m_threads, m_pausers_count, flags>>

(* Mutant: the worker forgets to count itself.                             *)
WorkerUncounted(w) ==
  /\ At(w, "data") /\ Go(w, "loop")
  /\ UNCHANGED <<lock, m_stop, m_threads, m_threads_active, m_pausers_count, flags>>

(* It leaves the wait when it sees m_stop or gets the data, at any time.   *)
WorkerCount(w) ==
  /\ At(w, "data")
  /\ Go(w, "loop")
  /\ m_threads_active' = m_threads_active + 1
  /\ UNCHANGED <<lock, m_stop, m_threads, m_pausers_count, flags>>

(* The head of the loop: leave, or go on unless paused.                    *)
WorkerLoop(w) ==
  /\ At(w, "loop")
  /\ \/ m_stop /\ Go(w, "leave")
     \/ /\ ~m_stop /\ m_pausers_count = 0
        /\ Go(w, IF bgEnabled /\ ~bgStarted THEN "see" ELSE "work")
  /\ UNCHANGED <<lock, m_stop, m_threads, m_threads_active, m_pausers_count, flags>>

(* The thread has seen that background spinning is not started and enters  *)
(* the wait; a notification before that is lost.                           *)
WorkerWait(w) ==
  /\ At(w, "see")
  /\ Go(w, "wait")
  /\ UNCHANGED <<lock, m_stop, m_threads, m_threads_active, m_pausers_count, flags>>

WorkerWoken(w) ==
  /\ At(w, "woken")
  /\ Go(w, IF m_stop THEN "loop" ELSE IF bgStarted THEN "work" ELSE "see")
  /\ UNCHANGED <<lock, m_stop, m_threads, m_threads_active, m_pausers_count, flags>>

(* At two heights, the later one START_AMOUNT_BLOCKS, the worker stops the *)
(* spinner after this block.  Above them it asks for new spinner data,     *)
(* which may be refused.                                                   *)
WorkerData(w) ==
  /\ At(w, "work")
  /\ \/ Late /\ Go(w, "loop") /\ UNCHANGED m_stop
     \/ Go(w, "region") /\ UNCHANGED m_stop
     \/ ~Late /\ Go(w, "region") /\ m_stop' = TRUE
  /\ UNCHANGED <<lock, m_threads, m_threads_active, m_pausers_count, flags>>

(* The critical section with request_block_template inside.                *)
WorkerRegion(w) ==
  /\ At(w, "region") /\ Take(w, "template")
  /\ Go(w, "build")
  /\ UNCHANGED <<m_stop, m_threads, m_threads_active, m_pausers_count, flags>>

WorkerBuild(w) ==
  /\ At(w, "build") /\ Free(w, "pool")
  /\ Go(w, "found") /\ Give({"template"})
  /\ UNCHANGED <<m_stop, m_threads, m_threads_active, m_pausers_count, flags>>

(* resume(): a count that would become negative is reset.                  *)
Resumed == IF m_pausers_count = 0 THEN 0 ELSE m_pausers_count - 1

(* core::handle_block_found.                                               *)
WorkerFound(w) ==
  /\ At(w, "found")
  /\ m_pausers_count' = m_pausers_count + 1
  /\ Go(w, "incoming")
  /\ UNCHANGED <<lock, m_stop, m_threads, m_threads_active, flags>>

(* Mutant: the early return leaves the spinner paused.                     *)
WorkerGoneNoResume(w) ==
  /\ At(w, "incoming") /\ Free(w, "pool") /\ Go(w, "loop")
  /\ UNCHANGED <<lock, m_stop, m_threads, m_threads_active, m_pausers_count, flags>>

(* It gives up if a transaction of the block has left the pool.            *)
WorkerGone(w) ==
  /\ At(w, "incoming") /\ Free(w, "pool")
  /\ m_pausers_count' = Resumed
  /\ Go(w, "loop")
  /\ UNCHANGED <<lock, m_stop, m_threads, m_threads_active, flags>>

WorkerIncoming(w) ==
  /\ At(w, "incoming") /\ Take(w, "incoming")
  /\ Go(w, "prepare")
  /\ UNCHANGED <<m_stop, m_threads, m_threads_active, m_pausers_count, flags>>

WorkerPrepare(w) ==
  /\ At(w, "prepare") /\ Take(w, "pool")
  /\ Go(w, "add")
  /\ UNCHANGED <<m_stop, m_threads, m_threads_active, m_pausers_count, flags>>

(* The block is added and the locks are given back; a new template follows *)
(* unless prepare_handle_incoming_blocks failed or the spinner is stopped. *)
WorkerAdd(w) ==
  /\ At(w, "add")
  /\ Give({"incoming", "pool"})
  /\ \E prepared \in BOOLEAN :
       Go(w, IF prepared /\ ~m_stop THEN "get" ELSE "resume")
  /\ UNCHANGED <<m_stop, m_threads, m_threads_active, m_pausers_count, flags>>

WorkerResume(w) ==
  /\ At(w, "resume")
  /\ m_pausers_count' = Resumed
  /\ Go(w, "loop")
  /\ UNCHANGED <<lock, m_stop, m_threads, m_threads_active, flags>>

(* Mutant: the count is not decremented.                                   *)
WorkerLeaveCounted(w) ==
  /\ At(w, "leave") /\ Go(w, "left")
  /\ UNCHANGED <<lock, m_stop, m_threads, m_threads_active, m_pausers_count, flags>>

WorkerLeave(w) ==
  /\ At(w, "leave")
  /\ m_threads_active' = m_threads_active - 1
  /\ Go(w, "left")
  /\ UNCHANGED <<lock, m_stop, m_threads, m_pausers_count, flags>>

(* The last worker to leave calls stop().                                  *)
WorkerLeft(w) ==
  /\ At(w, "left")
  /\ Go(w, IF m_threads_active = 0 THEN "stop" ELSE "idle")
  /\ UNCHANGED <<lock, m_stop, m_threads, m_threads_active, m_pausers_count, flags>>

WorkerStep(w) ==
  \/ WorkerBegin(w) \/ WorkerCount(w) \/ WorkerLoop(w) \/ WorkerWait(w)
  \/ WorkerWoken(w) \/ WorkerData(w) \/ WorkerRegion(w) \/ WorkerBuild(w)
  \/ WorkerFound(w) \/ WorkerGone(w) \/ WorkerIncoming(w) \/ WorkerPrepare(w)
  \/ WorkerAdd(w) \/ GetTemplate(w, "get", "set")
  \/ SetTemplate(w, "set", "resume") \/ WorkerResume(w)
  \/ WorkerLeave(w) \/ WorkerLeft(w)
-----------------------------------------------------------------------------
(* stop(), called by a controller or by the last worker.                   *)

StopEnter(t) ==
  /\ At(t, "stop")
  /\ IF m_threads = {}
     THEN Free(t, "threads") /\ Go(t, "idle") /\ UNCHANGED <<lock, m_stop>>
     ELSE Take(t, "threads") /\ m_stop' = TRUE /\ Go(t, "stopping")
  /\ UNCHANGED <<m_threads, m_threads_active, m_pausers_count, flags>>

(* notify_all wakes the workers that wait for background spinning.         *)
Notify == [t \in Thread |-> IF pc[t] = "wait" THEN "woken" ELSE pc[t]]

(* Mutant: stop sleeps without notifying.                                  *)
StopSilent(t) ==
  /\ At(t, "stopping") /\ m_threads_active > 0
  /\ UNCHANGED vars

StopNotify(t) ==
  /\ At(t, "stopping") /\ m_threads_active > 0
  /\ pc' = Notify
  /\ UNCHANGED <<lock, m_stop, m_threads, m_threads_active, m_pausers_count, flags>>

(* Mutant: stop does not wait for the workers.                             *)
StopAtOnce(t) ==
  /\ At(t, "stopping") /\ Go(t, "join")
  /\ UNCHANGED <<lock, m_stop, m_threads, m_threads_active, m_pausers_count, flags>>

StopInterrupt(t) ==
  /\ At(t, "stopping") /\ m_threads_active = 0
  /\ Go(t, "join")
  /\ UNCHANGED <<lock, m_stop, m_threads, m_threads_active, m_pausers_count, flags>>

StopJoin(t) ==
  /\ At(t, "join") /\ bgThread = "none"
  /\ m_threads' = {} /\ autodetect' = FALSE /\ bgEnabled' = FALSE
  /\ Give({"threads"}) /\ Go(t, "idle")
  /\ UNCHANGED <<m_stop, m_threads_active, m_pausers_count, bgStarted, bgThread>>

StopStep(t) ==
  StopEnter(t) \/ StopNotify(t) \/ StopInterrupt(t) \/ StopJoin(t)
-----------------------------------------------------------------------------
(* start(), and the decision of a controller to call start or stop.  The   *)
(* callers are the RPC server, on_synchronized and core::stop; the last    *)
(* two do not look at m_stop first.  With threads_count = 0, start sets    *)
(* m_threads_autodetect before it takes the lock.                          *)

CallStop(c) ==
  /\ At(c, "idle") /\ Go(c, "stop")
  /\ UNCHANGED <<lock, m_stop, m_threads, m_threads_active, m_pausers_count, flags>>

CallStart(c) ==
  /\ At(c, "idle") /\ Go(c, "start")
  /\ \E auto \in {FALSE, Autodetect} : autodetect' = (autodetect \/ auto)
  /\ UNCHANGED <<lock, m_stop, m_threads, m_threads_active, m_pausers_count,
                 bgEnabled, bgStarted, bgThread>>

(* Refused while the spinner is started or m_threads is not empty.         *)
StartEnter(c) ==
  /\ At(c, "start")
  /\ IF ~m_stop \/ m_threads # {}
     THEN Free(c, "threads") /\ Go(c, "idle") /\ UNCHANGED lock
     ELSE /\ \E w \in Worker : Unused(w)
          /\ Take(c, "threads") /\ Go(c, "startget")
  /\ UNCHANGED <<m_stop, m_threads, m_threads_active, m_pausers_count, flags>>

(* Above START_AMOUNT_BLOCKS it is refused without a proof for spinning.   *)
StartRefused(c) ==
  /\ At(c, "startspawn") /\ Late
  /\ Give({"threads"}) /\ Go(c, "idle")
  /\ UNCHANGED <<m_stop, m_threads, m_threads_active, m_pausers_count, flags>>

(* A controller thread of an earlier start that has not seen m_stop is     *)
(* forgotten: the new one does whatever it could do.                       *)
StartSpawn(c) ==
  /\ At(c, "startspawn")
  /\ \E w \in Worker, bg \in {FALSE, Background} :
       /\ Unused(w)
       /\ pc' = [pc EXCEPT ![c] = "idle", ![w] = "new"]
       /\ m_threads' = {w} /\ m_stop' = FALSE
       /\ bgEnabled' = bg /\ bgThread' = IF bg THEN "new" ELSE bgThread
  /\ Give({"threads"})
  /\ UNCHANGED <<m_threads_active, m_pausers_count, autodetect, bgStarted>>

ControllerStep(c) ==
  \/ StartEnter(c) \/ GetTemplate(c, "startget", "startset")
  \/ SetTemplate(c, "startset", "startspawn")
  \/ StartRefused(c) \/ StartSpawn(c)
-----------------------------------------------------------------------------
(* update_autodetection: restart the worker.  The lock is given back       *)
(* before m_stop is reset and before the new thread is in m_threads.       *)

(* The decision, when a measurement is over: the best number is found or   *)
(* one thread more is tried.                                               *)
Restart(i) ==
  /\ At(i, "idle") /\ autodetect /\ \E w \in Worker : Unused(w)
  /\ autodetect' \in BOOLEAN
  /\ Go(i, "restart")
  /\ UNCHANGED <<lock, m_stop, m_threads, m_threads_active, m_pausers_count,
                 bgEnabled, bgStarted, bgThread>>

RestartStop(i) ==
  /\ At(i, "restart") /\ Take(i, "threads")
  /\ m_stop' = TRUE /\ Go(i, "restarting")
  /\ UNCHANGED <<m_threads, m_threads_active, m_pausers_count, flags>>

RestartClear(i) ==
  /\ At(i, "restarting") /\ m_threads_active = 0
  /\ m_threads' = {} /\ Give({"threads"}) /\ Go(i, "reset")
  /\ UNCHANGED <<m_stop, m_threads_active, m_pausers_count, flags>>

RestartReset(i) ==
  /\ At(i, "reset")
  /\ m_stop' = FALSE /\ Go(i, "spawn")
  /\ UNCHANGED <<lock, m_threads, m_threads_active, m_pausers_count, flags>>

RestartSpawn(i) ==
  /\ At(i, "spawn")
  /\ \E w \in Worker :
       /\ Unused(w)
       /\ pc' = [pc EXCEPT ![i] = "idle", ![w] = "new"]
       /\ m_threads' = m_threads \cup {w}
  /\ UNCHANGED <<lock, m_stop, m_threads_active, m_pausers_count, flags>>

IdleStep(i) == RestartStop(i) \/ RestartClear(i) \/ RestartReset(i) \/ RestartSpawn(i)
-----------------------------------------------------------------------------
(* handle_notify_new_block: pause, take the incoming and the pool lock,    *)
(* add the block, ask for a new template if it was added, clean up, resume.*)

PeerPause(p) ==
  /\ At(p, "idle")
  /\ m_pausers_count' = m_pausers_count + 1
  /\ Go(p, "incoming")
  /\ UNCHANGED <<lock, m_stop, m_threads, m_threads_active, flags>>

PeerIncoming(p) ==
  /\ At(p, "incoming") /\ Take(p, "incoming")
  /\ Go(p, "prepare")
  /\ UNCHANGED <<m_stop, m_threads, m_threads_active, m_pausers_count, flags>>

PeerPrepare(p) ==
  /\ At(p, "prepare") /\ Take(p, "pool")
  /\ Go(p, "add")
  /\ UNCHANGED <<m_stop, m_threads, m_threads_active, m_pausers_count, flags>>

PeerAdd(p) ==
  /\ At(p, "add")
  /\ \E added \in BOOLEAN : Go(p, IF added /\ ~m_stop THEN "get" ELSE "cleanup")
  /\ UNCHANGED <<lock, m_stop, m_threads, m_threads_active, m_pausers_count, flags>>

PeerCleanup(p) ==
  /\ At(p, "cleanup")
  /\ Give({"incoming", "pool"})
  /\ m_pausers_count' = Resumed
  /\ Go(p, "idle")
  /\ UNCHANGED <<m_stop, m_threads, m_threads_active, flags>>

PeerStep(p) ==
  \/ PeerIncoming(p) \/ PeerPrepare(p) \/ PeerAdd(p)
  \/ GetTemplate(p, "get", "set") \/ SetTemplate(p, "set", "cleanup")
  \/ PeerCleanup(p)
-----------------------------------------------------------------------------
(* background_worker_thread.                                               *)

(* It returns at once if the system times cannot be read.                  *)
BackgroundBegin ==
  /\ bgThread = "new"
  /\ bgStarted' = FALSE /\ bgThread' \in {"none", "loop"}
  /\ UNCHANGED <<pc, lock, m_stop, m_threads, m_threads_active, m_pausers_count,
                 autodetect, bgEnabled>>

BackgroundLoop ==
  /\ bgThread = "loop"
  /\ bgThread' = IF m_stop THEN "none" ELSE "sleep"
  /\ UNCHANGED <<pc, lock, m_stop, m_threads, m_threads_active, m_pausers_count,
                 autodetect, bgEnabled, bgStarted>>

(* After its sleep it may find that the load asks for a change; the        *)
(* workers are notified of a start only.                                   *)
BackgroundWake ==
  /\ bgThread = "sleep" /\ bgThread' = "loop"
  /\ bgStarted' \in BOOLEAN
  /\ pc' = IF bgStarted' /\ ~bgStarted THEN Notify ELSE pc
  /\ UNCHANGED <<lock, m_stop, m_threads, m_threads_active, m_pausers_count,
                 autodetect, bgEnabled>>

BackgroundStep == BackgroundBegin \/ BackgroundLoop \/ BackgroundWake

Next ==
  \/ \E w \in Worker : WorkerStep(w) \/ StopStep(w)
  \/ \E c \in Controller :
       CallStart(c) \/ CallStop(c) \/ ControllerStep(c) \/ StopStep(c)
  \/ \E i \in Idle : Restart(i) \/ IdleStep(i)
  \/ \E p \in Peer : PeerPause(p) \/ PeerStep(p)
  \/ BackgroundStep

(* A thread that can go on does; nobody has to call start or stop, peers   *)
(* need not send blocks, and the load need not change.                     *)
Fairness ==
  /\ \A w \in Worker : WF_vars(WorkerStep(w) \/ StopStep(w))
  /\ \A c \in Controller : WF_vars(ControllerStep(c) \/ StopStep(c))
  /\ \A i \in Idle : WF_vars(IdleStep(i))
  /\ \A p \in Peer : WF_vars(PeerStep(p))
  /\ WF_vars(BackgroundStep)

Spec == Init /\ [][Next]_vars /\ Fairness
-----------------------------------------------------------------------------
(* Properties.                                                             *)

Handling == {"incoming", "prepare", "add", "get", "set", "resume", "cleanup"}
Body == {"see", "wait", "woken", "work", "region", "build", "found"} \cup Handling
Starting == {"start", "startget", "startset", "startspawn"}
Labels ==
  Body \cup {"idle", "new", "data", "loop", "leave", "left", "stop", "stopping",
             "join"} \cup Starting \cup {
             "restart", "restarting", "reset", "spawn"}

(* Every variable has its type.                                            *)
TypeOK ==
  /\ pc \in [Thread -> Labels]
  /\ lock \in [Locks -> Thread \cup {NoThread}]
  /\ m_stop \in BOOLEAN /\ m_threads \in SUBSET Worker
  /\ m_threads_active \in Nat /\ m_pausers_count \in Nat
  /\ autodetect \in BOOLEAN /\ bgEnabled \in BOOLEAN
  /\ bgStarted \in BOOLEAN /\ bgThread \in {"none", "new", "loop", "sleep"}

(* A spinner that has been stopped is quiet: once stop() has emptied       *)
(* m_threads, and until start() resets m_stop, no worker is inside the     *)
(* loop, so none submits a block or touches the template.                  *)
StoppedIsQuiet ==
  m_stop /\ m_threads = {} => \A w \in Worker : pc[w] \notin Body

(* m_threads_active, an unsigned counter that stop() and restarts wait on, *)
(* counts the workers between its increment and its decrement, also those  *)
(* that a stop() or a restart has missed: it never wraps below zero.       *)
ActiveExact ==
  m_threads_active =
    Cardinality({w \in Worker : pc[w] \in Body \cup {"loop", "leave"}})

(* m_pausers_count is the number of threads that handle a block, on every  *)
(* path through handle_block_found and handle_notify_new_block: spinning   *)
(* is never left paused and never resumed under a handler.                 *)
PausesBalanced ==
  m_pausers_count = Cardinality({t \in Worker \cup Peer : pc[t] \in Handling})

(* stop() returns: the worker it waits for is woken from the wait for      *)
(* background spinning and leaves, and so does the background thread.      *)
StopReturns ==
  \A t \in Worker \cup Controller : At(t, "stopping") ~> At(t, "idle")

(* The lock a thread is about to take.                                     *)
Wants(t) ==
  CASE pc[t] = "region" -> "template"
    [] pc[t] \in {"set", "startset"} -> "template"
    [] pc[t] \in {"build", "prepare", "get", "startget"} -> "pool"
    [] pc[t] = "incoming" -> "incoming"
    [] pc[t] \in {"stop", "start", "restart"} -> "threads"
    [] OTHER -> "none"
BlockedBy(t, u) ==
  /\ t # u /\ Wants(t) # "none" /\ lock[Wants(t)] = u
(* No two threads wait for a lock of each other.                           *)
NoLockCycle == \A t, u \in Thread : ~(BlockedBy(t, u) /\ BlockedBy(u, t))

(* The restart by update_autodetection, which waits for the workers with   *)
(* m_threads_lock held, gets past that wait.                               *)
RestartEnds == \A i \in Idle : At(i, "restarting") ~> At(i, "reset")
=============================================================================
