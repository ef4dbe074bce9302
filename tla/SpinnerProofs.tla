---------------------------- MODULE SpinnerProofs ----------------------------
(***************************************************************************)
(* For any number of workers, controllers and peers: the two counters that *)
(* the spinner's threads wait on are exact, and, when update_autodetection *)
(* does not run, a stopped spinner is quiet.                               *)
(***************************************************************************)
EXTENDS Spinner, FiniteSetTheorems, TLAPS

(* The labels: outside the loop, inside it, and inside the loop (or in a   *)
(* peer's handler) with the spinner paused.                                *)
Inner == {"loop", "leave", "see", "wait", "woken", "work", "region", "build", "found"}
Outer == {"idle", "new", "data", "left", "stop", "stopping", "join", "restart",
          "restarting", "reset", "spawn"} \cup Starting
SameClass(a, b) ==
  \/ a \in Inner /\ b \in Inner
  \/ a \in Outer /\ b \in Outer
  \/ a \in Handling /\ b \in Handling

Counted == Body \cup {"loop", "leave"}
Active(f) == {w \in Worker : f[w] \in Counted}
Pausing(f) == {t \in Worker \cup Peer : f[t] \in Handling}

(* The counters are exact; this is inductive.                              *)
Counts ==
  /\ pc \in [Thread -> Labels]
  /\ m_threads_active = Cardinality(Active(pc))
  /\ m_pausers_count = Cardinality(Pausing(pc))

(* A step of t within a class of labels.                                   *)
Within(t, C) ==
  /\ pc[t] \in C /\ \E x \in C : Go(t, x)
  /\ UNCHANGED <<m_threads_active, m_pausers_count>>
-----------------------------------------------------------------------------
(* The three classes of labels are disjoint.                               *)
LEMMA Classes ==
  /\ Labels = Inner \cup Outer \cup Handling
  /\ Counted = Inner \cup Handling
  /\ Inner \cap Outer = {} /\ Inner \cap Handling = {} /\ Outer \cap Handling = {}
BY DEF Labels, Counted, Body, Inner, Outer, Handling, Starting

(* The sets that are counted are finite.                                   *)
LEMMA FiniteCounts ==
  ASSUME NEW f
  PROVE  /\ IsFiniteSet(Active(f)) /\ Cardinality(Active(f)) \in Nat
         /\ IsFiniteSet(Pausing(f)) /\ Cardinality(Pausing(f)) \in Nat
<1>1. IsFiniteSet(Worker) /\ IsFiniteSet(Worker \cup Peer)
  BY Zenon, ThreadAssumption, FS_Union
<1>2. Active(f) \in SUBSET Worker /\ Pausing(f) \in SUBSET (Worker \cup Peer)
  BY DEF Active, Pausing
<1>3. IsFiniteSet(Active(f)) /\ IsFiniteSet(Pausing(f))
  BY <1>1, <1>2, FS_Subset
<1> QED BY <1>3, FS_CardinalityType

(* A thread that moves within its class changes neither count.             *)
LEMMA SameCounts ==
  ASSUME Counts, pc' \in [Thread -> Labels],
         \A t \in Thread : SameClass(pc[t], pc'[t]),
         UNCHANGED <<m_threads_active, m_pausers_count>>
  PROVE  Counts'
<1>1. \A t \in Thread : /\ pc[t] \in Counted <=> pc'[t] \in Counted
                        /\ pc[t] \in Handling <=> pc'[t] \in Handling
  BY Classes DEF SameClass
<1>2. Active(pc') = Active(pc) /\ Pausing(pc') = Pausing(pc)
  BY <1>1 DEF Active, Pausing, Thread
<1> QED BY <1>2 DEF Counts

(* The move of one thread.                                                 *)
LEMMA MoveSame ==
  ASSUME Counts, NEW t \in Thread, NEW x, Go(t, x), SameClass(pc[t], x),
         UNCHANGED <<m_threads_active, m_pausers_count>>
  PROVE  Counts'
<1>1. x \in Labels
  BY Classes DEF SameClass
<1>2. pc' \in [Thread -> Labels]
  BY <1>1 DEF Counts, Go
<1>3. \A u \in Thread : pc'[u] = IF u = t THEN x ELSE pc[u]
  BY DEF Counts, Go
<1>4. \A u \in Thread : pc[u] \in Labels
  BY DEF Counts
<1>5. \A u \in Thread : SameClass(pc[u], pc'[u])
  BY <1>3, <1>4, Classes DEF SameClass
<1> QED BY <1>2, <1>5, SameCounts

(* An element enters or leaves a finite set.                               *)
LEMMA MoveInto ==
  ASSUME NEW A, NEW B, NEW t, IsFiniteSet(A), \A u : u # t => (u \in A <=> u \in B)
  PROVE  /\ t \in A => Cardinality(A) > 0
         /\ t \notin A /\ t \in B => Cardinality(B) = Cardinality(A) + 1
         /\ t \in A /\ t \notin B => Cardinality(B) = Cardinality(A) - 1
         /\ (t \in A <=> t \in B) => B = A
<1>1. Cardinality(A) \in Nat
  BY FS_CardinalityType
<1>2. ASSUME t \in A PROVE Cardinality(A) > 0
  <2>1. Cardinality(A) # 0
    BY <1>2, FS_EmptySet
  <2> QED BY <1>1, <2>1
<1>3. ASSUME t \notin A, t \in B PROVE Cardinality(B) = Cardinality(A) + 1
  <2>1. B = A \cup {t}
    BY <1>3
  <2> QED BY <1>3, <2>1, FS_AddElement
<1>4. ASSUME t \in A, t \notin B PROVE Cardinality(B) = Cardinality(A) - 1
  <2>1. B = A \ {t}
    BY <1>4
  <2> QED BY <1>4, <2>1, FS_RemoveElement
<1>5. ASSUME t \in A <=> t \in B PROVE B = A
  BY <1>5
<1> QED BY <1>2, <1>3, <1>4, <1>5

(* What the move of one thread does to the counts.                         *)
LEMMA ActiveMove ==
  ASSUME Counts, NEW t \in Thread, NEW x, Go(t, x)
  PROVE  /\ t \notin Worker \/ (pc[t] \in Counted <=> x \in Counted)
              => Cardinality(Active(pc')) = Cardinality(Active(pc))
         /\ t \in Worker /\ pc[t] \notin Counted /\ x \in Counted
              => Cardinality(Active(pc')) = Cardinality(Active(pc)) + 1
         /\ t \in Worker /\ pc[t] \in Counted /\ x \notin Counted
              => Cardinality(Active(pc')) = Cardinality(Active(pc)) - 1
<1>1. \A u \in Thread : pc'[u] = IF u = t THEN x ELSE pc[u]
  BY DEF Go, Counts
<1>2. \A u : u # t => (u \in Active(pc) <=> u \in Active(pc'))
  BY <1>1 DEF Active, Thread
<1>3. /\ t \in Active(pc) <=> t \in Worker /\ pc[t] \in Counted
      /\ t \in Active(pc') <=> t \in Worker /\ x \in Counted
  BY <1>1 DEF Active
<1>4. IsFiniteSet(Active(pc))
  BY FiniteCounts
<1> DEFINE A == Active(pc)
           B == Active(pc')
<1>5. /\ t \notin A /\ t \in B => Cardinality(B) = Cardinality(A) + 1
      /\ t \in A /\ t \notin B => Cardinality(B) = Cardinality(A) - 1
      /\ (t \in A <=> t \in B) => B = A
  <2> HIDE DEF A, B
  <2>1. IsFiniteSet(A) /\ \A u : u # t => (u \in A <=> u \in B)
    BY ONLY Zenon, <1>2, <1>4 DEF A, B
  <2> QED BY ONLY Zenon, <2>1, MoveInto
<1> HIDE DEF A, B
<1>6. /\ t \in A <=> t \in Worker /\ pc[t] \in Counted
      /\ t \in B <=> t \in Worker /\ x \in Counted
  BY Zenon, <1>3 DEF A, B
<1>7. /\ t \notin Worker \/ (pc[t] \in Counted <=> x \in Counted)
           => Cardinality(B) = Cardinality(A)
      /\ t \in Worker /\ pc[t] \notin Counted /\ x \in Counted
           => Cardinality(B) = Cardinality(A) + 1
      /\ t \in Worker /\ pc[t] \in Counted /\ x \notin Counted
           => Cardinality(B) = Cardinality(A) - 1
  BY ONLY Zenon, <1>5, <1>6
<1> QED BY ONLY Zenon, <1>7 DEF A, B

(* The same for the pauses.                                                *)
LEMMA PauseMove ==
  ASSUME Counts, NEW t \in Worker \cup Peer, NEW x, Go(t, x)
  PROVE  /\ pc[t] \in Handling => Cardinality(Pausing(pc)) > 0
         /\ pc[t] \notin Handling /\ x \in Handling
              => Cardinality(Pausing(pc')) = Cardinality(Pausing(pc)) + 1
         /\ pc[t] \in Handling /\ x \notin Handling
              => Cardinality(Pausing(pc')) = Cardinality(Pausing(pc)) - 1
         /\ (pc[t] \in Handling <=> x \in Handling)
              => Cardinality(Pausing(pc')) = Cardinality(Pausing(pc))
<1>1. t \in Thread /\ \A u \in Thread : pc'[u] = IF u = t THEN x ELSE pc[u]
  BY DEF Go, Counts, Thread
<1>2. \A u : u # t => (u \in Pausing(pc) <=> u \in Pausing(pc'))
  BY <1>1 DEF Pausing, Thread
<1>3. /\ t \in Pausing(pc) <=> pc[t] \in Handling
      /\ t \in Pausing(pc') <=> x \in Handling
  BY <1>1 DEF Pausing
<1>4. IsFiniteSet(Pausing(pc))
  BY FiniteCounts
<1> QED BY ONLY Zenon, <1>2, <1>3, <1>4, MoveInto

(* A worker counts itself, or leaves.                                      *)
LEMMA WorkerCounted ==
  ASSUME Counts, NEW w \in Worker, NEW x, Go(w, x), m_pausers_count' = m_pausers_count,
         \/ /\ pc[w] \in Outer /\ x \in Inner
            /\ m_threads_active' = m_threads_active + 1
         \/ /\ pc[w] \in Inner /\ x \in Outer
            /\ m_threads_active' = m_threads_active - 1
  PROVE  Counts'
<1>1. w \in Thread /\ w \in Worker \cup Peer /\ x \in Labels
  BY Classes DEF Thread
<1>2. pc' \in [Thread -> Labels]
  BY <1>1 DEF Go, Counts
<1>3. pc[w] \notin Handling /\ x \notin Handling
  BY Classes
<1>4. Cardinality(Pausing(pc')) = Cardinality(Pausing(pc))
  BY Zenon, <1>1, <1>3, PauseMove
<1>5. m_threads_active' = Cardinality(Active(pc'))
  <2>1. CASE pc[w] \in Outer /\ x \in Inner
             /\ m_threads_active' = m_threads_active + 1
    <3>1. pc[w] \notin Counted /\ x \in Counted
      BY <2>1, Classes
    <3>2. Cardinality(Active(pc')) = Cardinality(Active(pc)) + 1
      BY Zenon, <1>1, <3>1, ActiveMove
    <3> QED BY <2>1, <3>2 DEF Counts
  <2>2. CASE pc[w] \in Inner /\ x \in Outer
             /\ m_threads_active' = m_threads_active - 1
    <3>1. pc[w] \in Counted /\ x \notin Counted
      BY <2>2, Classes
    <3>2. Cardinality(Active(pc')) = Cardinality(Active(pc)) - 1
      BY Zenon, <1>1, <3>1, ActiveMove
    <3> QED BY <2>2, <3>2 DEF Counts
  <2> QED BY <2>1, <2>2
<1> QED BY <1>2, <1>4, <1>5 DEF Counts

(* A thread pauses the spinner, or resumes it.                             *)
LEMMA PauseCounted ==
  ASSUME Counts, NEW t \in Worker \cup Peer, NEW x, Go(t, x),
         m_threads_active' = m_threads_active,
         NEW C \in {Inner, Outer}, t \in Worker => C = Inner,
         \/ pc[t] \in C /\ x \in Handling /\ m_pausers_count' = m_pausers_count + 1
         \/ pc[t] \in Handling /\ x \in C /\ m_pausers_count' = Resumed
  PROVE  Counts'
<1>1. t \in Thread /\ x \in Labels /\ C \cap Handling = {}
  BY Classes DEF Thread
<1>2. pc' \in [Thread -> Labels]
  BY <1>1 DEF Go, Counts
<1>3. t \notin Worker \/ (pc[t] \in Counted /\ x \in Counted)
  BY Classes
<1>4. Cardinality(Active(pc')) = Cardinality(Active(pc))
  BY Zenon, <1>1, <1>3, ActiveMove
<1>5. Cardinality(Pausing(pc)) \in Nat
  BY FiniteCounts
<1>6. m_pausers_count' = Cardinality(Pausing(pc'))
  <2>1. CASE pc[t] \in C /\ x \in Handling /\ m_pausers_count' = m_pausers_count + 1
    <3>1. pc[t] \notin Handling
      BY <1>1, <2>1
    <3>2. Cardinality(Pausing(pc')) = Cardinality(Pausing(pc)) + 1
      BY Zenon, <2>1, <3>1, PauseMove
    <3> QED BY <2>1, <3>2 DEF Counts
  <2>2. CASE pc[t] \in Handling /\ x \in C /\ m_pausers_count' = Resumed
    <3>1. x \notin Handling
      BY <1>1, <2>2
    <3>2. Cardinality(Pausing(pc')) = Cardinality(Pausing(pc)) - 1
          /\ Cardinality(Pausing(pc)) > 0
      BY Zenon, <2>2, <3>1, PauseMove
    <3> QED BY <1>5, <2>2, <3>2 DEF Counts, Resumed
  <2> QED BY <2>1, <2>2
<1> QED BY <1>2, <1>4, <1>6 DEF Counts
-----------------------------------------------------------------------------
(* A step within a class keeps the counts.                                 *)
LEMMA Moved ==
  ASSUME Counts, NEW t \in Thread, NEW C \in {Inner, Outer, Handling}, Within(t, C)
  PROVE  Counts'
<1>1. PICK x \in C : Go(t, x)
  BY DEF Within
<1>2. SameClass(pc[t], x)
  BY DEF Within, SameClass
<1> QED BY Zenon, <1>1, <1>2, MoveSame DEF Within

(* request_block_template outside the worker's critical section.           *)
LEMMA TemplateCounts ==
  ASSUME Counts, NEW t \in Thread, NEW C \in {Outer, Handling},
         NEW from \in C, NEW to \in C,
         GetTemplate(t, from, to) \/ SetTemplate(t, from, to)
  PROVE  Counts'
<1>1. Within(t, C)
  BY DEF Within, GetTemplate, SetTemplate, At
<1> QED BY <1>1, Moved

(* The steps of a worker keep the counts.                                  *)
LEMMA WorkerCounts ==
  ASSUME Counts, NEW w \in Worker, WorkerStep(w)
  PROVE  Counts'
<1> w \in Thread /\ w \in Worker \cup Peer
  BY DEF Thread
<1>1. CASE WorkerBegin(w)
  <2>1. CASE Late
    <3>1. Within(w, Outer)
      BY <1>1, <2>1 DEF WorkerBegin, Within, At, Outer
    <3> QED BY <3>1, Moved
  <2>2. CASE ~Late
    <3>1. /\ pc[w] \in Outer /\ "loop" \in Inner /\ Go(w, "loop")
          /\ m_threads_active' = m_threads_active + 1
          /\ m_pausers_count' = m_pausers_count
      BY <1>1, <2>2 DEF WorkerBegin, At, Outer, Inner
    <3> QED BY <3>1, WorkerCounted
  <2> QED BY <2>1, <2>2
<1>2. CASE WorkerCount(w)
  <2>1. /\ pc[w] \in Outer /\ "loop" \in Inner /\ Go(w, "loop")
        /\ m_threads_active' = m_threads_active + 1
        /\ m_pausers_count' = m_pausers_count
    BY <1>2 DEF WorkerCount, At, Outer, Inner
  <2> QED BY <2>1, WorkerCounted
<1>3. CASE WorkerLoop(w)
  <2>1. Within(w, Inner)
    BY <1>3 DEF WorkerLoop, Within, At, Inner
  <2> QED BY <2>1, Moved
<1>4. CASE WorkerWait(w)
  <2>1. Within(w, Inner)
    BY <1>4 DEF WorkerWait, Within, At, Inner
  <2> QED BY <2>1, Moved
<1>5. CASE WorkerWoken(w)
  <2>1. Within(w, Inner)
    BY <1>5 DEF WorkerWoken, Within, At, Inner
  <2> QED BY <2>1, Moved
<1>6. CASE WorkerData(w)
  <2>1. Within(w, Inner)
    BY <1>6 DEF WorkerData, Within, At, Inner
  <2> QED BY <2>1, Moved
<1>7. CASE WorkerRegion(w)
  <2>1. Within(w, Inner)
    BY <1>7 DEF WorkerRegion, Within, At, Inner
  <2> QED BY <2>1, Moved
<1>8. CASE WorkerBuild(w)
  <2>1. Within(w, Inner)
    BY <1>8 DEF WorkerBuild, Within, At, Inner
  <2> QED BY <2>1, Moved
<1>9. CASE WorkerFound(w)
  <2>1. /\ pc[w] \in Inner /\ "incoming" \in Handling /\ Go(w, "incoming")
        /\ m_pausers_count' = m_pausers_count + 1
        /\ m_threads_active' = m_threads_active
    BY <1>9 DEF WorkerFound, At, Inner, Handling
  <2> QED BY <2>1, PauseCounted
<1>10. CASE WorkerGone(w) \/ WorkerResume(w)
  <2>1. /\ pc[w] \in Handling /\ "loop" \in Inner /\ Go(w, "loop")
        /\ m_pausers_count' = Resumed
        /\ m_threads_active' = m_threads_active
    BY <1>10 DEF WorkerGone, WorkerResume, At, Inner, Handling
  <2> QED BY <2>1, PauseCounted
<1>11. CASE WorkerIncoming(w)
  <2>1. Within(w, Handling)
    BY <1>11 DEF WorkerIncoming, Within, At, Handling
  <2> QED BY <2>1, Moved
<1>12. CASE WorkerPrepare(w)
  <2>1. Within(w, Handling)
    BY <1>12 DEF WorkerPrepare, Within, At, Handling
  <2> QED BY <2>1, Moved
<1>13. CASE WorkerAdd(w)
  <2>1. Within(w, Handling)
    BY <1>13 DEF WorkerAdd, Within, At, Handling
  <2> QED BY <2>1, Moved
<1>14. CASE GetTemplate(w, "get", "set") \/ SetTemplate(w, "set", "resume")
  <2>1. "get" \in Handling /\ "set" \in Handling /\ "resume" \in Handling
    BY DEF Handling
  <2> QED BY <1>14, <2>1, TemplateCounts
<1>15. CASE WorkerLeave(w)
  <2>1. /\ pc[w] \in Inner /\ "left" \in Outer /\ Go(w, "left")
        /\ m_threads_active' = m_threads_active - 1
        /\ m_pausers_count' = m_pausers_count
    BY <1>15 DEF WorkerLeave, At, Outer, Inner
  <2> QED BY <2>1, WorkerCounted
<1>16. CASE WorkerLeft(w)
  <2>1. Within(w, Outer)
    BY <1>16 DEF WorkerLeft, Within, At, Outer
  <2> QED BY <2>1, Moved
<1> QED BY <1>1, <1>2, <1>3, <1>4, <1>5, <1>6, <1>7, <1>8, <1>9, <1>10, <1>11,
           <1>12, <1>13, <1>14, <1>15, <1>16 DEF WorkerStep

(* notify_all moves workers inside the loop only.                          *)
LEMMA NotifyCounts ==
  ASSUME Counts, pc' = Notify, UNCHANGED <<m_threads_active, m_pausers_count>>
  PROVE  Counts'
<1>1. \A t \in Thread : /\ pc[t] \in Labels
                        /\ pc'[t] = IF pc[t] = "wait" THEN "woken" ELSE pc[t]
  BY DEF Notify, Counts
<1>2. "wait" \in Inner /\ "woken" \in Inner
  BY DEF Inner
<1>3. \A t \in Thread : SameClass(pc[t], pc'[t])
  BY <1>1, <1>2, Classes DEF SameClass
<1>4. pc' \in [Thread -> Labels]
  BY <1>1, <1>2, Classes DEF Notify
<1> QED BY <1>3, <1>4, SameCounts

(* stop() keeps the counts.                                                *)
LEMMA StopCounts ==
  ASSUME Counts, NEW t \in Thread, StopStep(t)
  PROVE  Counts'
<1>1. CASE StopEnter(t)
  <2>1. Within(t, Outer)
    BY <1>1 DEF StopEnter, Within, At, Outer
  <2> QED BY <2>1, Moved
<1>2. CASE StopNotify(t)
  BY <1>2, NotifyCounts DEF StopNotify
<1>3. CASE StopInterrupt(t)
  <2>1. Within(t, Outer)
    BY <1>3 DEF StopInterrupt, Within, At, Outer
  <2> QED BY <2>1, Moved
<1>4. CASE StopJoin(t)
  <2>1. Within(t, Outer)
    BY <1>4 DEF StopJoin, Within, At, Outer
  <2> QED BY <2>1, Moved
<1> QED BY <1>1, <1>2, <1>3, <1>4 DEF StopStep

(* Two threads move outside the loop: a worker is spawned.                 *)
LEMMA SpawnCounts ==
  ASSUME Counts, NEW t \in Thread, NEW w \in Worker,
         pc[t] \in Outer, pc[w] \in Outer,
         pc' = [pc EXCEPT ![t] = "idle", ![w] = "new"],
         UNCHANGED <<m_threads_active, m_pausers_count>>
  PROVE  Counts'
<1>1. "idle" \in Outer /\ "new" \in Outer
  BY DEF Outer
<1>2. \A u \in Thread : /\ pc[u] \in Labels
                        /\ pc'[u] = pc[u] \/ (pc[u] \in Outer /\ pc'[u] \in Outer)
  BY <1>1 DEF Counts
<1>3. \A u \in Thread : SameClass(pc[u], pc'[u])
  BY Zenon, <1>2, Classes DEF SameClass
<1>4. pc' \in [Thread -> Labels]
  BY Zenon, <1>1, Classes DEF Counts
<1> QED BY <1>3, <1>4, SameCounts

(* start() and the calls of start and stop keep the counts.                *)
LEMMA ControllerCounts ==
  ASSUME Counts, NEW c \in Controller,
         CallStart(c) \/ CallStop(c) \/ ControllerStep(c)
  PROVE  Counts'
<1> c \in Thread
  BY DEF Thread
<1>1. CASE CallStart(c)
  <2>1. Within(c, Outer)
    BY <1>1 DEF CallStart, Within, At, Outer, Starting
  <2> QED BY <2>1, Moved
<1>2. CASE CallStop(c)
  <2>1. Within(c, Outer)
    BY <1>2 DEF CallStop, Within, At, Outer, Starting
  <2> QED BY <2>1, Moved
<1>3. CASE StartEnter(c)
  <2>1. Within(c, Outer)
    BY <1>3 DEF StartEnter, Within, At, Outer, Starting
  <2> QED BY <2>1, Moved
<1>4. CASE GetTemplate(c, "startget", "startset") \/ SetTemplate(c, "startset", "startspawn")
  <2>1. "startget" \in Outer /\ "startset" \in Outer /\ "startspawn" \in Outer
    BY DEF Outer, Starting
  <2> QED BY <1>4, <2>1, TemplateCounts
<1>5. CASE StartRefused(c)
  <2>1. Within(c, Outer)
    BY <1>5 DEF StartRefused, Within, At, Outer, Starting
  <2> QED BY <2>1, Moved
<1>6. CASE StartSpawn(c)
  <2>1. PICK w \in Worker : Unused(w) /\ pc' = [pc EXCEPT ![c] = "idle", ![w] = "new"]
    BY Zenon, <1>6 DEF StartSpawn
  <2>2. /\ pc[c] \in Outer /\ pc[w] \in Outer
        /\ UNCHANGED <<m_threads_active, m_pausers_count>>
    BY <1>6, <2>1 DEF StartSpawn, Unused, At, Outer, Starting
  <2> QED BY Zenon, <2>1, <2>2, SpawnCounts
<1> QED BY <1>1, <1>2, <1>3, <1>4, <1>5, <1>6 DEF ControllerStep

(* update_autodetection keeps the counts.                                  *)
LEMMA IdleCounts ==
  ASSUME Counts, NEW i \in Idle, Restart(i) \/ IdleStep(i)
  PROVE  Counts'
<1> i \in Thread
  BY DEF Thread
<1>1. CASE Restart(i)
  <2>1. Within(i, Outer)
    BY <1>1 DEF Restart, Within, At, Outer
  <2> QED BY <2>1, Moved
<1>2. CASE RestartStop(i)
  <2>1. Within(i, Outer)
    BY <1>2 DEF RestartStop, Within, At, Outer
  <2> QED BY <2>1, Moved
<1>3. CASE RestartClear(i)
  <2>1. Within(i, Outer)
    BY <1>3 DEF RestartClear, Within, At, Outer
  <2> QED BY <2>1, Moved
<1>4. CASE RestartReset(i)
  <2>1. Within(i, Outer)
    BY <1>4 DEF RestartReset, Within, At, Outer
  <2> QED BY <2>1, Moved
<1>5. CASE RestartSpawn(i)
  <2>1. PICK w \in Worker : Unused(w) /\ pc' = [pc EXCEPT ![i] = "idle", ![w] = "new"]
    BY Zenon, <1>5 DEF RestartSpawn
  <2>2. /\ pc[i] \in Outer /\ pc[w] \in Outer
        /\ UNCHANGED <<m_threads_active, m_pausers_count>>
    BY <1>5, <2>1 DEF RestartSpawn, Unused, At, Outer
  <2> QED BY Zenon, <2>1, <2>2, SpawnCounts
<1> QED BY <1>1, <1>2, <1>3, <1>4, <1>5 DEF IdleStep

(* handle_notify_new_block keeps the counts.                               *)
LEMMA PeerCounts ==
  ASSUME Counts, NEW p \in Peer, PeerPause(p) \/ PeerStep(p)
  PROVE  Counts'
<1> p \in Thread /\ p \in Worker \cup Peer /\ p \notin Worker
  BY ThreadAssumption DEF Thread
<1>1. CASE PeerPause(p)
  <2>1. /\ pc[p] \in Outer /\ "incoming" \in Handling /\ Go(p, "incoming")
        /\ m_pausers_count' = m_pausers_count + 1
        /\ m_threads_active' = m_threads_active
    BY <1>1 DEF PeerPause, At, Outer, Handling
  <2> QED BY <2>1, PauseCounted
<1>2. CASE PeerIncoming(p)
  <2>1. Within(p, Handling)
    BY <1>2 DEF PeerIncoming, Within, At, Handling
  <2> QED BY <2>1, Moved
<1>3. CASE PeerPrepare(p)
  <2>1. Within(p, Handling)
    BY <1>3 DEF PeerPrepare, Within, At, Handling
  <2> QED BY <2>1, Moved
<1>4. CASE PeerAdd(p)
  <2>1. Within(p, Handling)
    BY <1>4 DEF PeerAdd, Within, At, Handling
  <2> QED BY <2>1, Moved
<1>5. CASE GetTemplate(p, "get", "set") \/ SetTemplate(p, "set", "cleanup")
  <2>1. "get" \in Handling /\ "set" \in Handling /\ "cleanup" \in Handling
    BY DEF Handling
  <2> QED BY <1>5, <2>1, TemplateCounts
<1>6. CASE PeerCleanup(p)
  <2>1. /\ pc[p] \in Handling /\ "idle" \in Outer /\ Go(p, "idle")
        /\ m_pausers_count' = Resumed
        /\ m_threads_active' = m_threads_active
    BY <1>6 DEF PeerCleanup, At, Outer, Handling
  <2> QED BY <2>1, PauseCounted
<1> QED BY <1>1, <1>2, <1>3, <1>4, <1>5, <1>6 DEF PeerStep

(* Every step keeps the counts.                                            *)
LEMMA CountStep ==
  ASSUME Counts, [Next]_vars
  PROVE  Counts'
<1>1. CASE UNCHANGED vars
  BY <1>1 DEF vars, Counts, Active, Pausing
<1>2. CASE \E w \in Worker : WorkerStep(w) \/ StopStep(w)
  BY <1>2, WorkerCounts, StopCounts DEF Thread
<1>3. CASE \E c \in Controller :
             CallStart(c) \/ CallStop(c) \/ ControllerStep(c) \/ StopStep(c)
  BY <1>3, ControllerCounts, StopCounts DEF Thread
<1>4. CASE \E i \in Idle : Restart(i) \/ IdleStep(i)
  BY <1>4, IdleCounts
<1>5. CASE \E p \in Peer : PeerPause(p) \/ PeerStep(p)
  BY <1>5, PeerCounts
<1>6. CASE BackgroundStep
  <2>1. UNCHANGED <<m_threads_active, m_pausers_count>> /\ (pc' = pc \/ pc' = Notify)
    BY <1>6 DEF BackgroundStep, BackgroundBegin, BackgroundLoop, BackgroundWake
  <2>2. CASE pc' = pc
    BY <2>1, <2>2 DEF Counts, Active, Pausing
  <2>3. CASE pc' = Notify
    BY <2>1, <2>3, NotifyCounts
  <2> QED BY <2>1, <2>2, <2>3
<1> QED BY <1>1, <1>2, <1>3, <1>4, <1>5, <1>6 DEF Next
-----------------------------------------------------------------------------
(* The types of the other variables.                                       *)
FlagType ==
  /\ m_stop \in BOOLEAN /\ m_threads \in SUBSET Worker
  /\ autodetect \in BOOLEAN /\ bgEnabled \in BOOLEAN
  /\ bgStarted \in BOOLEAN /\ bgThread \in {"none", "new", "loop", "sleep"}
LockType == lock \in [Locks -> Thread \cup {NoThread}]

(* Taking and giving back a lock keep the type of lock.                    *)
LEMMA LockStep ==
  ASSUME LockType, NEW t \in Thread,
         \/ UNCHANGED lock
         \/ \E l \in Locks : Take(t, l)
         \/ \E S \in SUBSET Locks : Give(S)
  PROVE  LockType'
<1>1. CASE UNCHANGED lock
  BY <1>1 DEF LockType
<1>2. CASE \E l \in Locks : Take(t, l)
  BY <1>2 DEF LockType, Take
<1>3. CASE \E S \in SUBSET Locks : Give(S)
  BY <1>3 DEF LockType, Give
<1> QED BY <1>1, <1>2, <1>3

(* The steps of worker_thread.                                             *)
LEMMA WorkerType ==
  ASSUME FlagType, LockType, NEW w \in Worker, WorkerStep(w)
  PROVE  FlagType' /\ LockType'
<1>1. \/ UNCHANGED lock
      \/ Take(w, "template") \/ Take(w, "incoming") \/ Take(w, "pool")
      \/ Give({"template"}) \/ Give({"incoming", "pool"})
  BY DEF WorkerStep, WorkerBegin, WorkerCount, WorkerLoop, WorkerWait, WorkerWoken,
         WorkerData, WorkerRegion, WorkerBuild, WorkerFound, WorkerGone, WorkerIncoming,
         WorkerPrepare, WorkerAdd, GetTemplate, SetTemplate, WorkerResume, WorkerLeave,
         WorkerLeft
<1>2. LockType'
  BY <1>1, LockStep DEF Thread, Locks
<1>3. UNCHANGED <<m_threads, flags>> /\ (UNCHANGED m_stop \/ m_stop' = TRUE)
  BY DEF WorkerStep, WorkerBegin, WorkerCount, WorkerLoop, WorkerWait, WorkerWoken,
         WorkerData, WorkerRegion, WorkerBuild, WorkerFound, WorkerGone, WorkerIncoming,
         WorkerPrepare, WorkerAdd, GetTemplate, SetTemplate, WorkerResume, WorkerLeave,
         WorkerLeft
<1> QED BY Zenon, <1>2, <1>3 DEF FlagType, flags

(* The steps of stop().                                                    *)
LEMMA StopType ==
  ASSUME FlagType, LockType, NEW t \in Thread, StopStep(t)
  PROVE  FlagType' /\ LockType'
<1>1. UNCHANGED lock \/ Take(t, "threads") \/ Give({"threads"})
  BY DEF StopStep, StopEnter, StopNotify, StopInterrupt, StopJoin
<1>2. LockType'
  BY <1>1, LockStep DEF Locks
<1>3. FlagType'
  BY Zenon DEF FlagType, flags, StopStep, StopEnter, StopNotify, StopInterrupt, StopJoin
<1> QED BY <1>2, <1>3

(* The steps of start() and the calls.                                     *)
LEMMA ControllerType ==
  ASSUME FlagType, LockType, NEW c \in Controller,
         CallStart(c) \/ CallStop(c) \/ ControllerStep(c)
  PROVE  FlagType' /\ LockType'
<1>1. UNCHANGED lock \/ Take(c, "threads") \/ Give({"threads"})
  BY Zenon DEF CallStart, CallStop, ControllerStep, StartEnter, GetTemplate, SetTemplate,
         StartRefused, StartSpawn
<1>2. LockType'
  BY <1>1, LockStep DEF Thread, Locks
<1>3. FlagType'
  BY Zenon, ThreadAssumption DEF FlagType, flags, CallStart, CallStop, ControllerStep,
     StartEnter, GetTemplate, SetTemplate, StartRefused, StartSpawn
<1> QED BY <1>2, <1>3

(* The steps of update_autodetection.                                      *)
LEMMA IdleType ==
  ASSUME FlagType, LockType, NEW i \in Idle, Restart(i) \/ IdleStep(i)
  PROVE  FlagType' /\ LockType'
<1>1. UNCHANGED lock \/ Take(i, "threads") \/ Give({"threads"})
  BY DEF Restart, IdleStep, RestartStop, RestartClear, RestartReset, RestartSpawn
<1>2. LockType'
  BY <1>1, LockStep DEF Thread, Locks
<1>3. FlagType'
  BY Zenon DEF FlagType, flags, Restart, IdleStep, RestartStop, RestartClear, RestartReset,
         RestartSpawn
<1> QED BY <1>2, <1>3

(* The steps of handle_notify_new_block.                                   *)
LEMMA PeerType ==
  ASSUME FlagType, LockType, NEW p \in Peer, PeerPause(p) \/ PeerStep(p)
  PROVE  FlagType' /\ LockType'
<1>1. /\ \/ UNCHANGED lock \/ Take(p, "incoming") \/ Take(p, "pool")
         \/ Give({"incoming", "pool"})
      /\ UNCHANGED <<m_stop, m_threads, flags>>
  BY DEF PeerPause, PeerStep, PeerIncoming, PeerPrepare, PeerAdd, GetTemplate,
         SetTemplate, PeerCleanup
<1>2. LockType'
  BY <1>1, LockStep DEF Thread, Locks
<1> QED BY <1>1, <1>2 DEF FlagType, flags

(* Every step keeps the types.                                             *)
LEMMA RestStep ==
  ASSUME FlagType, LockType, [Next]_vars
  PROVE  FlagType' /\ LockType'
<1>1. CASE UNCHANGED vars
  BY <1>1 DEF vars, flags, FlagType, LockType
<1>2. CASE \E w \in Worker : WorkerStep(w) \/ StopStep(w)
  BY <1>2, WorkerType, StopType DEF Thread
<1>3. CASE \E c \in Controller :
             CallStart(c) \/ CallStop(c) \/ ControllerStep(c) \/ StopStep(c)
  BY <1>3, ControllerType, StopType DEF Thread
<1>4. CASE \E i \in Idle : Restart(i) \/ IdleStep(i)
  BY <1>4, IdleType
<1>5. CASE \E p \in Peer : PeerPause(p) \/ PeerStep(p)
  BY <1>5, PeerType
<1>6. CASE BackgroundStep
  BY Zenon, <1>6 DEF FlagType, LockType, BackgroundStep, BackgroundBegin, BackgroundLoop,
              BackgroundWake
<1> QED BY <1>1, <1>2, <1>3, <1>4, <1>5, <1>6 DEF Next
-----------------------------------------------------------------------------
(* The inductive invariant of the counters.                                *)
CInv == Counts /\ FlagType /\ LockType

(* CInv is an invariant.                                                   *)
THEOREM CountInvariance == Spec => []CInv
<1>1. Init => CInv
  <2> SUFFICES ASSUME Init PROVE CInv
    OBVIOUS
  <2>1. "idle" \in Outer
    BY DEF Outer
  <2>2. Active(pc) = {} /\ Pausing(pc) = {}
    BY <2>1, Classes DEF Init, Active, Pausing, Thread
  <2>3. pc \in [Thread -> Labels]
    BY <2>1, Classes DEF Init
  <2>4. Counts
    BY <2>2, <2>3, FS_EmptySet DEF Init, Counts
  <2>5. FlagType /\ LockType
    BY Zenon DEF Init, FlagType, LockType
  <2> QED BY <2>4, <2>5 DEF CInv
<1>2. CInv /\ [Next]_vars => CInv'
  BY CountStep, RestStep DEF CInv
<1> QED BY <1>1, <1>2, PTL DEF Spec

(* Every variable keeps its type; neither counter becomes negative.        *)
THEOREM SpinnerTypeCorrect == Spec => []TypeOK
<1>1. CInv => TypeOK
  BY FiniteCounts DEF CInv, Counts, FlagType, LockType, TypeOK
<1> QED BY <1>1, CountInvariance, PTL

(* m_threads_active is the number of workers between its increment and its *)
(* decrement in worker_thread, for any number of threads and any           *)
(* interleaving of start, stop, restart and incoming blocks.               *)
THEOREM ActiveAlwaysExact == Spec => []ActiveExact
<1>1. CInv => ActiveExact
  BY DEF CInv, Counts, ActiveExact, Active, Counted
<1> QED BY <1>1, CountInvariance, PTL

(* m_pausers_count is the number of threads that handle a block.           *)
THEOREM PausesAlwaysBalanced == Spec => []PausesBalanced
<1>1. CInv => PausesBalanced
  BY DEF CInv, Counts, PausesBalanced, Pausing
<1> QED BY <1>1, CountInvariance, PTL
-----------------------------------------------------------------------------
(* A stopped spinner is quiet, when nothing restarts it.  What makes this  *)
(* inductive: stop() between its two waits and start() hold                *)
(* m_threads_lock, start() found the spinner stopped and empty, and a      *)
(* started spinner has a thread.                                           *)
Stopping == {"stopping", "join"}
Holding == {"startget", "startset", "startspawn"}

QInv ==
  /\ m_stop /\ (m_threads = {} \/ \E t \in Thread : pc[t] = "join")
       => \A w \in Worker : pc[w] \notin Body
  /\ \A t \in Thread : pc[t] \in Stopping => m_stop /\ lock["threads"] = t
  /\ \A t \in Thread : pc[t] \in Holding
       => m_stop /\ m_threads = {} /\ lock["threads"] = t
  /\ ~m_stop => m_threads # {}

(* A step that neither stops nor starts: no worker enters the body of the  *)
(* loop unless the spinner is started.                                     *)
Plain ==
  /\ UNCHANGED <<m_stop, m_threads>> /\ lock'["threads"] = lock["threads"]
  /\ \A u \in Thread :
       /\ pc'[u] \in Stopping => pc'[u] = pc[u]
       /\ pc'[u] \in Holding => pc[u] \in Holding
       /\ u \in Worker /\ pc'[u] \in Body => pc[u] \in Body \/ ~m_stop

(* A plain step keeps QInv.                                                *)
LEMMA PlainStep ==
  ASSUME QInv, Plain
  PROVE  QInv'
<1>1. ASSUME m_stop', m_threads' = {} \/ \E t \in Thread : pc'[t] = "join",
             NEW w \in Worker
      PROVE  pc'[w] \notin Body
  <2>1. m_stop /\ (m_threads = {} \/ \E t \in Thread : pc[t] = "join")
    BY <1>1 DEF Plain, Stopping
  <2> QED BY <2>1 DEF Plain, QInv, Thread
<1>2. ASSUME NEW t \in Thread, pc'[t] \in Stopping
      PROVE  m_stop' /\ lock'["threads"] = t
  BY <1>2 DEF Plain, QInv
<1>3. ASSUME NEW t \in Thread, pc'[t] \in Holding
      PROVE  m_stop' /\ m_threads' = {} /\ lock'["threads"] = t
  BY <1>3 DEF Plain, QInv
<1>4. ~m_stop' => m_threads' # {}
  BY DEF Plain, QInv
<1> QED BY <1>1, <1>2, <1>3, <1>4 DEF QInv

(* One thread moves, and the step is plain.                                *)
PlainMove(t, x) ==
  /\ Go(t, x)
  /\ UNCHANGED <<m_stop, m_threads>> /\ lock'["threads"] = lock["threads"]
  /\ x \notin Stopping /\ (x \in Holding => pc[t] \in Holding)
  /\ t \in Worker /\ x \in Body => pc[t] \in Body \/ ~m_stop

(* The move of one thread that neither stops nor starts.                   *)
LEMMA MovePlain ==
  ASSUME QInv, pc \in [Thread -> Labels], NEW t \in Thread, NEW x, PlainMove(t, x)
  PROVE  QInv'
<1>1. \A u \in Thread : pc'[u] = IF u = t THEN x ELSE pc[u]
  BY DEF PlainMove, Go
<1>2. Plain
  BY <1>1 DEF Plain, PlainMove
<1> QED BY <1>2, PlainStep

(* The locks other than m_threads_lock do not matter.                      *)
LEMMA OtherLocks ==
  ASSUME LockType, NEW t,
         \/ UNCHANGED lock
         \/ Take(t, "template") \/ Take(t, "incoming") \/ Take(t, "pool")
         \/ Give({"template"}) \/ Give({"incoming", "pool"})
  PROVE  lock'["threads"] = lock["threads"]
BY DEF LockType, Take, Give, Locks

(* worker_thread keeps QInv.                                               *)
LEMMA WorkerQuiet ==
  ASSUME CInv, QInv, NEW w \in Worker, WorkerStep(w)
  PROVE  QInv'
<1> USE DEF CInv
<1> w \in Thread /\ pc \in [Thread -> Labels]
  BY DEF Thread, Counts
<1>1. lock'["threads"] = lock["threads"]
  <2>1. \/ UNCHANGED lock
        \/ Take(w, "template") \/ Take(w, "incoming") \/ Take(w, "pool")
        \/ Give({"template"}) \/ Give({"incoming", "pool"})
    BY Zenon DEF WorkerStep, WorkerBegin, WorkerCount, WorkerLoop, WorkerWait, WorkerWoken,
           WorkerData, WorkerRegion, WorkerBuild, WorkerFound, WorkerGone,
           WorkerIncoming, WorkerPrepare, WorkerAdd, GetTemplate, SetTemplate,
           WorkerResume, WorkerLeave, WorkerLeft
  <2> QED BY <2>1, OtherLocks
<1>2. CASE WorkerBegin(w) \/ WorkerCount(w)
  <2>1. \E x \in {"data", "loop"} : Go(w, x) /\ UNCHANGED <<m_stop, m_threads>>
    BY <1>2 DEF WorkerBegin, WorkerCount
  <2>2. \E x : PlainMove(w, x)
    BY Zenon, <1>1, <2>1 DEF PlainMove, Stopping, Holding, Body, Handling
  <2> QED BY <2>2, MovePlain
<1>3. CASE WorkerLoop(w)
  <2>1. \E x \in {"leave", "see", "work"} :
          Go(w, x) /\ (x # "leave" => ~m_stop) /\ UNCHANGED <<m_stop, m_threads>>
    BY <1>3 DEF WorkerLoop
  <2>2. \E x : PlainMove(w, x)
    BY <1>1, <2>1 DEF PlainMove, Stopping, Holding, Body, Handling
  <2> QED BY <2>2, MovePlain
<1>4. CASE WorkerData(w) /\ m_stop' # m_stop
  <2>1. /\ ~m_stop /\ m_stop' = TRUE /\ UNCHANGED m_threads
        /\ Go(w, "region") /\ pc[w] = "work"
    BY Zenon, <1>4 DEF WorkerData, At, FlagType
  <2>2. \A u \in Thread : pc[u] \notin Stopping \cup Holding
    BY <2>1 DEF QInv
  <2>3. \A u \in Thread : pc'[u] \notin Stopping \cup Holding
    BY <2>1, <2>2 DEF Go, Stopping, Holding
  <2>4. m_threads' # {}
    BY <2>1 DEF QInv
  <2> QED BY <2>1, <2>3, <2>4 DEF QInv, Stopping
<1>5. CASE /\ WorkerData(w) \/ WorkerWait(w) \/ WorkerWoken(w) \/ WorkerRegion(w)
              \/ WorkerBuild(w) \/ WorkerFound(w) \/ WorkerGone(w) \/ WorkerIncoming(w)
              \/ WorkerPrepare(w) \/ WorkerAdd(w) \/ WorkerResume(w)
              \/ GetTemplate(w, "get", "set") \/ SetTemplate(w, "set", "resume")
           /\ m_stop' = m_stop
  <2>1. /\ pc[w] \in Body /\ \E x \in Body \cup {"loop"} : Go(w, x)
        /\ UNCHANGED m_threads
    BY Zenon, <1>5 DEF WorkerData, WorkerWait, WorkerWoken, WorkerRegion, WorkerBuild,
                WorkerFound, WorkerGone, WorkerIncoming, WorkerPrepare, WorkerAdd,
                WorkerResume, GetTemplate, SetTemplate, At, Body, Handling
  <2>2. \E x : PlainMove(w, x)
    BY Zenon, <1>1, <1>5, <2>1 DEF PlainMove, Stopping, Holding, Body, Handling
  <2> QED BY <2>2, MovePlain
<1>6. CASE WorkerLeave(w) \/ WorkerLeft(w)
  <2>1. \E x \in {"left", "stop", "idle"} : Go(w, x) /\ UNCHANGED <<m_stop, m_threads>>
    BY <1>6 DEF WorkerLeave, WorkerLeft
  <2>2. \E x : PlainMove(w, x)
    BY <1>1, <2>1 DEF PlainMove, Stopping, Holding, Body, Handling
  <2> QED BY <2>2, MovePlain
<1>7. WorkerData(w) \/ m_stop' = m_stop
  BY Zenon DEF WorkerStep, WorkerBegin, WorkerCount, WorkerLoop, WorkerWait, WorkerWoken,
         WorkerRegion, WorkerBuild, WorkerFound, WorkerGone,
         WorkerIncoming, WorkerPrepare, WorkerAdd, GetTemplate, SetTemplate,
         WorkerResume, WorkerLeave, WorkerLeft
<1> QED BY <1>2, <1>3, <1>4, <1>5, <1>6, <1>7 DEF WorkerStep

(* notify_all keeps QInv.                                                  *)
LEMMA NotifyQuiet ==
  ASSUME QInv, pc \in [Thread -> Labels], pc' = Notify, UNCHANGED <<lock, m_stop, m_threads>>
  PROVE  QInv'
<1>1. \A u \in Thread : pc'[u] = IF pc[u] = "wait" THEN "woken" ELSE pc[u]
  BY DEF Notify
<1>2. Plain
  BY <1>1 DEF Plain, Stopping, Holding, Body
<1> QED BY <1>2, PlainStep

(* stop() keeps QInv: it gets past its wait when no worker is counted, so  *)
(* when none is in the body of the loop.                                   *)
LEMMA StopQuiet ==
  ASSUME CInv, QInv, NEW t \in Thread, StopStep(t)
  PROVE  QInv'
<1> USE DEF CInv
<1>0. /\ pc \in [Thread -> Labels] /\ lock \in [Locks -> Thread \cup {NoThread}]
      /\ "threads" \in Locks /\ NoThread \notin Thread
  BY ThreadAssumption DEF Counts, LockType, Locks
<1>1. CASE StopEnter(t) /\ m_threads = {}
  <2>1. PlainMove(t, "idle")
    BY <1>1 DEF StopEnter, PlainMove, Stopping, Holding, Body, Handling
  <2> QED BY <1>0, <2>1, MovePlain
<1>2. CASE StopEnter(t) /\ m_threads # {}
  <2>1. /\ lock["threads"] = NoThread /\ lock' = [lock EXCEPT !["threads"] = t]
        /\ m_stop' = TRUE /\ UNCHANGED m_threads
        /\ pc' = [pc EXCEPT ![t] = "stopping"]
    BY <1>2 DEF StopEnter, Take, Go
  <2>2. \A u \in Thread : pc[u] \notin Stopping \cup Holding
    BY <1>0, <2>1 DEF QInv
  <2>3. \A u \in Thread : pc'[u] = IF u = t THEN "stopping" ELSE pc[u]
    BY <1>0, <2>1
  <2>4. /\ \A u \in Thread : pc'[u] \notin Holding /\ pc'[u] # "join"
        /\ \A u \in Thread : pc'[u] \in Stopping => u = t
    BY <2>2, <2>3 DEF Stopping, Holding
  <2>5. lock'["threads"] = t
    BY <1>0, <2>1
  <2> QED BY <1>2, <2>1, <2>4, <2>5 DEF QInv
<1>3. CASE StopNotify(t)
  BY <1>0, <1>3, NotifyQuiet DEF StopNotify
<1>4. CASE StopInterrupt(t)
  <2>1. Active(pc) = {}
    <3>1. Cardinality(Active(pc)) = 0
      BY <1>4 DEF StopInterrupt, Counts
    <3> QED BY <3>1, FiniteCounts, FS_EmptySet
  <2>2. \A w \in Worker : pc[w] \notin Body
    BY <2>1 DEF Active, Counted
  <2>3. /\ pc[t] = "stopping" /\ UNCHANGED <<lock, m_stop, m_threads>>
        /\ \A u \in Thread : pc'[u] = IF u = t THEN "join" ELSE pc[u]
    BY <1>0, <1>4 DEF StopInterrupt, At, Go
  <2>4. \A w \in Worker : pc'[w] \notin Body
    BY <2>2, <2>3 DEF Thread, Body, Handling
  <2> QED BY <2>3, <2>4 DEF QInv, Stopping, Holding
<1>5. CASE StopJoin(t)
  <2>1. /\ pc[t] = "join" /\ m_threads' = {} /\ UNCHANGED m_stop
        /\ \A u \in Thread : pc'[u] = IF u = t THEN "idle" ELSE pc[u]
    BY <1>0, <1>5 DEF StopJoin, At, Go
  <2>2. m_stop /\ lock["threads"] = t /\ \A w \in Worker : pc[w] \notin Body
    BY <2>1 DEF QInv, Stopping
  <2>3. \A u \in Thread : pc'[u] \notin Stopping \cup Holding
    BY <2>1, <2>2 DEF QInv, Stopping, Holding
  <2>4. \A w \in Worker : pc'[w] \notin Body
    BY <2>1, <2>2 DEF Thread, Body, Handling
  <2> QED BY <2>1, <2>2, <2>3, <2>4 DEF QInv
<1> QED BY <1>1, <1>2, <1>3, <1>4, <1>5 DEF StopStep

(* start() keeps QInv.                                                     *)
LEMMA ControllerQuiet ==
  ASSUME CInv, QInv, NEW c \in Controller,
         CallStart(c) \/ CallStop(c) \/ ControllerStep(c)
  PROVE  QInv'
<1> USE DEF CInv
<1>0. /\ pc \in [Thread -> Labels] /\ lock \in [Locks -> Thread \cup {NoThread}]
      /\ "threads" \in Locks /\ NoThread \notin Thread
      /\ c \in Thread /\ c \notin Worker
  BY ThreadAssumption DEF Counts, LockType, Locks, Thread
<1>1. CASE CallStart(c) \/ CallStop(c)
  <2>1. PlainMove(c, "start") \/ PlainMove(c, "stop")
    BY <1>1 DEF CallStart, CallStop, PlainMove, Stopping, Holding, Body, Handling
  <2> QED BY <1>0, <2>1, MovePlain
<1>2. CASE StartEnter(c) /\ (~m_stop \/ m_threads # {})
  <2>1. PlainMove(c, "idle")
    BY <1>2 DEF StartEnter, PlainMove, Stopping, Holding, Body, Handling
  <2> QED BY <1>0, <2>1, MovePlain
<1>3. CASE StartEnter(c) /\ m_stop /\ m_threads = {}
  <2>1. /\ lock["threads"] = NoThread /\ lock' = [lock EXCEPT !["threads"] = c]
        /\ UNCHANGED <<m_stop, m_threads>>
        /\ pc' = [pc EXCEPT ![c] = "startget"]
    BY <1>3 DEF StartEnter, Take, Go
  <2>2. \A u \in Thread : pc[u] \notin Stopping \cup Holding
    BY <1>0, <2>1 DEF QInv
  <2>3. \A u \in Thread : pc'[u] = IF u = c THEN "startget" ELSE pc[u]
    BY <1>0, <2>1
  <2>4. \A u \in Thread : /\ pc'[u] \notin Stopping
                          /\ pc'[u] \in Holding => u = c
    BY <2>2, <2>3 DEF Stopping, Holding
  <2>5. lock'["threads"] = c
    BY <1>0, <2>1
  <2>6. \A w \in Worker : pc'[w] \notin Body
    BY <1>0, <1>3, <2>3 DEF QInv, Thread
  <2> QED BY <1>3, <2>1, <2>4, <2>5, <2>6 DEF QInv
<1>4. CASE GetTemplate(c, "startget", "startset") \/ SetTemplate(c, "startset", "startspawn")
  <2>1. PlainMove(c, "startset") \/ PlainMove(c, "startspawn")
    BY <1>0, <1>4 DEF GetTemplate, SetTemplate, At, PlainMove, Stopping, Holding
  <2> QED BY <1>0, <2>1, MovePlain
<1>5. CASE StartRefused(c)
  <2>1. /\ pc[c] = "startspawn" /\ UNCHANGED <<m_stop, m_threads>>
        /\ \A u \in Thread : pc'[u] = IF u = c THEN "idle" ELSE pc[u]
    BY <1>0, <1>5 DEF StartRefused, At, Go
  <2>2. m_stop /\ m_threads = {} /\ lock["threads"] = c
    BY <1>0, <2>1 DEF QInv, Holding
  <2>3. \A u \in Thread : pc'[u] \notin Stopping \cup Holding
    BY <2>1, <2>2 DEF QInv, Stopping, Holding
  <2>4. \A w \in Worker : pc'[w] \notin Body
    BY <1>0, <2>1, <2>2 DEF QInv, Thread
  <2> QED BY <2>1, <2>2, <2>3, <2>4 DEF QInv
<1>6. CASE StartSpawn(c)
  <2>1. PICK w \in Worker : /\ pc' = [pc EXCEPT ![c] = "idle", ![w] = "new"]
                            /\ m_threads' = {w} /\ m_stop' = FALSE
    BY Zenon, <1>6 DEF StartSpawn
  <2>2. pc[c] = "startspawn"
    BY <1>6 DEF StartSpawn, At
  <2>3. \A u \in Thread :
          pc'[u] = IF u = w THEN "new" ELSE IF u = c THEN "idle" ELSE pc[u]
    BY <1>0, <2>1 DEF Thread
  <2>4. lock["threads"] = c
    BY <1>0, <2>2 DEF QInv, Holding
  <2>5. \A u \in Thread : pc'[u] \notin Stopping \cup Holding
    BY <2>3, <2>4 DEF QInv, Stopping, Holding
  <2> QED BY Zenon, <2>1, <2>5 DEF QInv
<1> QED BY <1>1, <1>2, <1>3, <1>4, <1>5, <1>6 DEF ControllerStep

(* handle_notify_new_block keeps QInv.                                     *)
LEMMA PeerQuiet ==
  ASSUME CInv, QInv, NEW p \in Peer, PeerPause(p) \/ PeerStep(p)
  PROVE  QInv'
<1> USE DEF CInv
<1>0. pc \in [Thread -> Labels] /\ p \in Thread /\ p \notin Worker
  BY ThreadAssumption DEF Counts, Thread
<1>1. /\ \/ UNCHANGED lock \/ Take(p, "incoming") \/ Take(p, "pool")
         \/ Give({"incoming", "pool"})
      /\ UNCHANGED <<m_stop, m_threads>>
      /\ \E x \in Handling \cup {"idle"} : Go(p, x)
  BY DEF PeerPause, PeerStep, PeerIncoming, PeerPrepare, PeerAdd, GetTemplate,
         SetTemplate, PeerCleanup, Handling
<1>2. lock'["threads"] = lock["threads"]
  BY <1>1, OtherLocks
<1>3. \E x : PlainMove(p, x)
  BY <1>0, <1>1, <1>2 DEF PlainMove, Stopping, Holding, Handling
<1> QED BY <1>0, <1>3, MovePlain

(* Without update_autodetection every step keeps QInv.                     *)
LEMMA QuietStep ==
  ASSUME Idle = {}, CInv, QInv, [Next]_vars
  PROVE  QInv'
<1>1. CASE UNCHANGED vars
  BY <1>1 DEF vars, QInv
<1>2. CASE \E w \in Worker : WorkerStep(w) \/ StopStep(w)
  BY <1>2, WorkerQuiet, StopQuiet DEF Thread
<1>3. CASE \E c \in Controller :
             CallStart(c) \/ CallStop(c) \/ ControllerStep(c) \/ StopStep(c)
  BY <1>3, ControllerQuiet, StopQuiet DEF Thread
<1>4. CASE \E p \in Peer : PeerPause(p) \/ PeerStep(p)
  BY <1>4, PeerQuiet
<1>5. CASE BackgroundStep
  <2>1. UNCHANGED <<lock, m_stop, m_threads>> /\ (pc' = pc \/ pc' = Notify)
    BY <1>5 DEF BackgroundStep, BackgroundBegin, BackgroundLoop, BackgroundWake
  <2>2. CASE pc' = pc
    BY <2>1, <2>2 DEF QInv
  <2>3. CASE pc' = Notify
    BY <2>1, <2>3, NotifyQuiet DEF CInv, Counts
  <2> QED BY <2>1, <2>2, <2>3
<1> QED BY <1>1, <1>2, <1>3, <1>4, <1>5 DEF Next

(* When update_autodetection does not run (Idle is empty: start() is never *)
(* called with threads_count = 0), stop() leaves no worker inside the      *)
(* loop, for any number of workers, controllers and peers.                 *)
THEOREM StoppedAlwaysQuiet ==
  ASSUME Idle = {}
  PROVE  Spec => []StoppedIsQuiet
<1>1. Init => QInv
  BY DEF Init, QInv, Stopping, Holding, Body, Handling, Thread
<1>2. CInv /\ QInv /\ [Next]_vars => QInv'
  BY QuietStep
<1>3. QInv => StoppedIsQuiet
  BY DEF QInv, StoppedIsQuiet
<1> QED BY <1>1, <1>2, <1>3, CountInvariance, PTL DEF Spec
=============================================================================
