---------------------------- MODULE SchedProofs ----------------------------
(***************************************************************************)
(* Sched keeps its invariants for every queue size, slice length and       *)
(* number of pids.                                                         *)
(***************************************************************************)
EXTENDS Sched, FiniteSetTheorems, TLAPS

(***************************************************************************)
(* What every call of sched_schedule does, whichever interrupt or system   *)
(* call it comes from: it ends, it leaves a thread of the queue running    *)
(* with a slice that is not used up, and it marks that thread alone as     *)
(* running.                                                                *)
(***************************************************************************)
Dispatched(st) ==
    /\ halted' = "no"
    /\ sched_next' \in 0 .. THREAD_QUEUE_SIZE
    /\ current' = current \/ \E i \in Slots : thread_queue[i] = current'
    /\ current' \in Pids
    /\ state' \in [Pids -> THREAD_NULL .. THREAD_REMOVED]
    /\ time_used' \in [Pids -> 0 .. MAX_PROC_TIME + 1]
    /\ time_used'[current'] <= MAX_PROC_TIME
    /\ \A p \in Pids : state'[p] = THREAD_RUNNING => p = current'
    /\ current' # IDLE /\ can_schedule => state'[current'] = THREAD_RUNNING
    /\ \A p \in Pids : state'[p] = THREAD_ZOMBIE => st[p] = THREAD_ZOMBIE
    /\ \A p \in Pids : state'[p] # THREAD_NULL =>
          st[p] # THREAD_NULL \/ p = current \/ Queued(p)
    /\ ~can_schedule => current' = current

(***************************************************************************)
(* The threads that sched_schedule may be called with: those of the state, *)
(* the current one being marked a zombie when it is a worker that exits.   *)
(***************************************************************************)
CalledWith(st, tu) ==
    /\ st \in [Pids -> THREAD_NULL .. THREAD_REMOVED]
    /\ tu \in [Pids -> 0 .. MAX_PROC_TIME + 1]
    /\ tu[current] <= MAX_PROC_TIME
    /\ \/ st = state
       \/ /\ current \notin {IDLE, INIT}
          /\ st = [state EXCEPT ![current] = THREAD_ZOMBIE]

(* idle and init are among the pids of the model. *)
LEMMA IdlePid == IDLE \in Pids /\ INIT \in Pids /\ IDLE # INIT
BY SchedAssumption DEF IDLE, INIT, Pids

(***************************************************************************)
(* The loop of sched_select ends: idle's slot is acceptable while it is    *)
(* alone, and init's slot is from then on.                                 *)
(***************************************************************************)
LEMMA SelectEnds ==
    ASSUME IInv, current # None,
           NEW STATE st, st \in [Pids -> THREAD_NULL .. THREAD_REMOVED],
           st[IDLE] # THREAD_ZOMBIE, st[INIT] # THREAD_ZOMBIE
    PROVE  \E i \in Slots : Acceptable(i, st)
<1> USE SchedAssumption DEF Slots, IDLE, INIT, None, Acceptable
<1>1. CASE sched_current_threads > 1
  <2>1. thread_queue[1] = INIT /\ 1 \in Slots
    BY <1>1 DEF IInv, Residents
  <2> QED BY <2>1
<1>2. CASE ~(sched_current_threads > 1)
  <2>1. thread_queue[0] = IDLE /\ 0 \in Slots
    BY DEF IInv, Residents
  <2> QED BY <2>1, <1>2
<1> QED BY <1>1, <1>2

(***************************************************************************)
(* A switch gives the processor to a thread of the queue.                  *)
(***************************************************************************)
LEMMA SwitchDispatches ==
    ASSUME IInv, halted = "no", current # None, can_schedule,
           NEW STATE st, st \in [Pids -> THREAD_NULL .. THREAD_REMOVED],
           NEW STATE tu, tu \in [Pids -> 0 .. MAX_PROC_TIME + 1],
           st[IDLE] # THREAD_ZOMBIE, st[INIT] # THREAD_ZOMBIE,
           \A p \in Pids : st[p] # THREAD_RUNNING,
           Switch(st, tu)
    PROVE  Dispatched(st)
<1>1. \E i \in Slots : Acceptable(i, st)
  BY SelectEnds
<1>2. PICK i \in Slots : /\ Selects(i, st)
                         /\ sched_next' = i + 1
                         /\ current' = thread_queue[i]
                         /\ time_used' = [tu EXCEPT ![thread_queue[i]] = 0]
                         /\ state' = [st EXCEPT ![thread_queue[i]] = THREAD_RUNNING]
                         /\ UNCHANGED halted
  BY <1>1 DEF Switch
<1>3. thread_queue[i] \in Pids
  BY <1>2 DEF Selects, Acceptable, IInv, TypeOK
<1>4. sched_next' \in 0 .. THREAD_QUEUE_SIZE
  BY <1>2, SchedAssumption DEF Slots
<1>5. /\ current' \in Pids
      /\ time_used'[current'] = 0
      /\ state'[current'] = THREAD_RUNNING
      /\ \A p \in Pids : p # current' => state'[p] = st[p]
  BY <1>2, <1>3
<1>6. /\ state' \in [Pids -> THREAD_NULL .. THREAD_REMOVED]
      /\ time_used' \in [Pids -> 0 .. MAX_PROC_TIME + 1]
  BY <1>2, <1>3, SchedAssumption DEF THREAD_NULL, THREAD_REMOVED, THREAD_RUNNING
<1> QED
  BY <1>2, <1>4, <1>5, <1>6, SchedAssumption
  DEF Dispatched, Queued, THREAD_RUNNING, THREAD_ZOMBIE

(* A call of sched_schedule from a handler dispatches a thread, or leaves  *)
(* the current one running.                                                *)
LEMMA ScheduleDispatches ==
    ASSUME IInv, halted = "no", current # None, NEW STATE st, NEW STATE tu,
           CalledWith(st, tu), st = state \/ can_schedule,
           sched_schedule(st, tu)
    PROVE  Dispatched(st)
<1> USE SchedAssumption DEF CalledWith
<1>a. /\ current \in Pids
      /\ IDLE \in Pids /\ INIT \in Pids
      /\ sched_next \in 0 .. THREAD_QUEUE_SIZE
      /\ state \in [Pids -> THREAD_NULL .. THREAD_REMOVED]
  BY IdlePid DEF IInv, TypeOK
<1>b. \A p \in Pids \ {current} : st[p] = state[p]
  BY <1>a
<1>c. st[IDLE] # THREAD_ZOMBIE /\ st[INIT] # THREAD_ZOMBIE
  BY <1>a, <1>b DEF IInv, Residents
<1>d. \A p \in Pids \ {current} : st[p] # THREAD_RUNNING
  BY <1>b DEF IInv, RunningIsCurrent
<1>0. /\ current \in Pids
      /\ IDLE \in Pids /\ INIT \in Pids
      /\ st[IDLE] # THREAD_ZOMBIE /\ st[INIT] # THREAD_ZOMBIE
      /\ \A p \in Pids \ {current} : st[p] # THREAD_RUNNING
      /\ sched_next \in 0 .. THREAD_QUEUE_SIZE
  BY <1>a, <1>c, <1>d
<1>1. CASE ~can_schedule
  <2>1. /\ state' = state /\ st = state /\ time_used' = tu
        /\ sched_next' = sched_next /\ current' = current /\ halted' = halted
    BY <1>1 DEF sched_schedule
  <2> QED
    BY <1>0, <1>1, <2>1
    DEF Dispatched, IInv, RunningIsCurrent, TypeOK
<1>2. CASE can_schedule /\ st[current] = THREAD_ZOMBIE
  <2>1. Switch(st, tu)
    BY <1>2 DEF sched_schedule
  <2>2. \A p \in Pids : st[p] # THREAD_RUNNING
    BY <1>0, <1>2 DEF THREAD_ZOMBIE, THREAD_RUNNING
  <2> QED BY <1>0, <1>2, <2>1, <2>2, SwitchDispatches
<1>3. CASE can_schedule /\ st[current] # THREAD_ZOMBIE /\ SliceLeft(tu)
  <2>1. /\ state' = state /\ st = state
        /\ time_used' = [tu EXCEPT ![current] = @ + 1]
        /\ sched_next' = sched_next /\ current' = current /\ halted' = halted
    BY <1>0, <1>3 DEF sched_schedule
  <2>2. /\ time_used' \in [Pids -> 0 .. MAX_PROC_TIME + 1]
        /\ time_used'[current'] <= MAX_PROC_TIME
    BY <1>0, <1>3, <2>1 DEF SliceLeft
  <2> QED
    BY <1>0, <1>3, <2>1, <2>2
    DEF Dispatched, IInv, RunningIsCurrent, TypeOK
<1>4. CASE can_schedule /\ st[current] # THREAD_ZOMBIE /\ ~SliceLeft(tu)
  <2> DEFINE pst == Preempted(st)
             ptu == [tu EXCEPT ![current] = @ + 1]
  <2>1. Switch(pst, ptu)
    BY <1>4 DEF sched_schedule
  <2>2. /\ pst \in [Pids -> THREAD_NULL .. THREAD_REMOVED]
        /\ ptu \in [Pids -> 0 .. MAX_PROC_TIME + 1]
        /\ pst[IDLE] # THREAD_ZOMBIE /\ pst[INIT] # THREAD_ZOMBIE
        /\ \A p \in Pids : pst[p] # THREAD_RUNNING
        /\ \A p \in Pids \ {current} : pst[p] = st[p]
        /\ pst[current] # THREAD_ZOMBIE
    BY <1>0
    DEF Preempted, THREAD_NULL, THREAD_REMOVED, THREAD_PREEMPTED,
        THREAD_RUNNING, THREAD_ZOMBIE
  <2>3. Dispatched(pst)
    <3> HIDE DEF pst, ptu
    <3> QED BY <1>4, <2>1, <2>2, SwitchDispatches
  <2> HIDE DEF pst, ptu
  <2> QED
    BY <2>2, <2>3 DEF Dispatched
<1> QED BY <1>1, <1>2, <1>3, <1>4

(***************************************************************************)
(* A call of sched_schedule by the current thread keeps the invariant: it  *)
(* changes neither the queue nor cmd_testmt, and moves init's pc at most   *)
(* between "run" and "volunteer".                                          *)
(***************************************************************************)
SamePlace ==
    /\ pc' \in [Pids -> {"entry", "run", "volunteer", "mk", "add", "slot",
                         "count", "ready", "rm"}]
    /\ pc'[INIT] = pc[INIT] \/ {pc[INIT], pc'[INIT]} \subseteq {"run", "volunteer"}

(* What sched_schedule leaves of the invariant, whoever called it.         *)
LEMMA DispatchKeeps ==
    ASSUME IInv, halted = "no", current # None, NEW STATE st, NEW STATE tu,
           CalledWith(st, tu), st = state \/ can_schedule,
           sched_schedule(st, tu), SamePlace,
           UNCHANGED <<queueVars, can_schedule, shellVars>>
    PROVE  IInv'
<1> USE DEF queueVars, shellVars
<1>1. Dispatched(st)
  BY ScheduleDispatches
<1>2. current \in Pids
  BY DEF IInv, TypeOK
<1>3. \A p \in Pids : st[p] = state[p] \/ p = current
  BY <1>2 DEF CalledWith, IInv, TypeOK
<1>4. TypeOK'
  BY <1>1 DEF IInv, TypeOK, Dispatched, SamePlace
<1>a. BeforeBoot'
  BY <1>1 DEF Dispatched, BeforeBoot, Pids, None
<1>5. Residents'
  <2>1. \E i \in Slots : thread_queue[i] = current'
    BY <1>1 DEF Dispatched, IInv, Residents, Queued
  <2>2. state'[IDLE] # THREAD_ZOMBIE /\ state'[INIT] # THREAD_ZOMBIE
    BY <1>1, <1>2, IdlePid DEF Dispatched, CalledWith, IInv, Residents, TypeOK
  <2> QED BY <1>1, <2>1, <2>2 DEF Dispatched, IInv, Residents, Queued
<1>6. Slices'
  BY <1>1 DEF Dispatched, Slices
<1>7. Window'
  BY DEF IInv, Window, SamePlace
<1>8. \A p \in Pids : state'[p] # THREAD_NULL => Queued(p)
  BY <1>1, <1>3 DEF Dispatched, IInv, Residents, OneSlotEach
<1>9. Fresh'
  <2>1. \A p \in Pids : Queued(p)' \/ state'[p] # THREAD_NULL => p < global_pid'
    BY <1>8 DEF IInv, Fresh, Queued
  <2> QED BY <2>1 DEF IInv, Fresh, Queued, Absent, SamePlace
<1>10. NeverSpins' /\ RunningIsCurrent'
  BY <1>1 DEF Dispatched, NeverSpins, RunningIsCurrent
<1>11. OneSlotEach'
  BY <1>8 DEF IInv, OneSlotEach, Occupied, Queued
<1>12. SlotAccounting'
  BY DEF IInv, SlotAccounting, Occupied, SamePlace
<1> QED
  BY <1>a, <1>4, <1>5, <1>6, <1>7, <1>9, <1>10, <1>11, <1>12 DEF IInv

(***************************************************************************)
(* The three callers of sched_schedule.                                    *)
(***************************************************************************)
LEMMA CallersKeep ==
    ASSUME IInv, pit_irq \/ post_schedule_noirq \/ syscall_exit
    PROVE  IInv'
<1>0. /\ pc \in [Pids -> {"entry", "run", "volunteer", "mk", "add", "slot",
                          "count", "ready", "rm"}]
      /\ state \in [Pids -> THREAD_NULL .. THREAD_REMOVED]
      /\ time_used \in [Pids -> 0 .. MAX_PROC_TIME + 1]
      /\ current # None => current \in Pids /\ time_used[current] <= MAX_PROC_TIME
  BY DEF IInv, TypeOK, Slices
<1>1. CASE pit_irq
  <2>1. halted = "no" /\ current # None /\ sched_schedule(state, time_used)
    BY <1>1 DEF pit_irq
  <2>2. CalledWith(state, time_used)
    BY <1>0, <2>1 DEF CalledWith
  <2>3. SamePlace
    BY <1>0, <1>1 DEF pit_irq, SamePlace
  <2> QED BY <1>1, <2>1, <2>2, <2>3, DispatchKeeps DEF pit_irq
<1>2. CASE post_schedule_noirq
  <2>1. halted = "no" /\ current # None /\ sched_schedule(state, time_used)
    BY <1>2 DEF post_schedule_noirq, At
  <2>2. CalledWith(state, time_used)
    BY <1>0, <2>1 DEF CalledWith
  <2>3. SamePlace
    BY <1>0, <1>2, IdlePid DEF post_schedule_noirq, SamePlace, At, Goto
  <2> QED BY <1>2, <2>1, <2>2, <2>3, DispatchKeeps DEF post_schedule_noirq
<1>3. CASE syscall_exit
  <2> DEFINE st == [state EXCEPT ![current] = THREAD_ZOMBIE]
             tu == [time_used EXCEPT ![current] = MAX_PROC_TIME]
  <2>1. /\ halted = "no" /\ current \notin {None, IDLE, INIT}
        /\ can_schedule /\ sched_schedule(st, tu)
    BY <1>3 DEF syscall_exit, At, IInv, Residents
  <2>2. CalledWith(st, tu)
    BY <1>0, <2>1, SchedAssumption
    DEF CalledWith, THREAD_NULL, THREAD_REMOVED, THREAD_ZOMBIE
  <2>3. SamePlace
    BY <1>0, <1>3, IdlePid DEF syscall_exit, SamePlace, At, Goto
  <2>4. UNCHANGED <<queueVars, can_schedule, shellVars>>
    BY <1>3 DEF syscall_exit
  <2> HIDE DEF st, tu
  <2> QED BY <2>1, <2>2, <2>3, <2>4, DispatchKeeps
<1> QED BY <1>1, <1>2, <1>3

(***************************************************************************)
(* Boot: idle and init, if it could be made, are put in slots 0 and 1.     *)
(***************************************************************************)
LEMMA InitEstablishes ==
    ASSUME Init PROVE IInv
<1> USE SchedAssumption DEF Init
<1>1. TypeOK
  <2>1. /\ state \in [Pids -> THREAD_NULL .. THREAD_REMOVED]
        /\ time_used \in [Pids -> 0 .. MAX_PROC_TIME + 1]
    BY DEF THREAD_NULL, THREAD_REMOVED
  <2>2. /\ thread_queue \in [Slots -> Pids \cup {None}]
        /\ testmt \in [1..2 -> Pids \cup {None}]
    OBVIOUS
  <2>3. pc \in [Pids -> {"entry", "run", "volunteer", "mk", "add", "slot",
                         "count", "ready", "rm"}]
    OBVIOUS
  <2>4. /\ sched_next \in 0 .. THREAD_QUEUE_SIZE
        /\ sched_current_threads \in 0 .. THREAD_QUEUE_SIZE
        /\ global_pid \in 0 .. MAX_PIDS
    OBVIOUS
  <2>5. current \in Pids \cup {None} /\ k \in 1..2
    OBVIOUS
  <2>6. can_schedule \in BOOLEAN
    BY Zenon
  <2> QED BY <2>1, <2>2, <2>3, <2>4, <2>5, <2>6 DEF TypeOK
<1>2. \A p \in Pids : ~Queued(p)
  BY DEF Queued, Pids, None
<1>3. Cardinality(Occupied) = 0
  <2>1. Occupied = {}
    BY DEF Occupied
  <2> QED BY <2>1, FS_EmptySet
<1>4. pc[INIT] = "run"
  BY IdlePid
<1>5. Residents
  BY IdlePid, <1>1 DEF Residents, Slots, None, INIT, IDLE, THREAD_NULL, THREAD_ZOMBIE
<1>6. Slices /\ NeverSpins /\ BeforeBoot
  BY <1>4 DEF Slices, NeverSpins, BeforeBoot
<1>7. Window
  BY <1>4 DEF Window
<1>8. Fresh
  BY <1>2, <1>4 DEF Fresh
<1>9. RunningIsCurrent
  BY DEF RunningIsCurrent, THREAD_NULL, THREAD_RUNNING
<1>10. OneSlotEach
  BY DEF OneSlotEach, Occupied
<1>11. SlotAccounting
  BY <1>3, <1>4 DEF SlotAccounting
<1> QED
  BY <1>1, <1>5, <1>6, <1>7, <1>8, <1>9, <1>10, <1>11 DEF IInv

(* sched_start_idle establishes the part of the invariant about threads,   *)
(* whichever of its two sched_mk_process calls fails.                      *)
LEMMA BootKeeps ==
    ASSUME IInv, NEW ri \in MkResults, NEW rk \in MkResults,
           sched_start_idle(ri, rk)
    PROVE  IInv'
<1> USE SchedAssumption DEF queueVars, shellVars
<1>0. /\ halted = "no" /\ current = None /\ BeforeBoot
      /\ UNCHANGED <<pc, testmt, k, sched_next, can_schedule, time_used>>
  BY DEF sched_start_idle, IInv
<1>1. CASE ri # "ok"
  <2>1. /\ halted' = "page_fault" /\ global_pid' \in 0..1
        /\ UNCHANGED <<queueVars, current, state>>
    BY <1>1 DEF sched_start_idle, Made, PidTaken, None
  <2>2. \A p \in Pids : ~Queued(p)
    BY <1>0 DEF BeforeBoot, Queued, Pids, None
  <2>3. TypeOK'
    BY <1>0, <2>1 DEF IInv, TypeOK
  <2>4. Residents'
    BY <1>0, <2>1 DEF IInv, BeforeBoot, Residents, INIT, None
  <2>5. Window'
    BY <1>0, <2>1 DEF IInv, BeforeBoot, Window
  <2>6. Fresh'
    BY <1>0, <2>1, <2>2 DEF IInv, BeforeBoot, Fresh, Queued
  <2>7. BeforeBoot' /\ Slices' /\ NeverSpins'
    BY <1>0, <2>1 DEF BeforeBoot, Slices, NeverSpins
  <2>8. RunningIsCurrent' /\ OneSlotEach' /\ SlotAccounting'
    BY <1>0, <2>1
    DEF IInv, RunningIsCurrent, OneSlotEach, SlotAccounting, Occupied, Queued
  <2> QED
    BY <2>3, <2>4, <2>5, <2>6, <2>7, <2>8 DEF IInv
<1>2. CASE ri = "ok"
  <2> DEFINE kinit == Made(rk, 1)
             added == {p \in {IDLE, kinit} : p # None}
  <2>1. /\ thread_queue' = [i \in Slots |->
              IF i = 0 THEN IDLE ELSE IF i = 1 THEN kinit ELSE None]
        /\ sched_current_threads' = Cardinality(added)
        /\ global_pid' = 1 + PidTaken(rk)
        /\ current' = IDLE
        /\ state' = [p \in Pids |->
              IF p \in added THEN THREAD_READY ELSE THREAD_NULL]
        /\ halted' = halted
    BY <1>2 DEF sched_start_idle, Made, PidTaken, None, IDLE
  <2>2. (kinit = INIT /\ rk = "ok") \/ (kinit = None /\ rk # "ok")
    BY DEF Made, INIT
  <2>3. /\ (added = {IDLE} /\ rk # "ok") \/ (added = {IDLE, INIT} /\ rk = "ok")
        /\ Occupied' = {i \in {0, 1} : i \in added}
        /\ added \subseteq {0, 1}
    BY <2>1, <2>2 DEF IDLE, INIT, None, Occupied, Slots
  <2>4. /\ Cardinality(added) = Cardinality(Occupied')
        /\ Cardinality(added) = IF rk = "ok" THEN 2 ELSE 1
    <3>1. Occupied' = added
      BY <2>3
    <3>2. IsFiniteSet({IDLE}) /\ Cardinality({IDLE}) = 1
      BY FS_Singleton
    <3>3. Cardinality({IDLE} \cup {INIT}) = 2
      BY <3>2, FS_AddElement DEF IDLE, INIT
    <3>4. {IDLE} \cup {INIT} = {IDLE, INIT}
      OBVIOUS
    <3> QED BY <2>3, <3>1, <3>2, <3>3, <3>4
  <2>5. /\ global_pid' \in 1..2 /\ (rk = "ok" => global_pid' = 2)
    BY <2>1 DEF PidTaken
  <2>6. \A p \in Pids : Queued(p)' <=> p \in added
    BY <2>1, <2>2, IdlePid DEF Queued, Slots, IDLE, INIT, None, Pids
  <2> HIDE DEF kinit, added
  <2>7. TypeOK'
    <3>1. thread_queue' \in [Slots -> Pids \cup {None}]
      BY <2>1, <2>2, IdlePid
    <3>2. state' \in [Pids -> THREAD_NULL .. THREAD_REMOVED]
      BY <2>1 DEF THREAD_NULL, THREAD_READY, THREAD_REMOVED
    <3>3. /\ global_pid' \in 0 .. MAX_PIDS
          /\ sched_current_threads' \in 0 .. THREAD_QUEUE_SIZE
      BY <2>1, <2>4, <2>5
    <3> QED BY <1>0, <2>1, <3>1, <3>2, <3>3, IdlePid DEF IInv, TypeOK
  <2>8. BeforeBoot'
    BY <2>1 DEF BeforeBoot, IDLE, None
  <2>9. Residents'
    <3>1. thread_queue'[0] = IDLE /\ 0 \in Slots /\ 1 \in Slots
      BY <2>1 DEF Slots
    <3>2. sched_current_threads' > 1 => thread_queue'[1] = INIT
      BY <2>1, <2>2, <2>4, <3>1
    <3>3. \A i \in Slots : thread_queue'[i] = INIT => i = 1 /\ global_pid' >= 2
      BY <2>1, <2>2, <2>5 DEF IDLE, INIT, None
    <3>4. state'[IDLE] # THREAD_ZOMBIE /\ state'[INIT] # THREAD_ZOMBIE
      BY <2>1, IdlePid DEF THREAD_NULL, THREAD_READY, THREAD_ZOMBIE
    <3> QED BY <2>1, <3>1, <3>2, <3>3, <3>4 DEF Residents, Queued
  <2>10. Slices' /\ NeverSpins'
    BY <1>0, <2>1, IdlePid DEF BeforeBoot, Slices, NeverSpins
  <2>11. Window'
    BY <1>0, <2>1, <2>4 DEF IInv, BeforeBoot, Window
  <2>12. Fresh'
    BY <1>0, <2>1, <2>3, <2>5, <2>6
    DEF IInv, BeforeBoot, Fresh, IDLE, INIT, THREAD_NULL
  <2>13. RunningIsCurrent'
    BY <2>1 DEF RunningIsCurrent, THREAD_NULL, THREAD_READY, THREAD_RUNNING
  <2>14. OneSlotEach'
    BY <2>1, <2>2, <2>6 DEF OneSlotEach, Occupied, IDLE, INIT, None, THREAD_NULL
  <2>15. SlotAccounting'
    BY <1>0, <2>1, <2>4 DEF IInv, BeforeBoot, SlotAccounting
  <2> QED
    BY <2>7, <2>8, <2>9, <2>10, <2>11, <2>12, <2>13, <2>14, <2>15 DEF IInv
<1> QED BY <1>1, <1>2

(***************************************************************************)
(* The steps that touch neither the queue nor the state of a thread.       *)
(***************************************************************************)
LEMMA QuietStepsKeep ==
    ASSUME IInv,
           idle_task \/ schedule_noirq \/ cmd_testmt \/ add_refused
             \/ add_check \/ syscall_exit_init \/ sched_rm_process
    PROVE  IInv'
<1> USE SchedAssumption, IdlePid DEF queueVars, shellVars
<1>0. /\ UNCHANGED <<thread_queue, sched_current_threads, sched_next, current,
                     state, global_pid, testmt>>
      /\ halted = "no" /\ current # None /\ current \in Pids /\ k \in 1..2
  BY DEF idle_task, schedule_noirq, cmd_testmt, add_refused, add_check,
         syscall_exit_init, sched_rm_process, At, INIT, IDLE, None, IInv, TypeOK
<1>1. (TypeOK /\ Slices)'
  <2>1. time_used' \in [Pids -> 0 .. MAX_PROC_TIME + 1]
    BY <1>0
    DEF idle_task, schedule_noirq, cmd_testmt, add_refused, add_check,
        syscall_exit_init, sched_rm_process, IInv, TypeOK
  <2>2. time_used'[current] <= MAX_PROC_TIME
    BY <1>0
    DEF idle_task, schedule_noirq, cmd_testmt, add_refused, add_check,
        syscall_exit_init, sched_rm_process, IInv, TypeOK, Slices
  <2>3. pc' \in [Pids -> {"entry", "run", "volunteer", "mk", "add", "slot",
                          "count", "ready", "rm"}]
    BY <1>0
    DEF idle_task, schedule_noirq, cmd_testmt, add_refused, add_check, NextAdd,
        syscall_exit_init, sched_rm_process, Goto, IInv, TypeOK
  <2>4. k' \in 1..2 /\ halted' \in {"no", "page_fault", "init_killed", "spin"}
    BY <1>0
    DEF idle_task, schedule_noirq, cmd_testmt, add_refused, add_check, NextAdd,
        syscall_exit_init, sched_rm_process
  <2>5. can_schedule' \in BOOLEAN
    BY Zenon
    DEF idle_task, schedule_noirq, cmd_testmt, add_refused, add_check,
        syscall_exit_init, sched_rm_process, IInv, TypeOK
  <2> QED BY <1>0, <2>1, <2>2, <2>3, <2>4, <2>5 DEF IInv, TypeOK, Slices
<1>2. BeforeBoot'
  BY <1>0 DEF BeforeBoot
<1>3. Residents'
  BY <1>0
  DEF idle_task, schedule_noirq, cmd_testmt, add_refused, add_check,
      syscall_exit_init, sched_rm_process, IInv, Residents, Queued
<1>4. (NeverSpins /\ RunningIsCurrent)'
  BY <1>0
  DEF idle_task, schedule_noirq, cmd_testmt, add_refused, add_check, At,
      syscall_exit_init, sched_rm_process, IInv, NeverSpins, RunningIsCurrent
<1>5. OneSlotEach'
  BY <1>0 DEF IInv, OneSlotEach, Occupied, Queued
<1>6. \/ pc'[INIT] = pc[INIT] /\ k' = k
      \/ {pc[INIT], pc'[INIT]} \subseteq {"run", "volunteer"} /\ k' = k
      \/ cmd_testmt \/ add_refused \/ add_check
  BY <1>0
  DEF idle_task, schedule_noirq, syscall_exit_init, sched_rm_process, At, Goto,
      IInv, TypeOK
<1>7. pc \in [Pids -> {"entry", "run", "volunteer", "mk", "add", "slot",
                       "count", "ready", "rm"}]
  BY DEF IInv, TypeOK
<1>8. Window'
  <2>1. CASE cmd_testmt
    BY <1>0, <1>7, <2>1 DEF cmd_testmt, Goto, IInv, TypeOK, Window
  <2>2. CASE add_refused
    BY <1>0, <1>7, <2>2 DEF add_refused, NextAdd, Goto, IInv, Window
  <2>3. CASE add_check
    BY <1>0, <1>7, <2>3
    DEF add_check, NoRoom, Goto, IInv, TypeOK, Window
  <2> QED BY <1>0, <1>6, <2>1, <2>2, <2>3 DEF IInv, Window
<1>9. Fresh'
  <2>1. CASE cmd_testmt
    BY <1>0, <1>7, <2>1 DEF cmd_testmt, Goto, IInv, Fresh, Queued
  <2>2. CASE add_refused
    BY <1>0, <1>7, <2>2 DEF add_refused, NextAdd, At, Goto, IInv, Fresh, Queued, Absent
  <2>3. CASE add_check
    BY <1>0, <1>7, <2>3 DEF add_check, At, Goto, IInv, Fresh, Queued, Absent
  <2> QED BY <1>0, <1>6, <2>1, <2>2, <2>3 DEF IInv, Fresh, Queued, Absent
<1>10. SlotAccounting'
  <2>1. pc[INIT] = "count" <=> pc'[INIT] = "count"
    BY <1>6, <1>7 DEF cmd_testmt, add_refused, add_check, NextAdd, At, Goto
  <2> QED BY <1>0, <2>1 DEF IInv, SlotAccounting, Occupied
<1> QED
  BY <1>1, <1>2, <1>3, <1>4, <1>5, <1>8, <1>9, <1>10 DEF IInv

(***************************************************************************)
(* sched_mk_process takes a pid that no thread has.                        *)
(***************************************************************************)
LEMMA MkKeeps ==
    ASSUME IInv, NEW r \in MkResults, sched_mk_process(r)
    PROVE  IInv'
<1> USE SchedAssumption, IdlePid DEF queueVars
<1>0. /\ UNCHANGED <<thread_queue, sched_current_threads, sched_next, current,
                     can_schedule, halted>>
      /\ halted = "no" /\ current = INIT /\ current # None
      /\ k \in 1..2 /\ pc[INIT] = "mk" /\ k' = 3 - k
      /\ testmt' = [testmt EXCEPT ![k] = Made(r, global_pid)]
      /\ global_pid' = global_pid + PidTaken(r)
      /\ pc' = [pc EXCEPT ![INIT] = IF k = 1 THEN "mk" ELSE "add"]
  BY DEF sched_mk_process, Goto, At, INIT, None, IInv, TypeOK
<1>1. /\ global_pid \in Pids /\ global_pid >= 2
      /\ global_pid + 3 - k <= MAX_PIDS
      /\ \A p \in Pids : Queued(p) \/ state[p] # THREAD_NULL => p < global_pid
      /\ state[global_pid] = THREAD_NULL
      /\ state \in [Pids -> THREAD_NULL .. THREAD_REMOVED]
  <2>1. global_pid \in Nat /\ global_pid >= 2 /\ global_pid + 3 - k <= MAX_PIDS
    BY <1>0 DEF IInv, TypeOK, Residents, Window, Queued
  <2>2. global_pid \in Pids
    BY <1>0, <2>1 DEF Pids
  <2> QED BY <2>1, <2>2 DEF IInv, TypeOK, Fresh
<1>2. state' = state
  BY <1>1 DEF sched_mk_process
<1>3. /\ PidTaken(r) \in 0..1
      /\ r = "ok" => PidTaken(r) = 1
      /\ Made(r, global_pid) = IF r = "ok" THEN global_pid ELSE None
  BY DEF PidTaken, Made
<1>4. TypeOK' /\ Slices'
  <2>1. testmt' \in [1..2 -> Pids \cup {None}]
    BY <1>0, <1>1, <1>3 DEF IInv, TypeOK
  <2>2. /\ time_used' \in [Pids -> 0 .. MAX_PROC_TIME + 1]
        /\ time_used'[INIT] = time_used[INIT]
    BY <1>1 DEF sched_mk_process, INIT, IInv, TypeOK
  <2>3. pc' \in [Pids -> {"entry", "run", "volunteer", "mk", "add", "slot",
                          "count", "ready", "rm"}]
    BY <1>0 DEF IInv, TypeOK
  <2>4. global_pid' \in 0 .. MAX_PIDS /\ k' \in 1..2
    BY <1>0, <1>1, <1>3 DEF Pids
  <2> QED
    BY <1>0, <1>2, <2>1, <2>2, <2>3, <2>4 DEF IInv, TypeOK, Slices
<1>5. BeforeBoot'
  BY <1>0 DEF BeforeBoot
<1>6. Residents'
  BY <1>0, <1>1, <1>2, <1>3 DEF IInv, Residents, Queued, Pids
<1>7. (NeverSpins /\ RunningIsCurrent)'
  BY <1>0, <1>2 DEF IInv, NeverSpins, RunningIsCurrent
<1>8. OneSlotEach'
  BY <1>0, <1>2 DEF IInv, OneSlotEach, Occupied, Queued
<1>9. pc'[INIT] = IF k = 1 THEN "mk" ELSE "add"
  BY <1>0 DEF IInv, TypeOK
<1>10. Absent(Made(r, global_pid))
  BY <1>1, <1>3 DEF Absent, Pids
<1>11. /\ testmt'[k] = Made(r, global_pid)
       /\ \A j \in 1..2 : j # k => testmt'[j] = testmt[j]
       /\ testmt \in [1..2 -> Pids \cup {None}]
  BY <1>0 DEF IInv, TypeOK
<1>12. Window'
  <2>1. \A j \in 1..2 : testmt'[j] # None =>
            2 <= testmt'[j] /\ testmt'[j] < global_pid'
    <3> TAKE j \in 1..2
    <3>1. CASE j = k
      BY <1>0, <1>1, <1>3, <1>11, <3>1 DEF Pids
    <3>2. CASE j # k
      <4>1. testmt'[j] = testmt[j]
        BY <1>11, <3>2
      <4>2. testmt[j] # None => 2 <= testmt[j] /\ testmt[j] < global_pid
        BY DEF IInv, Window
      <4>3. global_pid <= global_pid' /\ global_pid \in Nat /\ global_pid' \in Nat
        BY <1>0, <1>1, <1>3 DEF Pids
      <4>4. testmt[j] # None => testmt[j] \in Nat
        BY <1>11 DEF Pids
      <4> QED BY <4>1, <4>2, <4>3, <4>4
    <3> QED BY <3>1, <3>2
  <2>2. pc'[INIT] = "mk" => global_pid' + 3 - k' <= MAX_PIDS
    BY <1>0, <1>1, <1>3, <1>9 DEF Pids
  <2>3. pc'[INIT] \notin {"slot", "count", "ready"}
    BY <1>0, <1>9
  <2>4. sched_current_threads' < THREAD_QUEUE_SIZE
    BY <1>0 DEF IInv, Window
  <2> QED BY <2>1, <2>2, <2>3, <2>4 DEF Window
<1>13. Fresh'
  <2>1. \A p \in Pids : Queued(p)' \/ state'[p] # THREAD_NULL => p < global_pid'
    BY <1>0, <1>1, <1>2, <1>3 DEF Queued, Pids
  <2>2. CASE k = 1
    BY <1>0, <1>9, <1>10, <1>11, <2>1, <2>2 DEF Fresh, Absent, Queued
  <2>3. CASE k = 2
    <3>1. Absent(testmt[1])
      BY <1>0, <2>3 DEF IInv, Fresh
    <3>2. testmt'[1] = testmt'[2] => testmt'[2] = None
      BY <1>1, <1>3, <1>11, <2>3 DEF IInv, Window, Pids
    <3> QED BY <1>0, <1>9, <1>10, <1>11, <2>1, <2>3, <3>1, <3>2 DEF Fresh, Absent, Queued
  <2> QED BY <1>0, <2>2, <2>3
<1>14. SlotAccounting'
  BY <1>0, <1>9 DEF IInv, SlotAccounting, Occupied
<1> QED
  BY <1>4, <1>5, <1>6, <1>7, <1>8, <1>12, <1>13, <1>14 DEF IInv

(***************************************************************************)
(* The three stores of sched_add_process.                                  *)
(***************************************************************************)
LEMMA AddSlotKeeps ==
    ASSUME IInv, add_slot PROVE IInv'
<1> USE SchedAssumption, IdlePid DEF shellVars
<1>0. /\ UNCHANGED <<sched_current_threads, sched_next, can_schedule, current,
                     state, time_used, global_pid, testmt, k, halted>>
      /\ halted = "no" /\ current = INIT /\ current # None
      /\ k \in 1..2 /\ pc[INIT] = "slot"
      /\ pc' = [pc EXCEPT ![INIT] = "count"]
      /\ testmt[k] \in Pids /\ ~Queued(testmt[k])
      /\ 2 <= testmt[k] /\ testmt[k] < global_pid
      /\ pc'[INIT] = "count"
  BY DEF add_slot, Goto, At, INIT, None, IInv, TypeOK, Window, Fresh, Absent
<1>1. PICK s \in Slots : /\ FirstFree(s)
                         /\ thread_queue' = [thread_queue EXCEPT ![s] = testmt[k]]
  BY DEF add_slot
<1>2. /\ thread_queue[s] = None
      /\ thread_queue \in [Slots -> Pids \cup {None}]
      /\ thread_queue'[s] = testmt[k]
      /\ \A i \in Slots \ {s} : thread_queue'[i] = thread_queue[i]
      /\ testmt[k] # None
  <2>1. testmt[k] # None
    BY <1>0 DEF None
  <2> QED BY <1>0, <1>1, <2>1 DEF FirstFree, IInv, TypeOK
<1>3. TypeOK' /\ Slices'
  BY <1>0, <1>1, <1>2 DEF IInv, TypeOK, Slices
<1>4. \A p \in Pids : Queued(p)' <=> (Queued(p) \/ p = testmt[k])
  BY <1>1, <1>2 DEF Queued, Pids, None
<1>5. Residents'
  <2>1. thread_queue'[0] = IDLE /\ thread_queue'[1] = INIT
    BY <1>0, <1>2 DEF IInv, Residents, Queued, Slots, IDLE, INIT, None
  <2>2. Queued(current)'
    BY <1>0, <1>4 DEF IInv, Residents, Queued
  <2>3. \A i \in Slots : thread_queue'[i] = INIT => i = 1 /\ global_pid >= 2
    BY <1>0, <1>2 DEF IInv, Residents, INIT
  <2> QED BY <1>0, <2>1, <2>2, <2>3 DEF IInv, Residents
<1>6. BeforeBoot' /\ NeverSpins' /\ RunningIsCurrent'
  BY <1>0 DEF IInv, BeforeBoot, NeverSpins, RunningIsCurrent
<1>7. Window'
  BY <1>0 DEF IInv, Window
<1>8. Fresh'
  <2>1. \A p \in Pids : Queued(p)' \/ state[p] # THREAD_NULL => p < global_pid
    BY <1>0, <1>4 DEF IInv, Fresh
  <2>2. k = 1 => Absent(testmt[2])' /\ (testmt[1] = testmt[2] => testmt[2] = None)
    BY <1>0, <1>2, <1>4 DEF IInv, TypeOK, Fresh, Absent
  <2> QED BY <1>0, <1>4, <2>1, <2>2 DEF Fresh
<1>9. OneSlotEach'
  <2>1. \A i \in Slots : thread_queue[i] # testmt[k]
    BY <1>0 DEF Queued
  <2> QED BY <1>0, <1>2, <1>4, <2>1 DEF IInv, OneSlotEach, Occupied
<1>10. SlotAccounting'
  <2>1. Occupied' = Occupied \cup {s} /\ s \notin Occupied
    BY <1>2 DEF Occupied
  <2>2. IsFiniteSet(Slots)
    BY FS_Interval DEF Slots
  <2>3. IsFiniteSet(Occupied)
    BY <2>2, FS_Subset DEF Occupied
  <2>4. Cardinality(Occupied') = Cardinality(Occupied) + 1
    BY <2>1, <2>3, FS_AddElement
  <2> QED BY <1>0, <2>4 DEF IInv, TypeOK, SlotAccounting
<1> QED
  BY <1>3, <1>5, <1>6, <1>7, <1>8, <1>9, <1>10 DEF IInv

(* The last two steps of sched_add_process keep the invariant, although the *)
(* new thread may have run, or exited, before it is marked READY.          *)
LEMMA AddCountReadyKeep ==
    ASSUME IInv, add_count \/ add_ready PROVE IInv'
<1> USE SchedAssumption, IdlePid DEF shellVars, queueVars
<1>0. /\ UNCHANGED <<thread_queue, sched_next, can_schedule, current,
                     time_used, global_pid, testmt, halted>>
      /\ halted = "no" /\ current = INIT /\ current # None
      /\ k \in 1..2 /\ pc[INIT] \in {"count", "ready"}
      /\ testmt[k] \in Pids /\ Queued(testmt[k])
      /\ 2 <= testmt[k] /\ testmt[k] < global_pid
  BY DEF add_count, add_ready, Goto, At, INIT, None, IInv, TypeOK, Window, Fresh
<1>1. /\ state' \in [Pids -> THREAD_NULL .. THREAD_REMOVED]
      /\ \A p \in Pids : state'[p] = state[p]
                           \/ (p = testmt[k] /\ state'[p] = THREAD_READY)
      /\ state'[INIT] = state[INIT] /\ state'[IDLE] = state[IDLE]
  BY <1>0
  DEF add_count, add_ready, THREAD_NULL, THREAD_READY, THREAD_REMOVED, IInv,
      TypeOK, INIT, IDLE
<1>2. /\ pc' \in [Pids -> {"entry", "run", "volunteer", "mk", "add", "slot",
                           "count", "ready", "rm"}]
      /\ k' \in 1..2
  BY <1>0 DEF add_count, add_ready, NextAdd, Goto, IInv, TypeOK
<1>3. /\ sched_current_threads' \in 0 .. THREAD_QUEUE_SIZE
      /\ sched_current_threads' < THREAD_QUEUE_SIZE
      /\ sched_current_threads' > 1 => thread_queue[1] = INIT
  BY <1>0 DEF add_count, add_ready, At, IInv, TypeOK, Window, Residents, Queued
<1>4. TypeOK' /\ Slices' /\ BeforeBoot'
  BY <1>0, <1>1, <1>2, <1>3 DEF IInv, TypeOK, Slices, BeforeBoot
<1>5. Residents'
  BY <1>0, <1>1, <1>3 DEF IInv, Residents, Queued
<1>6. NeverSpins' /\ RunningIsCurrent'
  BY <1>0, <1>1 DEF IInv, NeverSpins, RunningIsCurrent, THREAD_READY, THREAD_RUNNING
<1>7. OneSlotEach'
  BY <1>0, <1>1 DEF IInv, OneSlotEach, Occupied, Queued
<1>8. \/ /\ pc[INIT] = "count" /\ pc'[INIT] = "ready" /\ k' = k
         /\ sched_current_threads' = sched_current_threads + 1
      \/ /\ pc[INIT] = "ready" /\ k' = 3 - k
         /\ pc'[INIT] = IF k = 1 THEN "add" ELSE "run"
         /\ sched_current_threads' = sched_current_threads
  BY <1>0 DEF add_count, add_ready, At, NextAdd, Goto, IInv, TypeOK
<1>9. Window'
  BY <1>0, <1>3, <1>8 DEF IInv, Window
<1>10. Fresh'
  <2>1. \A p \in Pids : Queued(p)' \/ state'[p] # THREAD_NULL => p < global_pid'
    BY <1>0, <1>1 DEF IInv, Fresh, Queued
  <2> QED BY <1>0, <1>8, <2>1 DEF IInv, Fresh, Queued, Absent
<1>11. SlotAccounting'
  BY <1>0, <1>8 DEF IInv, TypeOK, SlotAccounting, Occupied
<1> QED
  BY <1>4, <1>5, <1>6, <1>7, <1>9, <1>10, <1>11 DEF IInv

(***************************************************************************)
(* IInv is an invariant of the scheduler: it holds before boot and each    *)
(* action of sched.c, pit.c, syscall.c and shell.c preserves it.           *)
(***************************************************************************)
THEOREM Inductive == Spec => []IInv
<1>1. Init => IInv
  BY InitEstablishes
<1>2. IInv /\ [Next]_vars => IInv'
  <2> SUFFICES ASSUME IInv, [Next]_vars PROVE IInv'
    OBVIOUS
  <2>1. ASSUME NEW ri \in MkResults, NEW rk \in MkResults,
               sched_start_idle(ri, rk)
        PROVE  IInv'
    BY <2>1, BootKeeps
  <2>2. CASE idle_task \/ schedule_noirq \/ sched_rm_process
    BY <2>2, QuietStepsKeep
  <2>3. CASE pit_irq \/ post_schedule_noirq \/ syscall_exit
    BY <2>3, CallersKeep
  <2>4. CASE InitStep
    <3>1. CASE cmd_testmt \/ add_refused \/ add_check \/ syscall_exit_init
      BY <3>1, QuietStepsKeep
    <3>2. ASSUME NEW r \in MkResults, sched_mk_process(r) PROVE IInv'
      BY <3>2, MkKeeps
    <3>3. CASE add_slot
      BY <3>3, AddSlotKeeps
    <3>4. CASE add_count \/ add_ready
      BY <3>4, AddCountReadyKeep
    <3> QED BY <2>4, <3>1, <3>2, <3>3, <3>4 DEF InitStep
  <2>5. CASE Stopped \/ UNCHANGED vars
    <3>1. UNCHANGED vars
      BY <2>5 DEF Stopped
    <3> QED
      BY <3>1
      DEF vars, IInv, TypeOK, BeforeBoot, Residents, Slices, Window, Fresh,
          Absent, Queued, Occupied, NeverSpins, RunningIsCurrent, OneSlotEach,
          SlotAccounting
  <2> QED BY <2>1, <2>2, <2>3, <2>4, <2>5 DEF Next
<1> QED BY <1>1, <1>2, PTL DEF Spec

(***************************************************************************)
(* Every variable keeps its type; in particular neither sched_next nor     *)
(* sched_current_threads leaves the queue, and no slice counter exceeds    *)
(* MAX_PROC_TIME + 1.                                                      *)
(***************************************************************************)
THEOREM TypeCorrect == Spec => []TypeOK
BY Inductive, PTL DEF IInv

(***************************************************************************)
(* The endless loop of sched_select always ends (sched.c:217-226), however *)
(* many threads have exited.                                               *)
(***************************************************************************)
THEOREM SelectTerminates == Spec => []NeverSpins
BY Inductive, PTL DEF IInv

(***************************************************************************)
(* At most the current thread is marked as running (sched.c:317-326).      *)
(***************************************************************************)
THEOREM RunningCorrect == Spec => []RunningIsCurrent
BY Inductive, PTL DEF IInv

(***************************************************************************)
(* The thread counter agrees with the queue, and no thread is queued twice *)
(* or lost, although sched_add_process can be pre-empted between its       *)
(* stores (sched.c:43-60).                                                 *)
(***************************************************************************)
THEOREM AccountingCorrect == Spec => [](SlotAccounting /\ OneSlotEach)
BY Inductive, PTL DEF IInv

(***************************************************************************)
(* The queue has an empty slot at all times: so the removal loop of        *)
(* sched_rm_process (sched.c:98-103), if it is ever reached, reads through *)
(* a null pointer.                                                         *)
(***************************************************************************)
THEOREM NeverFull == Spec => []QueueNeverFull
<1>1. IInv => QueueNeverFull
  <2> SUFFICES ASSUME IInv, Occupied = Slots PROVE FALSE
    BY DEF QueueNeverFull
  <2>1. Cardinality(Slots) = THREAD_QUEUE_SIZE
    BY SchedAssumption, FS_Interval DEF Slots
  <2>2. Cardinality(Occupied) < THREAD_QUEUE_SIZE
    BY SchedAssumption DEF IInv, TypeOK, SlotAccounting, Window
  <2> QED BY <2>1, <2>2, SchedAssumption
<1> QED BY <1>1, Inductive, PTL

(***************************************************************************)
(* The arithmetic of the turn: when slot j is taken, every later slot of   *)
(* the round comes closer.                                                 *)
(***************************************************************************)
LEMMA TurnDecreases ==
    ASSUME sched_next \in 0 .. THREAD_QUEUE_SIZE,
           NEW i \in Slots, NEW j \in Slots, i # j,
           Turn(j) <= Turn(i), sched_next' = j + 1
    PROVE  Turn(i)' < Turn(i)
BY SchedAssumption DEF Turn, Start, Slots

(* A switch of sched_select brings every other acceptable slot closer to its *)
(* turn, or chooses it.                                                    *)
LEMMA SwitchCloser ==
    ASSUME TypeOK, NEW STATE st, NEW STATE tu, Switch(st, tu),
           \A p \in Pids \ {current} : st[p] = state[p],
           UNCHANGED <<thread_queue, sched_current_threads>>
    PROVE  \A i \in Slots :
              (Acceptable(i, state) /\ thread_queue[i] # current) =>
                  current' = thread_queue[i] \/ Turn(i)' < Turn(i)
<1> SUFFICES ASSUME NEW i \in Slots, Acceptable(i, state),
                    thread_queue[i] # current
             PROVE  current' = thread_queue[i] \/ Turn(i)' < Turn(i)
  OBVIOUS
<1>1. Acceptable(i, st)
  BY DEF Acceptable, TypeOK
<1>2. PICK j \in Slots : /\ Selects(j, st)
                         /\ sched_next' = j + 1
                         /\ current' = thread_queue[j]
  BY <1>1 DEF Switch
<1>3. Turn(j) <= Turn(i)
  BY <1>1, <1>2 DEF Selects
<1> QED BY <1>2, <1>3, TurnDecreases DEF TypeOK

(* The same of every call of sched_schedule that gives a new slice. *)
LEMMA ScheduleCloser ==
    ASSUME IInv, current # None, NEW STATE st, NEW STATE tu,
           CalledWith(st, tu),
           can_schedule \/ (st = state /\ tu = time_used),
           sched_schedule(st, tu),
           UNCHANGED <<thread_queue, sched_current_threads>>
    PROVE  ComesCloser
<1>0. current \in Pids /\ TypeOK /\ \A p \in Pids \ {current} : st[p] = state[p]
  BY DEF IInv, TypeOK, CalledWith
<1>1. CASE ~can_schedule
  BY <1>1 DEF sched_schedule, ComesCloser, NewSlice
<1>2. CASE can_schedule /\ st[current] = THREAD_ZOMBIE
  <2>1. Switch(st, tu)
    BY <1>2 DEF sched_schedule
  <2> QED BY <1>0, <2>1, SwitchCloser DEF ComesCloser
<1>3. CASE can_schedule /\ st[current] # THREAD_ZOMBIE /\ SliceLeft(tu)
  <2>1. time_used' = [tu EXCEPT ![current] = @ + 1] /\ current' = current
    BY <1>3 DEF sched_schedule
  <2>2. time_used'[current] # 0
    BY <1>0, <2>1, SchedAssumption DEF CalledWith
  <2> QED BY <2>1, <2>2 DEF ComesCloser, NewSlice
<1>4. CASE can_schedule /\ st[current] # THREAD_ZOMBIE /\ ~SliceLeft(tu)
  <2> DEFINE pst == Preempted(st)
             ptu == [tu EXCEPT ![current] = @ + 1]
  <2>1. Switch(pst, ptu)
    BY <1>4 DEF sched_schedule
  <2>2. \A p \in Pids \ {current} : pst[p] = state[p]
    BY <1>0 DEF Preempted, CalledWith
  <2> HIDE DEF pst, ptu
  <2> QED BY <1>0, <2>1, <2>2, SwitchCloser DEF ComesCloser
<1> QED BY <1>1, <1>2, <1>3, <1>4

(***************************************************************************)
(* sched_select is fair: no thread that it accepts is passed over by more  *)
(* than one round of the queue (sched.c:217-228).                          *)
(***************************************************************************)
THEOREM RoundRobinHolds == Spec => RoundRobin
<1>1. IInv /\ [Next]_vars => [ComesCloser]_vars
  <2> SUFFICES ASSUME IInv, Next PROVE ComesCloser
    OBVIOUS
  <2> USE SchedAssumption, IdlePid DEF queueVars, shellVars
  <2>0. /\ time_used \in [Pids -> 0 .. MAX_PROC_TIME + 1]
        /\ state \in [Pids -> THREAD_NULL .. THREAD_REMOVED]
        /\ current # None => current \in Pids /\ time_used[current] <= MAX_PROC_TIME
    BY DEF IInv, TypeOK, Slices
  <2>1. ASSUME NEW ri \in MkResults, NEW rk \in MkResults,
               sched_start_idle(ri, rk)
        PROVE  ComesCloser
    BY <2>1 DEF sched_start_idle, ComesCloser, NewSlice
  <2>2. CASE pit_irq \/ post_schedule_noirq
    <3>1. /\ current # None /\ sched_schedule(state, time_used)
          /\ UNCHANGED <<thread_queue, sched_current_threads>>
      BY <2>2 DEF pit_irq, post_schedule_noirq
    <3>2. CalledWith(state, time_used)
      BY <2>0, <3>1 DEF CalledWith
    <3> QED BY <3>1, <3>2, ScheduleCloser
  <2>3. CASE syscall_exit
    <3> DEFINE st == [state EXCEPT ![current] = THREAD_ZOMBIE]
               tu == [time_used EXCEPT ![current] = MAX_PROC_TIME]
    <3>1. /\ current \notin {None, IDLE, INIT} /\ sched_schedule(st, tu)
          /\ UNCHANGED <<thread_queue, sched_current_threads>>
          /\ can_schedule
      BY <2>3 DEF syscall_exit, IInv, Residents
    <3>2. CalledWith(st, tu)
      BY <2>0, <3>1 DEF CalledWith, THREAD_NULL, THREAD_REMOVED, THREAD_ZOMBIE
    <3> HIDE DEF st, tu
    <3> QED BY <3>1, <3>2, ScheduleCloser
  <2>4. CASE schedule_noirq
    BY <2>0, <2>4 DEF schedule_noirq, ComesCloser, NewSlice
  <2>5. ASSUME NEW r \in MkResults, sched_mk_process(r) PROVE ComesCloser
    <3>1. current' = current /\ current = INIT
      BY <2>5 DEF sched_mk_process, At
    <3>2. global_pid >= 2 /\ global_pid \in Nat
      BY <3>1 DEF IInv, TypeOK, Residents, Queued, INIT, None
    <3>3. time_used'[INIT] = time_used[INIT]
      BY <2>0, <2>5, <3>2 DEF sched_mk_process, INIT
    <3> QED BY <3>1, <3>3 DEF ComesCloser, NewSlice
  <2>6. CASE idle_task \/ cmd_testmt \/ add_refused \/ add_check \/ add_slot
             \/ add_count \/ add_ready \/ syscall_exit_init
             \/ sched_rm_process \/ Stopped
    BY <2>6
    DEF idle_task, cmd_testmt, add_refused, add_check, add_slot, add_count,
        add_ready, syscall_exit_init, sched_rm_process, Stopped, vars,
        ComesCloser, NewSlice
  <2> QED BY <2>1, <2>2, <2>3, <2>4, <2>5, <2>6 DEF Next, InitStep
<1> QED BY <1>1, Inductive, PTL DEF Spec, RoundRobin
=============================================================================
