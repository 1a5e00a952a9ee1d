------------------------------- MODULE Sched -------------------------------
(***************************************************************************)
(* The LevOS scheduler: kernel/sched.c, entered from the timer interrupt   *)
(* (arch/x86/pit.c), from int 0x2F (schedule_noirq) and from the exit      *)
(* system call (kernel/syscall.c), and fed by the shell command "testmt"   *)
(* (kernel/shell.c), the one place that creates threads after boot.        *)
(*                                                                         *)
(* Threads run with interrupts on, so a tick may fall between any two of   *)
(* their steps; interrupt and system-call handlers run with interrupts off *)
(* (every gate of arch/x86/idt.c is an interrupt gate) and are atomic.     *)
(*                                                                         *)
(* A process has exactly one thread (sched.c:161-169), so a thread is      *)
(* named by its pid: 0 is idle, 1 is init, which runs the shell, and the   *)
(* others are the workers p1 and p2 of each testmt.  The registers that a  *)
(* switch saves and restores are kept as pc, the step a thread resumes at. *)
(* sched_current_threads stands for sched_current_processes as well: they  *)
(* move together, and nothing reads the latter.                            *)
(***************************************************************************)
EXTENDS Integers, FiniteSets

CONSTANTS
    THREAD_QUEUE_SIZE,  \* sched.h:33
    MAX_PROC_TIME,      \* sched.h:46, ticks in a time slice
    MAX_PIDS            \* bound of the model: pids handed out in a behaviour

ASSUME SchedAssumption ==
    /\ THREAD_QUEUE_SIZE \in Nat /\ THREAD_QUEUE_SIZE > 2
    /\ MAX_PROC_TIME \in Nat \ {0}
    /\ MAX_PIDS \in Nat /\ MAX_PIDS >= 2

VARIABLES
    thread_queue,           \* slot -> the thread in it, or None
    sched_next,             \* the slot sched_select looks at first
    sched_current_threads,
    can_schedule,
    global_pid,             \* the next pid to hand out
    current,                \* the running thread, None before boot
    state,                  \* thread -> THREAD_*
    time_used,              \* thread -> ticks of its slice used so far
    pc,                     \* thread -> the step it executes, or resumes at
    testmt,                 \* the statics p1 and p2 of cmd_testmt
    k,                      \* which of the two cmd_testmt is working on
    halted                  \* why the machine has stopped, "no" if it has not

vars == <<thread_queue, sched_next, sched_current_threads, can_schedule,
          global_pid, current, state, time_used, pc, testmt, k, halted>>

queueVars == <<thread_queue, sched_current_threads>>
shellVars == <<global_pid, testmt, k>>

Slots == 0 .. THREAD_QUEUE_SIZE - 1
Pids  == 0 .. MAX_PIDS - 1
None  == -1
IDLE  == 0
INIT  == 1

THREAD_NULL      == 0
THREAD_RUNNING   == 1
THREAD_PREEMPTED == 2
THREAD_READY     == 3
THREAD_ZOMBIE    == 4
THREAD_REMOVED   == 5

Occupied == {i \in Slots : thread_queue[i] # None}

Queued(p) == \E i \in Slots : thread_queue[i] = p

(***************************************************************************)
(* The machine at the call of sched_start_idle, sched_init having run.     *)
(***************************************************************************)
Init ==
    /\ thread_queue = [i \in Slots |-> None]
    /\ sched_next = 0
    /\ sched_current_threads = 0
    /\ can_schedule = FALSE
    /\ global_pid = 0
    /\ current = None
    /\ state = [p \in Pids |-> THREAD_NULL]
    /\ time_used = [p \in Pids |-> 0]
    /\ pc = [p \in Pids |-> IF p = IDLE THEN "entry" ELSE "run"]
    /\ testmt = [j \in 1..2 |-> None]
    /\ k = 1
    /\ halted = "no"

-----------------------------------------------------------------------------
(***************************************************************************)
(* sched_select and the switch to the thread it returns.  The loop starts  *)
(* at sched_next and goes round the queue, so it returns the first         *)
(* acceptable slot in the order of Turn.  When no slot is acceptable the   *)
(* loop never ends, with interrupts off.                                   *)
(***************************************************************************)
Start == IF sched_next >= THREAD_QUEUE_SIZE THEN 0 ELSE sched_next

Turn(i) == IF i >= Start THEN i - Start ELSE i - Start + THREAD_QUEUE_SIZE

Acceptable_NoIdle(i, st) ==
    LET next == thread_queue[i] IN
    next \notin {None, IDLE} /\ st[next] # THREAD_ZOMBIE

Acceptable(i, st) ==
    LET next == thread_queue[i] IN
    /\ next # None
    /\ st[next] # THREAD_ZOMBIE
    /\ ~(next = IDLE /\ sched_current_threads > 1)

Selects_FromSlotZero(i, st) ==
    /\ Acceptable(i, st)
    /\ \A j \in Slots : Acceptable(j, st) => i <= j

Selects(i, st) ==
    /\ Acceptable(i, st)
    /\ \A j \in Slots : Acceptable(j, st) => Turn(i) <= Turn(j)

Switch(st, tu) ==
    IF \E i \in Slots : Acceptable(i, st)
    THEN \E i \in Slots :
            /\ Selects(i, st)
            /\ sched_next' = i + 1
            /\ current' = thread_queue[i]
            /\ time_used' = [tu EXCEPT ![thread_queue[i]] = 0]
            /\ state' = [st EXCEPT ![thread_queue[i]] = THREAD_RUNNING]
            /\ UNCHANGED halted
    ELSE /\ halted' = "spin"
         /\ state' = st
         /\ time_used' = tu
         /\ UNCHANGED <<sched_next, current>>

(***************************************************************************)
(* sched_schedule, called with the thread states st and the slice counters *)
(* tu.  sched_destroy_process, which it calls on a zombie, does nothing.   *)
(***************************************************************************)
SliceLeft(tu) == tu[current] + 1 < MAX_PROC_TIME

Preempted(st) == [st EXCEPT ![current] = THREAD_PREEMPTED]

sched_schedule(st, tu) ==
    IF ~can_schedule
    THEN /\ state' = st
         /\ time_used' = tu
         /\ UNCHANGED <<sched_next, current, halted>>
    ELSE IF st[current] = THREAD_ZOMBIE
    THEN Switch(st, tu)
    ELSE IF SliceLeft(tu)
    THEN /\ state' = st
         /\ time_used' = [tu EXCEPT ![current] = @ + 1]
         /\ UNCHANGED <<sched_next, current, halted>>
    ELSE Switch(Preempted(st), [tu EXCEPT ![current] = @ + 1])

-----------------------------------------------------------------------------
(***************************************************************************)
(* What the current thread does, one action per step that a tick can       *)
(* separate from the next.                                                 *)
(***************************************************************************)
At(p, l) == halted = "no" /\ current = p /\ pc[p] = l

Goto(p, l) == pc' = [pc EXCEPT ![p] = l]

(***************************************************************************)
(* The early returns of sched_mk_process: at a kmalloc, before a pid is    *)
(* taken, or at the stack, after it.  (Neither kmalloc nor mm_alloc_pages  *)
(* returns NULL as they are; the scheduler does not rely on it.)           *)
(***************************************************************************)
MkResults == {"ok", "no_memory", "no_stack"}

PidTaken(r) == IF r = "no_memory" THEN 0 ELSE 1

Made(r, pid) == IF r = "ok" THEN pid ELSE None

(***************************************************************************)
(* sched_start_idle, with interrupts off.  Failing to make idle is a read  *)
(* through a null pointer; failing to make init is not noticed.            *)
(***************************************************************************)
sched_start_idle(ri, rk) ==
    LET idle  == Made(ri, 0)
        kinit == Made(rk, PidTaken(ri))
        added == {p \in {idle, kinit} : p # None}
    IN  /\ halted = "no"
        /\ current = None
        /\ IF idle = None
           THEN /\ halted' = "page_fault"
                /\ global_pid' = PidTaken(ri)
                /\ UNCHANGED <<queueVars, sched_next, can_schedule, current,
                               state, time_used, pc, testmt, k>>
           ELSE /\ thread_queue' = [i \in Slots |->
                       IF i = 0 THEN idle ELSE IF i = 1 THEN kinit ELSE None]
                /\ sched_current_threads' = Cardinality(added)
                /\ global_pid' = PidTaken(ri) + PidTaken(rk)
                /\ current' = idle
                /\ state' = [p \in Pids |->
                       IF p \in added THEN THREAD_READY ELSE THREAD_NULL]
                /\ UNCHANGED <<sched_next, can_schedule, time_used, pc,
                               testmt, k, halted>>

(* The start of idle_task, up to its loop. *)
idle_task ==
    /\ At(IDLE, "entry")
    /\ can_schedule' = TRUE
    /\ Goto(IDLE, "run")
    /\ UNCHANGED <<queueVars, sched_next, current, state, time_used,
                   shellVars, halted>>

(* The timer interrupt.  A thread that resumes inside the exit system call *)
(* runs with interrupts off.                                               *)
pit_irq ==
    /\ halted = "no"
    /\ current # None
    /\ pc[current] # "rm"
    /\ sched_schedule(state, time_used)
    /\ UNCHANGED <<queueVars, can_schedule, shellVars, pc>>

(***************************************************************************)
(* schedule_noirq.  idle does nothing else, the shell does it while there  *)
(* is no input, a worker now and then.                                     *)
(***************************************************************************)
schedule_noirq ==
    /\ current # None
    /\ At(current, "run")
    /\ time_used' = [time_used EXCEPT ![current] = MAX_PROC_TIME]
    /\ Goto(current, "volunteer")
    /\ UNCHANGED <<queueVars, sched_next, can_schedule, current, state,
                   shellVars, halted>>

post_schedule_noirq ==
    /\ current # None
    /\ At(current, "volunteer")
    /\ Goto(current, "run")
    /\ sched_schedule(state, time_used)
    /\ UNCHANGED <<queueVars, can_schedule, shellVars>>

(***************************************************************************)
(* The shell command testmt: make p1, make p2, add p1, add p2.  Neither a  *)
(* failed sched_mk_process nor a failed sched_add_process stops it.        *)
(***************************************************************************)
cmd_testmt ==
    /\ At(INIT, "run")
    /\ global_pid + 2 <= MAX_PIDS
    /\ k' = 1
    /\ Goto(INIT, "mk")
    /\ UNCHANGED <<queueVars, sched_next, can_schedule, current, state,
                   time_used, global_pid, testmt, halted>>

sched_mk_process(r) ==
    /\ At(INIT, "mk")
    /\ testmt' = [testmt EXCEPT ![k] = Made(r, global_pid)]
    /\ global_pid' = global_pid + PidTaken(r)
    /\ state' = [state EXCEPT ![global_pid] = THREAD_NULL]
    /\ time_used' = [time_used EXCEPT ![global_pid] = 0]
    /\ k' = 3 - k
    /\ Goto(INIT, IF k = 1 THEN "mk" ELSE "add")
    /\ UNCHANGED <<queueVars, sched_next, can_schedule, current, halted>>

(* Back in cmd_testmt from a sched_add_process. *)
NextAdd_SameProcess ==
    /\ k' = k
    /\ Goto(INIT, IF k = 1 THEN "add" ELSE "run")

NextAdd ==
    /\ k' = 3 - k
    /\ Goto(INIT, IF k = 1 THEN "add" ELSE "run")

NoRoom_OffByOne == sched_current_threads + 1 > THREAD_QUEUE_SIZE

NoRoom == sched_current_threads + 1 >= THREAD_QUEUE_SIZE

add_refused ==
    /\ At(INIT, "add")
    /\ testmt[k] = None \/ NoRoom
    /\ NextAdd
    /\ UNCHANGED <<queueVars, sched_next, can_schedule, current, state,
                   time_used, global_pid, testmt, halted>>

add_check ==
    /\ At(INIT, "add")
    /\ testmt[k] # None /\ ~NoRoom
    /\ Goto(INIT, "slot")
    /\ UNCHANGED <<queueVars, sched_next, can_schedule, current, state,
                   time_used, shellVars, halted>>

FirstFree_Slot0(i) == i = 0

FirstFree(i) ==
    /\ thread_queue[i] = None
    /\ \A j \in Slots : j < i => thread_queue[j] # None

add_slot ==
    /\ At(INIT, "slot")
    /\ \E i \in Slots :
          /\ FirstFree(i)
          /\ thread_queue' = [thread_queue EXCEPT ![i] = testmt[k]]
    /\ Goto(INIT, "count")
    /\ UNCHANGED <<sched_current_threads, sched_next, can_schedule, current,
                   state, time_used, shellVars, halted>>

add_count ==
    /\ At(INIT, "count")
    /\ sched_current_threads' = sched_current_threads + 1
    /\ Goto(INIT, "ready")
    /\ UNCHANGED <<thread_queue, sched_next, can_schedule, current, state,
                   time_used, shellVars, halted>>

add_ready ==
    /\ At(INIT, "ready")
    /\ state' = [state EXCEPT ![testmt[k]] = THREAD_READY]
    /\ NextAdd
    /\ UNCHANGED <<queueVars, sched_next, can_schedule, current, time_used,
                   global_pid, testmt, halted>>

(***************************************************************************)
(* The exit system call of a worker: sched_rm_process marks it a zombie    *)
(* and switches away, so its removal loop comes after the switch.  That of *)
(* the shell ("exit") is a panic.                                          *)
(***************************************************************************)
syscall_exit_init ==
    /\ At(INIT, "run")
    /\ halted' = "init_killed"
    /\ UNCHANGED <<queueVars, sched_next, can_schedule, current, state,
                   time_used, shellVars, pc>>

syscall_exit ==
    /\ current \notin {None, IDLE, INIT}
    /\ At(current, "run")
    /\ Goto(current, "rm")
    /\ sched_schedule([state EXCEPT ![current] = THREAD_ZOMBIE],
                      [time_used EXCEPT ![current] = MAX_PROC_TIME])
    /\ UNCHANGED <<queueVars, can_schedule, shellVars>>

(* The removal loop, had its thread been switched back to.  It reads       *)
(* through every slot, the empty ones included; a full queue would let it  *)
(* end (QueueNeverFull says that there is no full queue).                  *)
sched_rm_process ==
    /\ current # None
    /\ At(current, "rm")
    /\ \E i \in Slots : thread_queue[i] = None
    /\ halted' = "page_fault"
    /\ UNCHANGED <<queueVars, sched_next, can_schedule, current, state,
                   time_used, shellVars, pc>>

(* panic() and an endless sched_select never return. *)
Stopped == halted # "no" /\ UNCHANGED vars

InitStep ==
    \/ cmd_testmt
    \/ \E r \in MkResults : sched_mk_process(r)
    \/ add_refused
    \/ add_check
    \/ add_slot
    \/ add_count
    \/ add_ready
    \/ syscall_exit_init

Next ==
    \/ \E ri, rk \in MkResults : sched_start_idle(ri, rk)
    \/ idle_task
    \/ pit_irq
    \/ schedule_noirq
    \/ post_schedule_noirq
    \/ InitStep
    \/ syscall_exit
    \/ sched_rm_process
    \/ Stopped

Spec == Init /\ [][Next]_vars

AddStep == add_refused \/ add_check \/ add_slot \/ add_count \/ add_ready

(***************************************************************************)
(* The timer keeps ticking, the code at the start of idle and the removal  *)
(* loop, which nothing can interrupt or pre-empt for good, is executed,    *)
(* and a thread in sched_add_process that is given the processor again and *)
(* again executes its next instruction at some time.                       *)
(***************************************************************************)
Fairness ==
    /\ WF_vars(\E ri, rk \in MkResults : sched_start_idle(ri, rk))
    /\ WF_vars(idle_task)
    /\ WF_vars(pit_irq)
    /\ WF_vars(sched_rm_process)
    /\ SF_vars(AddStep)

FairSpec == Spec /\ Fairness

-----------------------------------------------------------------------------
TypeOK ==
    /\ thread_queue \in [Slots -> Pids \cup {None}]
    /\ sched_next \in 0 .. THREAD_QUEUE_SIZE
    /\ sched_current_threads \in 0 .. THREAD_QUEUE_SIZE
    /\ can_schedule \in BOOLEAN
    /\ global_pid \in 0 .. MAX_PIDS
    /\ current \in Pids \cup {None}
    /\ state \in [Pids -> THREAD_NULL .. THREAD_REMOVED]
    /\ time_used \in [Pids -> 0 .. MAX_PROC_TIME + 1]
    /\ pc \in [Pids -> {"entry", "run", "volunteer", "mk", "add", "slot",
                        "count", "ready", "rm"}]
    /\ testmt \in [1..2 -> Pids \cup {None}]
    /\ k \in 1..2
    /\ halted \in {"no", "page_fault", "init_killed", "spin"}

(***************************************************************************)
(* The loop of sched_select always ends: whatever has exited, and at every *)
(* step of an addition, it meets a thread that it accepts.                 *)
(***************************************************************************)
NeverSpins == halted # "spin"

(***************************************************************************)
(* THREAD_RUNNING marks the one thread that has the processor.  A thread   *)
(* that runs is marked, except idle, which boot starts as THREAD_READY.    *)
(***************************************************************************)
RunningIsCurrent ==
    /\ \A p \in Pids : state[p] = THREAD_RUNNING => p = current
    /\ (can_schedule /\ current # IDLE /\ halted = "no") =>
          state[current] = THREAD_RUNNING

(***************************************************************************)
(* sched_current_threads, on which both the admission test and the choice  *)
(* of idle rest, is the number of occupied slots, except between the two   *)
(* stores of sched_add_process, when it is one less.                       *)
(***************************************************************************)
SlotAccounting ==
    Cardinality(Occupied) =
        sched_current_threads + (IF pc[INIT] = "count" THEN 1 ELSE 0)

(***************************************************************************)
(* No thread is in two slots, and none that was ever made ready or run has *)
(* dropped out of the queue.                                               *)
(***************************************************************************)
OneSlotEach ==
    /\ \A i, j \in Occupied : thread_queue[i] = thread_queue[j] => i = j
    /\ \A p \in Pids : state[p] # THREAD_NULL => Queued(p)

(***************************************************************************)
(* The admission test (sched.c:43) leaves a slot empty, always.            *)
(***************************************************************************)
QueueNeverFull == Occupied # Slots

(***************************************************************************)
(* Round robin, as the step that makes it so: whenever a thread is given a *)
(* new slice (by sched_select), every other thread that it would accept is *)
(* chosen or comes closer to its turn, so at most THREAD_QUEUE_SIZE        *)
(* switches pass a thread over.                                            *)
(***************************************************************************)
NewSlice ==
    /\ current # None
    /\ time_used'[current'] = 0
    /\ current' # current \/ time_used'[current'] # time_used[current']

ComesCloser ==
    NewSlice =>
        \A i \in Slots :
            (Acceptable(i, state) /\ thread_queue[i] # current) =>
                \/ current' = thread_queue[i]
                \/ Turn(i)' < Turn(i)

RoundRobin == [][ComesCloser]_vars

(***************************************************************************)
(* A thread in the queue that has not exited runs again.                   *)
(***************************************************************************)
StarvationFree ==
    \A p \in Pids \ {IDLE} :
        (Queued(p) /\ state[p] # THREAD_ZOMBIE) ~> (current = p \/ halted # "no")

(***************************************************************************)
(* cmd_testmt gets through its two additions and the shell is back.        *)
(***************************************************************************)
AddCompletes ==
    (pc[INIT] = "add") ~> (pc[INIT] = "run" \/ halted # "no")

(***************************************************************************)
(* The inductive invariant, in parts.  Residents: idle and init keep their *)
(* slots and never exit, which is why sched_select ends, and the current   *)
(* thread is in the queue.  Slices: a thread that runs has not used more   *)
(* than its slice.  Window: what is known at each step of cmd_testmt.      *)
(* Fresh: the threads not yet stored in the queue are not in it.           *)
(***************************************************************************)
BeforeBoot ==
    current = None =>
        /\ \A i \in Slots : thread_queue[i] = None
        /\ sched_current_threads = 0
        /\ \A p \in Pids : state[p] = THREAD_NULL /\ time_used[p] = 0
        /\ \A j \in 1..2 : testmt[j] = None
        /\ pc[INIT] = "run"

Residents ==
    /\ current # None => thread_queue[0] = IDLE /\ Queued(current)
    /\ sched_current_threads > 1 => thread_queue[1] = INIT
    /\ \A i \in Slots : thread_queue[i] = INIT => i = 1 /\ global_pid >= 2
    /\ state[IDLE] # THREAD_ZOMBIE
    /\ state[INIT] # THREAD_ZOMBIE
    /\ ~can_schedule => current \in {None, IDLE}

Slices == current # None => time_used[current] <= MAX_PROC_TIME

Window ==
    /\ \A j \in 1..2 : testmt[j] # None => 2 <= testmt[j] /\ testmt[j] < global_pid
    /\ pc[INIT] = "mk" => global_pid + 3 - k <= MAX_PIDS
    /\ pc[INIT] \in {"slot", "count", "ready"} => testmt[k] # None
    /\ pc[INIT] \in {"slot", "count"} =>
          sched_current_threads + 1 < THREAD_QUEUE_SIZE
    /\ sched_current_threads < THREAD_QUEUE_SIZE

Absent(p) == p # None => ~Queued(p)

Fresh ==
    /\ \A p \in Pids : Queued(p) \/ state[p] # THREAD_NULL => p < global_pid
    /\ (pc[INIT] = "mk" /\ k = 2) => Absent(testmt[1])
    /\ pc[INIT] \in {"add", "slot"} => Absent(testmt[k])
    /\ (pc[INIT] \in {"add", "slot", "count", "ready"} /\ k = 1) =>
          /\ Absent(testmt[2])
          /\ testmt[1] = testmt[2] => testmt[2] = None
    /\ pc[INIT] \in {"count", "ready"} => Queued(testmt[k])

IInv ==
    /\ TypeOK
    /\ BeforeBoot
    /\ Residents
    /\ Slices
    /\ Window
    /\ Fresh
    /\ NeverSpins
    /\ RunningIsCurrent
    /\ OneSlotEach
    /\ SlotAccounting
=============================================================================
