------------------------------ MODULE Context ------------------------------
(***************************************************************************)
(* How an interrupt leaves a thread and how the thread goes on: the entry  *)
(* and exit code of DEF_IRQ_HANDLER (include/levos/x86.h), the copy of the *)
(* registers that save_pre_irq_regs takes, and the frame that              *)
(* arch_sched_setup_stack (arch/x86/sched.c) builds for the popal and      *)
(* iretl of ARCH_SWITCH_CONTEXT.                                           *)
(*                                                                         *)
(* A handler runs with interrupts off, so it is one action, whichever way  *)
(* it ends: through its epilogue, by a switch to another thread, or, for a *)
(* system call, by a switch to its own thread.  A stack is the sequence of *)
(* its words, the deepest first, and a stack pointer is the number of      *)
(* words; what lies below the stack pointer is lost.  Which thread is      *)
(* chosen is the subject of Sched, and any may be chosen here.             *)
(***************************************************************************)
EXTENDS Sequences, SequencesExt, Integers

CONSTANTS Main, Thread, Version, MaxDepth,
    idle, init      \* the first two threads

ASSUME ContextAssumption ==
    /\ {idle, init} \subseteq Thread /\ idle # init /\ Main \notin Thread
    /\ MaxDepth \in Nat

VARIABLES
    current,    \* the thread that runs, Main before there is one
    cpu,        \* the registers of the processor, without esp
    mem,        \* the words on the stack of Main and of each thread
    r,          \* struct pt_regs of each thread that was made
    exited,     \* threads that called exit
    halted

vars == <<current, cpu, mem, r, exited, halted>>

-----------------------------------------------------------------------------
(* The registers that a thread goes on with if it is chosen. *)
RegsOf(t) == IF t = current THEN cpu ELSE [f \in DOMAIN cpu |-> r[t][f]]

Junk == <<"junk">>

(* The words of stack s up to a stack pointer. *)
UpTo(s, esp) == [i \in 1 .. esp |-> IF i <= Len(s) THEN s[i] ELSE Junk]

StackOf(t) == IF t = current THEN mem[t] ELSE UpTo(mem[t], r[t].esp)

Alive == ({current} \cup DOMAIN r) \ exited

Abstract == INSTANCE Threads WITH
    running <- current,
    regs <- [t \in Alive |-> RegsOf(t)],
    stack <- [t \in Alive |-> StackOf(t)]

Registers == Abstract!Registers
-----------------------------------------------------------------------------
(***************************************************************************)
(* Entry.  The processor pushes three words, pushal eight, and the         *)
(* prologue two more; the words are then read back as a struct pt_regs,    *)
(* whose first field lies at the lowest address.                           *)
(***************************************************************************)
PUSHAL == <<"eax", "ecx", "edx", "ebx", "esp", "ebp", "esi", "edi">>

pt_regs == <<"magic", "cr3", "edi", "esi", "ebp", "esp", "ebx", "edx", "ecx",
             "eax", "eip", "cs", "eflags">>

MAGIC == <<"0x13371337">>

Pushed(c, esp) == [i \in DOMAIN PUSHAL |->
                      IF PUSHAL[i] = "esp" THEN <<"esp", esp>> ELSE c[PUSHAL[i]]]

(* The stack s of an interrupted thread with registers c; extra is what    *)
(* has been pushed before the prologue of DEF_IRQ_HANDLER is reached.      *)
Interrupted(s, c, extra) == s \o <<c["eflags"], c["cs"], c["eip"]>> \o extra

Prologue_MagicFirst(c) == <<MAGIC, c["cr3"]>>

Prologue(c) == <<c["cr3"], MAGIC>>

Frame(s, c, extra) ==
    LET at == Interrupted(s, c, extra) IN at \o Pushed(c, Len(at)) \o Prologue(c)

(* pre_pushal_esp + 12: without the three words of the processor. *)
PreIrqEsp(pre_pushal_esp) == pre_pushal_esp - 3

save_pre_irq_regs(s, c, extra) ==
    LET frame == Frame(s, c, extra) IN
    [f \in Range(pt_regs) |->
        IF f = "esp" THEN PreIrqEsp(Len(Interrupted(s, c, extra)))
        ELSE frame[Len(frame) + 1 - CHOOSE i \in DOMAIN pt_regs : pt_regs[i] = f]]

-----------------------------------------------------------------------------
(***************************************************************************)
(* Exit.  popal takes eight words and leaves esp alone, iretl three.       *)
(***************************************************************************)
Popped(s, cr3) ==
    LET word(i) == s[Len(s) + 1 - i]
        pops == Reverse(PUSHAL) \o <<"eip", "cs", "eflags">>
    IN  [f \in Registers |-> IF f = "cr3" THEN cr3
                             ELSE word(CHOOSE i \in DOMAIN pops : pops[i] = f)]

AfterIret(s) == SubSeq(s, 1, Len(s) - 11)

(* The epilogue: two words into eax, popal, iretl. *)
Epilogue(frame) == SubSeq(frame, 1, Len(frame) - 2)

arch_sched_setup_stack(s, p) ==
    UpTo(s, p.esp) \o
    <<p.eflags, p.cs, p.eip, p.eax, p.ecx, p.edx, p.ebx,
      <<"esp", p.esp + 3>>, p.ebp, p.esi, p.edi>>

(***************************************************************************)
(* The address space: arch_sched_setup_address_space loads the page        *)
(* directory of the process, a copy of the kernel's, and                   *)
(* ARCH_SWITCH_CONTEXT then loads the one that was in use when the thread  *)
(* was made or interrupted.                                                *)
(***************************************************************************)
PageDir(t) == <<t, "page_dir">>

SwitchedCr3(t, p) == p.cr3

(* Thread t goes on with the registers p; m are the stacks, and saved the  *)
(* structs pt_regs, as the handler has left them.                          *)
ARCH_SWITCH_CONTEXT(t, p, m, saved) ==
    LET s == arch_sched_setup_stack(m[t], p) IN
    /\ current' = t
    /\ cpu' = Popped(s, SwitchedCr3(t, p))
    /\ mem' = [m EXCEPT ![t] = AfterIret(s)]
    /\ r' = [saved EXCEPT ![t] = [p EXCEPT !.esp = Len(s)]]

-----------------------------------------------------------------------------
Init ==
    /\ current = Main
    /\ cpu = [f \in Registers |->
                CASE f = "cr3" -> <<"kernel_dir">>
                  [] f = "cs" -> <<"0x8">>
                  [] OTHER -> <<Main, f>>]
    /\ mem = [t \in {Main} |-> <<>>]
    /\ r = [t \in {} |-> cpu]
    /\ exited = {}
    /\ halted = "no"

Up == halted = "no"

(* The code of the running thread. *)
Compute(v) ==
    /\ Up
    /\ cpu' = Abstract!Computed(current, cpu, v)
    /\ \E s \in Abstract!StackAfter(current, mem[current], v) :
          mem' = [mem EXCEPT ![current] = s]
    /\ UNCHANGED <<current, r, exited, halted>>

Saved(extra) == save_pre_irq_regs(mem[current], cpu, extra)

(* Nothing is saved while there is no current thread. *)
SavedAll(extra) ==
    IF current = Main THEN r ELSE [r EXCEPT ![current] = Saved(extra)]

(* save_pre_irq_regs panics if the word it takes for the magic is not. *)
MagicCheck(p) == IF p.magic = MAGIC THEN "no" ELSE "magic"

(* An interrupt that comes back to the thread it interrupted: the keyboard *)
(* or disk, or a tick while the thread has time left, or before the        *)
(* scheduler is on.                                                        *)
irq_return ==
    /\ Up /\ halted' = MagicCheck(Saved(<<>>))
    /\ LET s == Epilogue(Frame(mem[current], cpu, <<>>)) IN
          /\ cpu' = Popped(s, cpu["cr3"])
          /\ mem' = [mem EXCEPT ![current] = AfterIret(s)]
    /\ r' = SavedAll(<<>>)
    /\ UNCHANGED <<current, exited>>

(* The thread chosen may be the one that is left. *)
Runnable == DOMAIN r \ exited

sched_schedule(extra) ==
    /\ Up /\ current # Main /\ halted' = MagicCheck(Saved(extra))
    /\ LET saved == SavedAll(extra) IN
          \E t \in Runnable : ARCH_SWITCH_CONTEXT(t, saved[t], mem, saved)
    /\ UNCHANGED exited

pit_irq == sched_schedule(<<>>)

(* int 0x2F enters post_schedule_noirq, which the compiler turns into a    *)
(* jump to the handler: no return address is pushed.                       *)
TailCall_ReturnAddress == <<<<"return">>>>

TailCall == <<>>

post_schedule_noirq == sched_schedule(TailCall)

(* int 0x80, for every call but exit. *)
syscall_hub(v) ==
    /\ Up /\ current # Main /\ halted' = MagicCheck(Saved(<<>>))
    /\ LET p == [Saved(<<>>) EXCEPT !.eax = Abstract!Result(v)] IN
          ARCH_SWITCH_CONTEXT(current, p, mem, r)
    /\ UNCHANGED exited

(***************************************************************************)
(* exit yields inside of the system call: a second frame, with the         *)
(* registers of the handler, on top of the first.                          *)
(***************************************************************************)
InHandler == [f \in Registers |-> IF f = "cr3" THEN cpu["cr3"] ELSE <<"handler", f>>]

syscall_exit ==
    LET inner == save_pre_irq_regs(Frame(mem[current], cpu, <<>>), InHandler, TailCall)
        saved == [r EXCEPT ![current] = inner]
    IN
    /\ Up /\ current \in Thread \ {idle, init}
    /\ halted' = IF MagicCheck(Saved(<<>>)) = "no" THEN MagicCheck(inner) ELSE "magic"
    /\ exited' = exited \cup {current}
    /\ \E t \in Runnable \ {current} : ARCH_SWITCH_CONTEXT(t, saved[t], mem, saved)

(* The fields of a struct pt_regs. *)
Fields == Registers \cup {"esp", "magic"}

(* arch_sched_mk_initial_regs, INS_PTR and THREAD_STACK_SET. *)
sched_mk_process(t) ==
    [f \in Fields |->
        CASE f = "esp" -> 0 [] f = "magic" -> <<"zero">> [] OTHER -> Abstract!Fresh(t, cpu)[f]]

MakeAll(new) ==
    [t \in DOMAIN r \cup new |-> IF t \in new THEN sched_mk_process(t) ELSE r[t]]

WithStacks(new) ==
    [t \in DOMAIN mem \cup new |-> IF t \in new THEN <<>> ELSE mem[t]]

sched_start_idle ==
    /\ Up /\ current = Main
    /\ ARCH_SWITCH_CONTEXT(idle, sched_mk_process(idle),
                           WithStacks({idle, init}), MakeAll({idle, init}))
    /\ UNCHANGED <<exited, halted>>

cmd_testmt(t) ==
    /\ Up /\ current = init /\ t \in Thread \ DOMAIN r
    /\ r' = MakeAll({t}) /\ mem' = WithStacks({t})
    /\ UNCHANGED <<current, cpu, exited, halted>>

Next ==
    \/ \E v \in Version : Compute(v) \/ syscall_hub(v)
    \/ irq_return \/ pit_irq \/ post_schedule_noirq
    \/ syscall_exit
    \/ sched_start_idle \/ \E t \in Thread : cmd_testmt(t)

Spec == Init /\ [][Next]_vars

-----------------------------------------------------------------------------
TypeOK ==
    /\ current \in DOMAIN mem
    /\ DOMAIN cpu = Registers
    /\ DOMAIN r \subseteq Thread /\ DOMAIN mem = DOMAIN r \cup {Main}
    /\ \A t \in DOMAIN r : DOMAIN r[t] = Fields /\ r[t].esp \in Nat
    /\ \A t \in DOMAIN mem : Len(mem[t]) <= MaxDepth
    /\ exited \subseteq DOMAIN r
    /\ halted \in {"no", "magic"}

(***************************************************************************)
(* A thread that is interrupted at any instruction, switched away from and *)
(* back to any number of times, and that calls the system in between, has  *)
(* the registers and the stack that it would have had alone: the frames    *)
(* of DEF_IRQ_HANDLER and arch_sched_setup_stack implement threads with    *)
(* registers and stacks of their own.  And every thread runs in the one    *)
(* address space of the kernel: the directory of its process, which the    *)
(* scheduler loads, is replaced before any of its code runs.               *)
(***************************************************************************)
ImplementsThreads == Abstract!Spec

(***************************************************************************)
(* The magic word that save_pre_irq_regs looks for is always where the     *)
(* prologue has put it, also in the interrupt that exit raises inside of a *)
(* system call.                                                            *)
(***************************************************************************)
MagicFound == TypeOK /\ halted = "no"

=============================================================================
