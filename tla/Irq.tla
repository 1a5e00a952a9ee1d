-------------------------------- MODULE Irq --------------------------------
(***************************************************************************)
(* Interrupt delivery: the descriptor table that arch/x86/idt.c,           *)
(* exception.c, pit.c, drivers/ata.c and drivers/keyboard.c fill in one    *)
(* gate after the other while interrupts are already on, and the           *)
(* acknowledgement (EOI) that arch/x86/irq.c sends to the two interrupt    *)
(* controllers.                                                            *)
(*                                                                         *)
(* Handlers run with interrupts off, so the delivery of an interrupt, the  *)
(* body of its handler and its EOI are one action.  What is left between   *)
(* two actions are the lines that are requested, the lines in service, and *)
(* how far the boot has come.  The controllers are external: a pair of     *)
(* 8259s with fixed priorities, the second one on line 2 of the first.     *)
(***************************************************************************)
EXTENDS Integers, FiniteSetsExt

CONSTANT Lines      \* the interrupt lines that have a device

TIMER == 0
KBD   == 1
CASCADE == 2
IDE   == 14

ASSUME IrqAssumption ==
    /\ Lines \subseteq (0 .. 15) \ {CASCADE}
    /\ {TIMER, KBD, IDE} \subseteq Lines

VARIABLES
    idt,            \* vector -> what its gate leads to
    writing,        \* vector -> the handler a gate is being changed to
    remapped,       \* whether irq_remap has moved the vectors
    irr,            \* lines that are requested,
    m_isr, s_isr,   \*   and in service, of the first and second controller
    stage,          \* how far main has come
    can_schedule,
    irq_halted

idtVars == <<idt, writing, remapped, irr, m_isr, s_isr, stage, can_schedule, irq_halted>>

picVars == <<irr, m_isr, s_isr>>

(* The vector of a line, as the firmware sets it up and after irq_remap. *)
Vector_Unmoved(l, moved) == IF l < 8 THEN 8 + l ELSE 112 + l - 8

Vector(l, moved) ==
    IF moved THEN 32 + l ELSE IF l < 8 THEN 8 + l ELSE 112 + l - 8

Vectors == {Vector(l, FALSE) : l \in Lines} \cup {Vector(l, TRUE) : l \in Lines}

Exceptions == Vectors \cap (0 .. 15)

(* The stages of main in which interrupts are on, in their order. *)
Stages == <<"off", "idt", "exceptions", "irq", "pit", "ata", "keyboard", "idle">>

Reached(s) == \E i, j \in DOMAIN Stages : Stages[i] = s /\ Stages[j] = stage /\ i <= j

Nothing == [v \in {} |-> "noop"]

IrqInit ==
    /\ idt = [v \in Vectors |-> "none"]
    /\ writing = Nothing
    /\ remapped = FALSE
    /\ irr \in SUBSET Lines
    /\ m_isr = {} /\ s_isr = {}
    /\ stage = "off"
    /\ can_schedule = FALSE
    /\ irq_halted = "no"

-----------------------------------------------------------------------------
(***************************************************************************)
(* The controllers.  A line that is requested is delivered unless one of   *)
(* the same or a higher priority is in service; all of the second          *)
(* controller have the priority of line 2.  A plain EOI ends the service   *)
(* of the line with the highest priority that is in service.               *)
(***************************************************************************)
raise(l) ==
    /\ irq_halted = "no" /\ l \notin irr
    /\ irr' = irr \cup {l}
    /\ UNCHANGED <<idt, writing, remapped, m_isr, s_isr, stage, can_schedule, irq_halted>>

Deliverable(l) ==
    /\ l \in irr
    /\ IF l < 8 THEN \A n \in m_isr : l < n
                ELSE (\A n \in m_isr : CASCADE < n) /\ (\A n \in s_isr : l < n)

Served(l) == IF l < 8 THEN [m |-> m_isr \cup {l}, s |-> s_isr]
                      ELSE [m |-> m_isr \cup {CASCADE}, s |-> s_isr \cup {l}]

Highest(S) == IF S = {} THEN {} ELSE {Min(S)}

(***************************************************************************)
(* send_eoi, with the number that the prologue of the handler has put into *)
(* current_irq.                                                            *)
(***************************************************************************)
send_eoi_SecondOnly(current_irq, isr) ==
    IF current_irq > 8 THEN [isr EXCEPT !.s = @ \ Highest(@)]
                       ELSE [isr EXCEPT !.m = @ \ Highest(@)]

send_eoi(current_irq, isr) ==
    [m |-> isr.m \ Highest(isr.m),
     s |-> IF current_irq > 8 THEN isr.s \ Highest(isr.s) ELSE isr.s]

(* The numbers that the handlers are defined with: DEF_IRQ_HANDLER(n, .). *)
Number == [pit_irq |-> 0, kbd_irq |-> 33, ide_prim_irq |-> 32]

(* What the gate of a vector leads to; while it is written, the old        *)
(* handler, the new one, or half of each.                                  *)
Leads(v) ==
    IF v \in DOMAIN writing THEN {idt[v], writing[v], "torn"} ELSE {idt[v]}

(***************************************************************************)
(* A line is delivered.  idt_noop_irq returns without an EOI; the handlers *)
(* of exceptions panic; the others end with one EOI, in their epilogue or, *)
(* when the timer switches threads, in arch_prep_exit_irq.                 *)
(***************************************************************************)
interrupt(l) ==
    /\ stage # "off" /\ irq_halted = "no"
    /\ Deliverable(l)
    /\ irr' = irr \ {l}
    /\ \E h \in Leads(Vector(l, remapped)) :
          LET isr == IF h \in DOMAIN Number THEN send_eoi(Number[h], Served(l))
                                            ELSE Served(l)
          IN  /\ m_isr' = isr.m /\ s_isr' = isr.s
              /\ irq_halted' = IF h \in {"panic", "torn"} THEN h ELSE "no"
    /\ UNCHANGED <<idt, writing, remapped, stage, can_schedule>>

-----------------------------------------------------------------------------
(***************************************************************************)
(* Boot.  Gates change in two steps, as idt_set_int stores the halves of   *)
(* the address one after the other with interrupts on.                     *)
(***************************************************************************)
Boots(s) == stage = s /\ irq_halted = "no"

(* All gates lead to idt_noop_irq, and then interrupts are turned on. *)
idt_init ==
    /\ Boots("off")
    /\ idt' = [v \in Vectors |-> "noop"]
    /\ stage' = "idt"
    /\ UNCHANGED <<writing, remapped, picVars, can_schedule, irq_halted>>

irq_set_low(s, gates, h) ==
    /\ Boots(s) /\ writing = Nothing
    /\ writing' = [v \in gates |-> h]
    /\ UNCHANGED <<idt, remapped, picVars, stage, can_schedule, irq_halted>>

irq_set_high(s, next) ==
    /\ Boots(s) /\ writing # Nothing
    /\ idt' = [v \in Vectors |-> IF v \in DOMAIN writing THEN writing[v] ELSE idt[v]]
    /\ writing' = Nothing
    /\ stage' = next
    /\ UNCHANGED <<remapped, picVars, can_schedule, irq_halted>>

exceptions_init ==
    irq_set_low("idt", Exceptions, "panic") \/ irq_set_high("idt", "exceptions")

(* irq_remap also resets the controllers. *)
irq_init ==
    /\ Boots("exceptions")
    /\ remapped' = TRUE
    /\ irr' = {} /\ m_isr' = {} /\ s_isr' = {}
    /\ stage' = "irq"
    /\ UNCHANGED <<idt, writing, can_schedule, irq_halted>>

pit_init ==
    irq_set_low("irq", {Vector(TIMER, TRUE)}, "pit_irq") \/ irq_set_high("irq", "pit")

ata_init ==
    irq_set_low("pit", {Vector(IDE, TRUE)}, "ide_prim_irq") \/ irq_set_high("pit", "ata")

keyboard_init ==
    irq_set_low("ata", {Vector(KBD, TRUE)}, "kbd_irq") \/ irq_set_high("ata", "keyboard")

(* Up to the first instructions of idle_task. *)
sched_start_idle ==
    /\ Boots("keyboard")
    /\ stage' = "idle"
    /\ can_schedule' = TRUE
    /\ UNCHANGED <<idt, writing, remapped, picVars, irq_halted>>

(***************************************************************************)
(* int 0x2F of a thread that yields.  It ends like an interrupt of line    *)
(* 0x2F: with an EOI to both controllers that answers no interrupt.        *)
(***************************************************************************)
YieldEoi_None == [m |-> m_isr, s |-> s_isr]

YieldEoi == send_eoi(47, [m |-> m_isr, s |-> s_isr])

post_schedule_noirq ==
    /\ Boots("idle") /\ can_schedule
    /\ m_isr' = YieldEoi.m /\ s_isr' = YieldEoi.s
    /\ UNCHANGED <<idt, writing, remapped, irr, stage, can_schedule, irq_halted>>

Boot ==
    \/ idt_init \/ exceptions_init \/ irq_init
    \/ pit_init \/ ata_init \/ keyboard_init \/ sched_start_idle

IrqStopped == irq_halted # "no" /\ UNCHANGED idtVars

IrqNext ==
    \/ \E l \in Lines : raise(l) \/ interrupt(l)
    \/ Boot
    \/ post_schedule_noirq
    \/ IrqStopped

IrqSpec == IrqInit /\ [][IrqNext]_idtVars

(***************************************************************************)
(* main runs on; a line that becomes deliverable again and again is        *)
(* delivered; idle, and the shell while it waits for a key, do nothing but *)
(* yield.                                                                  *)
(***************************************************************************)
IrqFairSpec ==
    /\ IrqSpec
    /\ WF_idtVars(Boot)
    /\ WF_idtVars(post_schedule_noirq)
    /\ \A l \in Lines : SF_idtVars(interrupt(l))

-----------------------------------------------------------------------------
Handlers == {"none", "noop", "panic"} \cup DOMAIN Number

IrqTypeOK ==
    /\ idt \in [Vectors -> Handlers]
    /\ DOMAIN writing \subseteq Vectors
    /\ irr \subseteq Lines
    /\ m_isr \subseteq 0 .. 7 /\ s_isr \subseteq 8 .. 15
    /\ stage \in {Stages[i] : i \in DOMAIN Stages}
    /\ remapped \in BOOLEAN /\ can_schedule \in BOOLEAN
    /\ irq_halted \in {"no", "panic", "torn"}

(***************************************************************************)
(* Interrupts are turned on before their vectors are moved away from those *)
(* of the exceptions and before their handlers are set.  An interrupt can  *)
(* stop the boot only in the time from the first gate of exceptions_init   *)
(* to irq_remap, or in the middle of the change of its own gate: never     *)
(* through a gate that is complete, once the vectors are moved.            *)
(***************************************************************************)
StopsOnlyInBoot ==
    /\ IrqTypeOK
    /\ irq_halted = "panic" => (stage \in {"idt", "exceptions"} /\ ~remapped)
    /\ irq_halted = "torn" => (writing # Nothing /\ ~Reached("keyboard"))

(***************************************************************************)
(* The EOI of a handler ends the service of its own line, and of line 2 if *)
(* it came through the second controller, whatever other lines wait for an *)
(* EOI at that time (those that idt_noop_irq has left in service).         *)
(***************************************************************************)
Taken(l) == l \in irr /\ l \notin irr' /\ stage' = stage

OwnLineAcknowledged ==
    [][\A l \in Lines :
          (Taken(l) /\ idt[Vector(l, remapped)] \in DOMAIN Number /\ writing = Nothing) =>
              /\ l \notin m_isr' \cup s_isr'
              /\ l >= 8 => CASCADE \notin m_isr']_idtVars

(***************************************************************************)
(* No line of a driver is blocked for good, in spite of the interrupts     *)
(* that come before their handler is set and are never acknowledged: once  *)
(* threads yield, a request of the timer, the keyboard or the disk is      *)
(* delivered.                                                              *)
(***************************************************************************)
RequestsServed ==
    \A l \in {TIMER, KBD, IDE} : (l \in irr) ~> (l \notin irr \/ irq_halted # "no")
=============================================================================
