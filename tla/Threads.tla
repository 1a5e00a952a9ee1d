------------------------------ MODULE Threads ------------------------------
(***************************************************************************)
(* What the code of a thread relies on: registers and a stack of its own,  *)
(* that change only by what the thread does itself and by the return value *)
(* of its system calls, however often it is interrupted and switched away  *)
(* from.                                                                   *)
(***************************************************************************)
EXTENDS Sequences, Naturals

CONSTANTS
    Main,       \* the code that boots, before there are threads
    Thread,     \* the threads
    Version,    \* tells values that a thread computes apart
    MaxDepth    \* bound on the words a thread keeps on its stack

VARIABLES
    running,    \* whose code runs
    regs,       \* the registers of each thread that lives,
    stack       \*   and the words on its stack

vars == <<running, regs, stack>>

General == {"eax", "ecx", "edx", "ebx", "ebp", "esi", "edi"}
Registers == General \cup {"eip", "cs", "eflags", "cr3"}

(* A thread computes: every register that it may write gets a new value,   *)
(* and a word may be pushed or popped.                                     *)
Computed(t, f, v) ==
    [r \in Registers |-> IF r \in {"cs", "cr3"} THEN f[r] ELSE <<t, r, v>>]

StackAfter(t, s, v) ==
    {s} \cup (IF Len(s) < MaxDepth THEN {Append(s, <<t, "word", v>>)} ELSE {})
        \cup (IF s # <<>> THEN {SubSeq(s, 1, Len(s) - 1)} ELSE {})

(* A new thread has nothing but an entry point and a stack; it shares the  *)
(* address space of the one that makes it.                                 *)
Fresh(t, f) ==
    [r \in Registers |->
        CASE r = "eip" -> <<t, "entry">>
          [] r = "cr3" -> f[r]
          [] r = "cs" -> <<"0x8">>
          [] r = "eflags" -> <<"0x202">>
          [] r = "ebp" -> <<"top">>
          [] OTHER -> <<"zero">>]

Result(v) == <<"result", v>>

Init ==
    /\ running = Main
    /\ DOMAIN regs = {Main} /\ stack = [t \in {Main} |-> <<>>]

Computes ==
    \E v \in Version :
        /\ regs' = [regs EXCEPT ![running] = Computed(running, @, v)]
        /\ \E s \in StackAfter(running, stack[running], v) :
              stack' = [stack EXCEPT ![running] = s]
        /\ UNCHANGED running

Calls ==
    /\ \E v \in Version : regs' = [regs EXCEPT ![running]["eax"] = Result(v)]
    /\ UNCHANGED <<running, stack>>

(* Threads are made; the first ones take the place of Main. *)
Makes ==
    LET new  == DOMAIN regs' \ DOMAIN regs
        kept == DOMAIN regs \ {Main}
    IN
    /\ new # {} /\ new \subseteq Thread
    /\ regs' = [t \in kept \cup new |->
                   IF t \in new THEN Fresh(t, regs[running]) ELSE regs[t]]
    /\ stack' = [t \in kept \cup new |-> IF t \in new THEN <<>> ELSE stack[t]]
    /\ running' \in IF running = Main THEN new ELSE {running}

(* Another thread goes on, from where it was. *)
Switches ==
    /\ running # Main /\ running' \in DOMAIN regs
    /\ UNCHANGED <<regs, stack>>

Exits ==
    LET left == DOMAIN regs \ {running} IN
    /\ running # Main /\ running' \in left
    /\ regs' = [t \in left |-> regs[t]]
    /\ stack' = [t \in left |-> stack[t]]

Next == Computes \/ Calls \/ Makes \/ Switches \/ Exits

Spec == Init /\ [][Next]_vars
=============================================================================
