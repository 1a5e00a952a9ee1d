------------------------------ MODULE Terminal ------------------------------
(***************************************************************************)
(* Printing: printk (kernel/printk.c), the number conversion it uses       *)
(* (lib/itoa.c) and the output side of a terminal (drivers/tty.c).         *)
(*                                                                         *)
(* Any thread prints, and nothing keeps two of them apart: a tick may come *)
(* between any two steps below, which are the statements of the code,      *)
(* split where one loads an index and stores it later.  What is printed    *)
(* inside of a system call cannot be interrupted.  console_send is one     *)
(* step here, as it touches nothing of the terminal; Console has its       *)
(* steps.                                                                  *)
(***************************************************************************)
EXTENDS Integers, Sequences, SequencesExt, FiniteSets

CONSTANTS
    Printer,            \* the threads that print
    boot,               \* the one that prints while the system boots
    Letter,             \* characters other than '\n', '\r' and digits
    Numerals,           \* the digits of the numbers that are printed
    TTY_OUT_BUFSIZE,    \* size of outputbuf
    MaxChars,           \* bounds on the characters that are printed,
    MaxMixed            \*   and until a print may begin inside of another one

ASSUME TerminalAssumption ==
    /\ boot \in Printer /\ IsFiniteSet(Printer)
    /\ {TTY_OUT_BUFSIZE, MaxChars, MaxMixed} \subseteq Nat \ {0}
    /\ \A d \in Numerals : d = <<d[1], d[2]>>

VARIABLES
    emitter,            \* __printk_emitter
    outputbuf, outputidx,
    tbuf,               \* the buffer of itoa
    line,               \* what console_send was called with
    place,              \* where each printer is, and its local variables
    wanted,             \* history: what the prints should show, in their order
    overlap             \* history: how many prints began inside of another one,
                        \*   in system calls and in threads

tty == <<emitter, outputbuf, outputidx, tbuf>>
hist == <<wanted, overlap>>
ttyVars == <<tty, line, place, hist>>

NL == "newline"
CR == "return"
Blank == "blank"

(* The memory behind outputbuf that prints may reach. *)
Cells == 0 .. TTY_OUT_BUFSIZE + MaxMixed

(* off: interrupts are off.  todo: what is left of msg.  then: where to go *)
(* on after a flush.  idx, n, i: the index loaded, count and index of the  *)
(* loop that sends.                                                        *)
Idle == [pc |-> "idle", off |-> FALSE, direct |-> FALSE, msg |-> <<>>, todo |-> <<>>,
         then |-> "done", idx |-> 0, n |-> 0, i |-> 0]

TtyInit ==
    /\ emitter = "notty"
    /\ outputbuf = [i \in Cells |-> Blank]
    /\ outputidx = 0
    /\ tbuf = <<Blank, Blank>>
    /\ line = <<>>
    /\ place = [p \in Printer |-> Idle]
    /\ wanted = <<>> /\ overlap = [calls |-> 0, threads |-> 0]

-----------------------------------------------------------------------------
Runs(p, at) == place[p].pc = at /\ \A q \in Printer \ {p} : ~place[q].off

Goto(p, at) == place' = [place EXCEPT ![p].pc = at]

Busy == {p \in Printer : place[p].pc # "idle"}

(* No print has begun inside of another one. *)
Alone == overlap.calls + overlap.threads = 0

(* '\r' follows the '\n' of printk. *)
WithReturn(c) == IF c = NL THEN <<NL, CR>> ELSE <<c>>

Begin(p, l) ==
    /\ Runs(p, "idle")
    /\ emitter = "notty" => p = boot
    /\ wanted' = wanted \o l.msg
    /\ Len(wanted') <= IF Busy = {} THEN MaxChars ELSE MaxMixed
    /\ overlap' = IF Busy = {} THEN overlap
                  ELSE IF l.off THEN [overlap EXCEPT !.calls = @ + 1]
                  ELSE [overlap EXCEPT !.threads = @ + 1]
    /\ place' = [place EXCEPT ![p] = l]
    /\ UNCHANGED <<tty, line>>

(* A character of printk, or one that the shell echoes. *)
printk_char(p, c, off) ==
    Begin(p, [Idle EXCEPT !.pc = "emit", !.msg = WithReturn(c), !.todo = WithReturn(c),
                          !.off = off])

(* A number of two digits. *)
printk_number(p, d, off) ==
    Begin(p, [Idle EXCEPT !.pc = "fill", !.msg = d, !.todo = d, !.n = 2, !.off = off])

(* write(1, ...), a system call: straight to the consoles. *)
console_file_write(p, c) ==
    /\ emitter = "tty"
    /\ Begin(p, [Idle EXCEPT !.pc = "emit", !.msg = <<c>>, !.todo = <<c>>, !.off = TRUE,
                             !.direct = TRUE])

(* Set once, at boot, before there are threads. *)
printk_switch_tty ==
    /\ emitter = "notty" /\ Busy = {}
    /\ emitter' = "tty"
    /\ UNCHANGED <<outputbuf, outputidx, tbuf, line, place, hist>>

(***************************************************************************)
(* itoa puts the digits into tbuf, the last one first, and copies them     *)
(* from there into the buffer of its caller.                               *)
(***************************************************************************)
itoa_fill(p) ==
    /\ Runs(p, "fill")
    /\ LET n == place[p].n IN
          /\ tbuf' = [tbuf EXCEPT ![3 - n] = place[p].todo[n]]
          /\ place' = [place EXCEPT ![p] = [@ EXCEPT !.n = n - 1,
                                                     !.pc = IF n = 1 THEN "copy" ELSE "fill"]]
    /\ UNCHANGED <<emitter, outputbuf, outputidx, line, hist>>

CopyFrom_Forwards(n) == n + 1

CopyFrom(n) == 2 - n

itoa_copy(p) ==
    /\ Runs(p, "copy")
    /\ LET n == place[p].n IN
          place' = [place EXCEPT ![p] = [@ EXCEPT !.todo[n + 1] = tbuf[CopyFrom(n)], !.n = 1 - n,
                                                  !.pc = IF n = 1 THEN "emit" ELSE "copy"]]
    /\ UNCHANGED <<tty, line, hist>>

-----------------------------------------------------------------------------
(***************************************************************************)
(* One character through the terminal: tty_output_write with count = 1, or *)
(* straight to console_send.                                               *)
(***************************************************************************)
Char(l) == Head(l.todo)

Straight(l) == l.direct \/ emitter = "notty"

OutOfSpace_Never == FALSE

OutOfSpace == outputidx + 1 > TTY_OUT_BUFSIZE

(* Flush, and go on at the step named then. *)
Flush(l, then) == [l EXCEPT !.pc = "flush", !.then = then]

(* Behind the test for space: '\n' flushes what is in front of it. *)
Store(l) == IF Char(l) = NL THEN Flush(l, "load") ELSE [l EXCEPT !.pc = "load"]

(* The next character, or the end of the print. *)
Emitted_StillOff(l) ==
    IF Len(l.todo) = 1 THEN [Idle EXCEPT !.off = l.off]
    ELSE [l EXCEPT !.todo = Tail(@), !.pc = "emit"]

Emitted(l) ==
    IF Len(l.todo) = 1 THEN Idle ELSE [l EXCEPT !.todo = Tail(@), !.pc = "emit"]

(* The loop of console_dev_write. *)
Sending(l) ==
    IF l.i < l.n THEN [l EXCEPT !.pc = "send"]
    ELSE IF Straight(l) THEN Emitted(l)
    ELSE [l EXCEPT !.pc = "reset"]

emit(p) ==
    /\ Runs(p, "emit")
    /\ place' = [place EXCEPT ![p] = IF Straight(@) THEN Sending([@ EXCEPT !.n = 1, !.i = 0])
                                 ELSE IF OutOfSpace THEN Flush(@, "store")
                                 ELSE Store(@)]
    /\ UNCHANGED <<tty, line, hist>>

tty_load(p) ==
    /\ Runs(p, "load")
    /\ place' = [place EXCEPT ![p] = [@ EXCEPT !.idx = outputidx, !.pc = "index"]]
    /\ UNCHANGED <<tty, line, hist>>

tty_index(p) ==
    /\ Runs(p, "index")
    /\ outputidx' = place[p].idx + 1
    /\ Goto(p, "char")
    /\ UNCHANGED <<emitter, outputbuf, tbuf, line, hist>>

(* The terminal of printk is unbuffered. *)
AfterChar_Buffered(l) == Emitted([l EXCEPT !.idx = 0])

AfterChar(l) == Flush([l EXCEPT !.idx = 0], "done")

tty_char(p) ==
    /\ Runs(p, "char")
    /\ outputbuf' = [outputbuf EXCEPT ![place[p].idx] = Char(place[p])]
    /\ place' = [place EXCEPT ![p] = AfterChar(@)]
    /\ UNCHANGED <<emitter, outputidx, tbuf, line, hist>>

tty_flush_output(p) ==
    /\ Runs(p, "flush")
    /\ place' = [place EXCEPT ![p] = Sending([@ EXCEPT !.n = outputidx, !.i = 0])]
    /\ UNCHANGED <<tty, line, hist>>

tty_flushed(p) ==
    /\ Runs(p, "reset")
    /\ outputidx' = 0
    /\ place' = [place EXCEPT ![p] = CASE @.then = "store" -> Store(@)
                                   [] @.then = "load" -> [@ EXCEPT !.pc = "load"]
                                   [] @.then = "done" -> Emitted(@)]
    /\ UNCHANGED <<emitter, outputbuf, tbuf, line, hist>>

-----------------------------------------------------------------------------
(* console_send, for the next character of the loop. *)
Sent(l) == IF Straight(l) THEN Char(l) ELSE outputbuf[l.i]

console_send(p) ==
    /\ Runs(p, "send")
    /\ line' = Append(line, Sent(place[p]))
    /\ place' = [place EXCEPT ![p] = Sending([@ EXCEPT !.i = place[p].i + 1])]
    /\ UNCHANGED <<tty, hist>>

-----------------------------------------------------------------------------
Step(p) ==
    \/ itoa_fill(p) \/ itoa_copy(p)
    \/ emit(p) \/ tty_load(p) \/ tty_index(p) \/ tty_char(p)
    \/ tty_flush_output(p) \/ tty_flushed(p) \/ console_send(p)

Starts(p) ==
    \/ \E c \in Letter \cup {NL}, off \in BOOLEAN : printk_char(p, c, off)
    \/ \E d \in Numerals, off \in BOOLEAN : printk_number(p, d, off)
    \/ \E c \in Letter \cup {NL} : console_file_write(p, c)

TtyNext ==
    \/ \E p \in Printer : Step(p) \/ Starts(p)
    \/ printk_switch_tty

TtySpec == TtyInit /\ [][TtyNext]_ttyVars

(* The scheduler lets every thread that prints run again and again. *)
TtyFairSpec == TtySpec /\ \A p \in Printer : WF_ttyVars(Step(p))

-----------------------------------------------------------------------------
TtyChars == Letter \cup {NL, CR, Blank} \cup UNION {Range(d) : d \in Numerals}

TtyTypeOK ==
    /\ emitter \in {"notty", "tty"}
    /\ outputbuf \in [Cells -> TtyChars] /\ outputidx \in Cells
    /\ tbuf \in TtyChars \X TtyChars
    /\ Range(line) \cup Range(wanted) \subseteq TtyChars
    /\ Cardinality({p \in Printer : place[p].off}) <= 1
    /\ overlap \in [{"calls", "threads"} -> 0 .. MaxMixed]

(***************************************************************************)
(* The index of outputbuf is tested before it is loaded.  As long as the   *)
(* only prints that begin inside of another are those of system calls,     *)
(* the terminal never stores behind its buffer.  (When threads interrupt   *)
(* each other a stale index can be stored again and again, and there is no *)
(* bound.)  Whatever happened, the buffer is empty once no print is left.  *)
(***************************************************************************)
IndexInBuffer ==
    /\ TtyTypeOK
    /\ Busy = {} => outputidx = 0
    /\ overlap.threads = 0 =>
        /\ outputidx <= TTY_OUT_BUFSIZE
        /\ \A p \in Printer : place[p].pc = "char" => place[p].idx < TTY_OUT_BUFSIZE

(***************************************************************************)
(* What a system call prints arrives whole, behind whatever it finds in    *)
(* the buffer, whichever print it interrupts and however mixed up that     *)
(* already is.                                                             *)
(***************************************************************************)
SystemCallWhole ==
    [][\A p \in Printer :
          place[p].off /\ ~place'[p].off => IsSuffix(place[p].msg, line')]_ttyVars

(***************************************************************************)
(* As long as no print begins before the one before it has ended, the      *)
(* consoles get the characters that are printed, each once and in order,   *)
(* through the switch from console to terminal at boot, with the digits of *)
(* numbers in their order and '\r' after the '\n' of printk.               *)
(***************************************************************************)
AloneInOrder ==
    Alone => IsPrefix(line, wanted) /\ (Busy = {} => line = wanted)

(***************************************************************************)
(* Every print ends, whatever the others do to the shared index.           *)
(***************************************************************************)
PrintsEnd == \A p \in Printer : (p \in Busy) ~> (p \notin Busy)
=============================================================================
