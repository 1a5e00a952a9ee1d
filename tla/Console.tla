------------------------------- MODULE Console -------------------------------
(***************************************************************************)
(* console_send (kernel/console.c) and the three consoles that get every   *)
(* character: the message buffer (kernel/kmsg.c), the serial line and the  *)
(* screen (arch/x86/serial.c, textmode.c).                                 *)
(*                                                                         *)
(* Any thread may call console_send at any time, and a tick may come       *)
(* between any two of its steps: the cursor of the screen is loaded and    *)
(* stored in steps of their own, and a scroll is a step for each row.  The *)
(* transmitter of the serial line is external: it has a queue of FIFO      *)
(* characters and is ready when that is empty.                             *)
(***************************************************************************)
EXTENDS Integers, Sequences, SequencesExt, FiniteSets

CONSTANTS
    Thread,             \* the threads that print
    Letter,             \* characters other than '\n' and NUL
    KMSG_BUFSIZE,       \* size of kmsg_buf,
    Columns, Rows,      \*   of the screen,
    FIFO,               \*   and of the transmitter's queue
    MaxChars,           \* bounds on the characters that are sent,
    MaxMixed            \*   and until a call may begin inside of another one

N == Cardinality(Thread)

ASSUME ConsoleAssumption ==
    /\ IsFiniteSet(Thread)
    /\ {KMSG_BUFSIZE, Columns, Rows, FIFO, MaxChars, MaxMixed} \subseteq Nat \ {0}

VARIABLES
    kmsg_buf, kmsg_pos,
    fifo, line,         \* the transmitter's queue, and what was transmitted
    screen, x, y,       \* the screen, with the row behind it, and its cursor
    loc,                \* where each thread is in console_send, with what it
                        \*   has loaded of the cursor and the row it copies
    sent,               \* history: the characters of the calls, in their order
    mixed               \* history: whether a call began inside of another one

kmsg == <<kmsg_buf, kmsg_pos>>
serial == <<fifo, line>>
textmode == <<screen, x, y>>
hist == <<sent, mixed>>
vars == <<kmsg, serial, textmode, loc, hist>>

NL == "newline"
Blank == "blank"
Unknown == "unknown"    \* what was in the video memory before

Idle == [pc |-> "idle", c |-> Blank, idx |-> 0, lx |-> 0, ly |-> 0, row |-> 0]

Init ==
    /\ kmsg_buf = <<>> /\ kmsg_pos = 0
    /\ fifo = <<>> /\ line = <<>>
    /\ screen = [at \in (0 .. Rows) \X (0 .. Columns - 1) |->
                    IF at[1] < Rows THEN Blank ELSE Unknown]
    /\ x = 0 /\ y = 0
    /\ loc = [t \in Thread |-> Idle]
    /\ sent = <<>> /\ mixed = FALSE

Busy == {t \in Thread : loc[t].pc # "idle"}

At(t, pc) == loc[t].pc = pc

Goto(t, pc) == loc' = [loc EXCEPT ![t].pc = pc]

Return(t) == loc' = [loc EXCEPT ![t] = Idle]

(***************************************************************************)
(* console_send: the character goes to each console in turn, in the order  *)
(* in which they were registered.                                          *)
(***************************************************************************)
console_send(t, c) ==
    /\ At(t, "idle")
    /\ sent' = Append(sent, c)
    /\ mixed' = (mixed \/ Busy # {})
    /\ Len(sent') <= IF mixed' THEN MaxMixed ELSE MaxChars
    /\ loc' = [loc EXCEPT ![t] = [Idle EXCEPT !.pc = "kmsg", !.c = c]]
    /\ UNCHANGED <<kmsg, serial, textmode>>

(* __kmsg_append; the bound is tested on the value that is used. *)
KmsgFull == kmsg_pos >= KMSG_BUFSIZE

kmsg_append(t) ==
    /\ At(t, "kmsg")
    /\ loc' = [loc EXCEPT ![t] = IF KmsgFull THEN [@ EXCEPT !.pc = "serial"]
                                 ELSE [@ EXCEPT !.idx = kmsg_pos, !.pc = "kmsg_char"]]
    /\ UNCHANGED <<kmsg, serial, textmode, hist>>

kmsg_char(t) ==
    /\ At(t, "kmsg_char")
    /\ LET at == loc[t].idx + 1 IN
          /\ kmsg_pos' = at
          /\ kmsg_buf' = IF at > Len(kmsg_buf) THEN Append(kmsg_buf, loc[t].c)
                         ELSE [kmsg_buf EXCEPT ![at] = loc[t].c]
    /\ loc' = [loc EXCEPT ![t].idx = 0, ![t].pc = "serial"]
    /\ UNCHANGED <<serial, textmode, hist>>

(* serial_out_data polls the transmitter, and then gives it the character. *)
SerialReady_Always == TRUE

SerialReady_Received == FALSE

SerialReady == fifo = <<>>

serial_poll(t) ==
    /\ At(t, "serial") /\ SerialReady
    /\ Goto(t, "serial_out")
    /\ UNCHANGED <<kmsg, serial, textmode, hist>>

serial_out(t) ==
    /\ At(t, "serial_out")
    /\ fifo' = IF Len(fifo) < FIFO THEN Append(fifo, loc[t].c) ELSE fifo
    /\ Goto(t, "wrap")
    /\ UNCHANGED <<kmsg, line, textmode, hist>>

Transmit ==
    /\ fifo # <<>>
    /\ line' = Append(line, Head(fifo)) /\ fifo' = Tail(fifo)
    /\ UNCHANGED <<kmsg, textmode, loc, hist>>

-----------------------------------------------------------------------------
(* __textmode_putchar: the test for a new line, and y ++ and x = 0. *)
Wraps_NewlineOnly(c) == c = NL

Wraps(c) == x > Columns \/ c = NL

textmode_wrap(t) ==
    /\ At(t, "wrap")
    /\ Goto(t, IF Wraps(loc[t].c) THEN "load_newline" ELSE "bottom")
    /\ UNCHANGED <<kmsg, serial, textmode, hist>>

textmode_newline(t) ==
    /\ At(t, "newline")
    /\ y' = loc[t].ly + 1
    /\ Goto(t, "home")
    /\ UNCHANGED <<kmsg, serial, screen, x, hist>>

(* x = 0, here and after a scroll. *)
textmode_home(t) ==
    /\ \/ At(t, "home") /\ Goto(t, "bottom")
       \/ At(t, "scroll_home") /\ Goto(t, "load_up")
    /\ x' = 0
    /\ UNCHANGED <<kmsg, serial, screen, y, hist>>

(* The loads of y that a later step uses. *)
Load_y == [load_newline |-> "newline", load_up |-> "up", load_cell |-> "cell"]

textmode_load_y(t) ==
    /\ loc[t].pc \in DOMAIN Load_y
    /\ loc' = [loc EXCEPT ![t].pc = Load_y[@], ![t].ly = y]
    /\ UNCHANGED <<kmsg, serial, textmode, hist>>

(* At the bottom of the screen it scrolls, with y -- at the end. *)
AtBottom == y >= Rows

AfterBottom(l) == IF l.c = NL THEN Idle ELSE [l EXCEPT !.pc = "load_cell"]

textmode_bottom(t) ==
    /\ At(t, "bottom")
    /\ loc' = [loc EXCEPT ![t] = IF AtBottom THEN [@ EXCEPT !.pc = "scroll"] ELSE AfterBottom(@)]
    /\ UNCHANGED <<kmsg, serial, textmode, hist>>

(* The row below the screen moves up too, and is cleared. *)
CopiedUp(row) ==
    [at \in DOMAIN screen |->
        IF at[1] # row THEN screen[at]
        ELSE IF row < Rows THEN screen[<<row + 1, at[2]>>] ELSE Blank]

textmode_scrollup(t) ==
    /\ At(t, "scroll")
    /\ screen' = CopiedUp(loc[t].row)
    /\ IF loc[t].row < Rows THEN loc' = [loc EXCEPT ![t].row = @ + 1]
                            ELSE Goto(t, "scroll_home")
    /\ UNCHANGED <<kmsg, serial, x, y, hist>>

textmode_up(t) ==
    /\ At(t, "up")
    /\ y' = loc[t].ly - 1
    /\ loc' = [loc EXCEPT ![t] = AfterBottom(@)]
    /\ UNCHANGED <<kmsg, serial, screen, x, hist>>

(* The cell at the x that x ++ then uses.  Column Columns of a row is      *)
(* column 0 of the next one; a cell off the screen is other memory.        *)
Cell(l) == <<l.ly + x \div Columns, x % Columns>>

textmode_cell(t) ==
    /\ At(t, "cell")
    /\ screen' = [at \in DOMAIN screen |->
                     IF at = Cell(loc[t]) THEN loc[t].c ELSE screen[at]]
    /\ loc' = [loc EXCEPT ![t].lx = x, ![t].pc = "column"]
    /\ UNCHANGED <<kmsg, serial, x, y, hist>>

textmode_column(t) ==
    /\ At(t, "column")
    /\ x' = loc[t].lx + 1
    /\ Return(t)
    /\ UNCHANGED <<kmsg, serial, screen, y, hist>>

-----------------------------------------------------------------------------
Step(t) ==
    \/ kmsg_append(t) \/ kmsg_char(t) \/ serial_poll(t) \/ serial_out(t)
    \/ textmode_wrap(t) \/ textmode_load_y(t) \/ textmode_newline(t) \/ textmode_home(t)
    \/ textmode_bottom(t) \/ textmode_scrollup(t) \/ textmode_up(t)
    \/ textmode_cell(t) \/ textmode_column(t)

Next ==
    \/ \E t \in Thread : Step(t) \/ \E c \in Letter \cup {NL} : console_send(t, c)
    \/ Transmit

Spec == Init /\ [][Next]_vars

(***************************************************************************)
(* The scheduler lets every thread run again and again, also one that      *)
(* polls while others fill the transmitter; what is queued is transmitted. *)
(***************************************************************************)
FairSpec == Spec /\ WF_vars(Transmit) /\ \A t \in Thread : SF_vars(Step(t))

-----------------------------------------------------------------------------
Chars == Letter \cup {NL, Blank}

TypeOK ==
    /\ Range(kmsg_buf) \subseteq Chars /\ Len(kmsg_buf) <= KMSG_BUFSIZE
    /\ Range(fifo) \cup Range(line) \cup Range(sent) \subseteq Chars
    /\ screen \in [DOMAIN screen -> Chars \cup {Unknown}] /\ x \in Nat /\ y \in Int
    /\ \A t \in Thread : loc[t].c \in Chars /\ loc[t].idx \in 0 .. KMSG_BUFSIZE
    /\ mixed \in BOOLEAN

(***************************************************************************)
(* The message buffer holds the first KMSG_BUFSIZE characters and drops    *)
(* the later ones; its position stays inside of the buffer even when calls *)
(* overlap, as it is loaded once for the test and the store.               *)
(***************************************************************************)
KmsgKeepsFirst ==
    /\ kmsg_pos <= KMSG_BUFSIZE
    /\ ~mixed => /\ IsPrefix(kmsg_buf, sent) /\ Len(kmsg_buf) = kmsg_pos
                 /\ Busy = {} /\ Len(kmsg_buf) < KMSG_BUFSIZE => kmsg_buf = sent

(***************************************************************************)
(* The serial line repeats no character, with any overlap of callers.  It  *)
(* loses none while calls do not overlap, and then it keeps their order,   *)
(* and none either as long as there are no more callers than places in the *)
(* transmitter's queue: threads that have all found the transmitter ready  *)
(* go on to use it one after the other, and each of them gets a place.     *)
(***************************************************************************)
Count(s, c) == Cardinality({i \in DOMAIN s : s[i] = c})

Unsent(c) == Cardinality({t \in Thread :
    loc[t].c = c /\ loc[t].pc \in {"kmsg", "kmsg_char", "serial", "serial_out"}})

SerialExact ==
    /\ \A c \in Letter \cup {NL} :
          LET kept == Count(line, c) + Count(fifo, c) + Unsent(c) IN
          /\ kept <= Count(sent, c)
          /\ N <= FIFO \/ ~mixed => kept = Count(sent, c)
    /\ ~mixed => IsPrefix(line \o fifo, sent)

(***************************************************************************)
(* The two consoles that only add at an end, kmsg_write and the serial     *)
(* line, keep what console_send gives them, as far as the parts above say. *)
(***************************************************************************)
CharactersKept == TypeOK /\ KmsgKeepsFirst /\ SerialExact

(***************************************************************************)
(* What a text looks like on a screen of endless length: its lines, broken *)
(* at '\n' and after Columns + 1 characters (__textmode_putchar lets a     *)
(* line have one character more than fit).                                 *)
(***************************************************************************)
PutChar(lines, c) ==
    LET cur == Last(lines) IN
    CASE c = NL -> Append(lines, <<>>)
      [] c # NL /\ Len(cur) > Columns -> Append(lines, <<c>>)
      [] OTHER -> Append(Front(lines), Append(cur, c))

Lines(text) == FoldLeft(PutChar, <<<<>>>>, text)

(***************************************************************************)
(* Every cell of the screen, and of the row behind it, while calls do not  *)
(* overlap: the last lines of what was printed stand there, with the       *)
(* cursor behind the last character, before and after any scroll.  The     *)
(* character too many of a full line is in the first cell of the next row, *)
(* until that row has a character of its own (a line that stays empty      *)
(* shows it for good).  A cell that nothing was written to is blank,       *)
(* except in the row that the first scroll brings up, which nothing had    *)
(* cleared before.  Nothing is claimed of calls that overlap: an increment *)
(* or a decrement of the cursor that is lost can leave it anywhere.        *)
(***************************************************************************)
Line(lines, n) == IF n <= Len(lines) THEN lines[n] ELSE <<>>

CellOf(lines, n, col) ==
    CASE col < Len(Line(lines, n)) -> Line(lines, n)[col + 1]
      [] col >= Len(Line(lines, n)) /\ col = 0 /\ n > 1 /\ Len(Line(lines, n - 1)) > Columns ->
            Line(lines, n - 1)[Columns + 1]
      [] OTHER -> IF n = Rows + 1 THEN Unknown ELSE Blank

ScreenShowsLines ==
    ~mixed /\ Busy = {} =>
        LET lines == Lines(sent) IN
        /\ x = Len(Last(lines))
        /\ y = IF Len(lines) <= Rows THEN Len(lines) - 1 ELSE Rows - 1
        /\ \A row \in 0 .. Rows : \A col \in 0 .. Columns - 1 :
              screen[<<row, col>>] = CellOf(lines, Len(lines) - y + row, col)

(***************************************************************************)
(* Every call returns, also those that wait for the transmitter while      *)
(* other threads keep filling it.                                          *)
(***************************************************************************)
SendReturns == \A t \in Thread : (t \in Busy) ~> (t \notin Busy)
=============================================================================
