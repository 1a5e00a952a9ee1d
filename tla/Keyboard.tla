------------------------------ MODULE Keyboard ------------------------------
(***************************************************************************)
(* The keyboard driver (drivers/keyboard.c), whose interrupt handler puts  *)
(* keys into keybuf, and its one reader, the shell's grab_input            *)
(* (kernel/shell.c, through tty_input_read of drivers/tty.c), which takes  *)
(* them out a byte at a time with interrupts on.                           *)
(*                                                                         *)
(* keyboard_get_key is one action per access to the shared variables.  The *)
(* test of key_loc and its decrement share one load (C allows it, and -O2  *)
(* does it); keys_avail is decremented in memory.  A character is the key  *)
(* and the shape that the modifiers give it.  _ctrl and _alt are written   *)
(* and never read.  Neither is _extended: a code behind the prefix 0xE0    *)
(* counts as the plain one, be it a character or a fake shift.             *)
(***************************************************************************)
EXTENDS Integers, Sequences

CONSTANTS
    Letters,    \* the keys 'a' .. 'z'
    Digits,     \* the keys that shift turns into other characters
    BUFSIZE,    \* bytes of keybuf, 256
    AVAIL_MOD,  \* values of keys_avail, 2^8
    MAX_KEYS    \* bound of the model: characters typed in a behaviour

ASSUME KeyboardAssumption ==
    /\ Letters \cap Digits = {}
    /\ BUFSIZE \in Nat \ {0} /\ AVAIL_MOD \in Nat \ {0}
    /\ MAX_KEYS \in Nat

VARIABLES
    keybuf,         \* 0 .. BUFSIZE -> character; the last one is behind it
    key_loc, keys_avail,
    mods,           \* _shift and _capslock
    held,           \* the shift keys that are physically down
    faked,          \* history: a fake shift pressed with none of them down
    loc, c, i,      \* keyboard_get_key: the key_loc it loaded, c, i
    shell_pc,       \* where the shell is
    kbd_halted,
    typed,          \* history: the number of characters typed,
    pending,        \*   those typed and not yet taken,
    raced           \*   whether a key came in the removal of another

readerVars == <<loc, c, i, shell_pc>>
kbdVars == <<keybuf, key_loc, keys_avail, mods, held, faked, readerVars, kbd_halted,
             typed, pending, raced>>

Keys == Letters \cup Digits

ShiftKeys == {"LSHIFT", "RSHIFT"}

Chars == Keys \X {"plain", "upper", "shifted"}

NUL == <<"NUL", "plain">>       \* no character
Unknown == <<"UNKNOWN", "plain">>   \* a byte that nothing has written

KbdInit ==
    /\ keybuf = [n \in 0 .. BUFSIZE |-> Unknown]
    /\ key_loc = 0
    /\ keys_avail = 0
    /\ mods = [shift |-> FALSE, caps |-> FALSE]
    /\ held = {}
    /\ faked = FALSE
    /\ loc = 0 /\ c = NUL /\ i = 0
    /\ shell_pc = "poll"
    /\ kbd_halted = "no"
    /\ typed = 0 /\ pending = <<>> /\ raced = FALSE

-----------------------------------------------------------------------------
(***************************************************************************)
(* kbd_irq, for a key pressed (it may repeat) or released.                 *)
(***************************************************************************)
keyboard_to_ascii(key) ==
    <<key, IF key \in Letters /\ (mods.shift \/ mods.caps) THEN "upper"
           ELSE IF key \in Digits /\ mods.shift /\ ~mods.caps THEN "shifted"
           ELSE "plain">>

(* The interrupt falls where the removal of a key is not yet done with the *)
(* cell that it writes: before key_loc is stored back, or before the shift *)
(* has passed that cell.                                                   *)
InWindow == shell_pc \in {"first", "store"} \/ (shell_pc = "shift" /\ i <= key_loc)

kbd_irq_char(key) ==
    LET ch == keyboard_to_ascii(key) IN
    /\ kbd_halted = "no" /\ typed < MAX_KEYS
    /\ IF key_loc >= BUFSIZE
       THEN /\ kbd_halted' = "heap_corrupt"
            /\ UNCHANGED keybuf
       ELSE /\ keybuf' = [keybuf EXCEPT ![key_loc] = ch]
            /\ UNCHANGED kbd_halted
    /\ key_loc' = key_loc + 1
    /\ keys_avail' = (keys_avail + 1) % AVAIL_MOD
    /\ typed' = typed + 1
    /\ pending' = Append(pending, ch)
    /\ raced' = (raced \/ InWindow)
    /\ UNCHANGED <<mods, held, faked, readerVars>>

Pressed == [mods EXCEPT !.shift = TRUE]

Released_Toggles == [mods EXCEPT !.shift = ~@]

Released == [mods EXCEPT !.shift = FALSE]

kbd_irq_shift(key) ==
    /\ kbd_halted = "no"
    /\ \/ held' = held \cup {key} /\ mods' = Pressed /\ UNCHANGED faked
       \/ key \in held /\ held' = held \ {key} /\ mods' = Released /\ faked' = FALSE
    /\ UNCHANGED <<keybuf, key_loc, keys_avail, readerVars, kbd_halted, typed,
                   pending, raced>>

(* E0 2A and E0 AA, which keyboards put around the codes of Print Screen   *)
(* and of the keys between the blocks, to hide a shift or to feign one.    *)
kbd_irq_fake_shift ==
    /\ kbd_halted = "no"
    /\ \/ mods' = Pressed /\ faked' = (faked \/ held = {})
       \/ mods' = Released /\ faked' = FALSE
    /\ UNCHANGED <<keybuf, key_loc, keys_avail, held, readerVars, kbd_halted,
                   typed, pending, raced>>

kbd_irq_capslock ==
    /\ kbd_halted = "no"
    /\ mods' = [mods EXCEPT !.caps = ~@]
    /\ UNCHANGED <<keybuf, key_loc, keys_avail, held, faked, readerVars,
                   kbd_halted, typed, pending, raced>>

-----------------------------------------------------------------------------
(***************************************************************************)
(* The shell asks for one character.  The tty's own input buffer is empty  *)
(* (nothing writes to it), so tty_input_read goes on to kbd_read.          *)
(***************************************************************************)
Reads(l) == shell_pc = l /\ kbd_halted = "no"

irqVars == <<mods, held, faked, kbd_halted, typed, raced>>

kbd_read ==
    /\ Reads("poll")
    /\ keys_avail # 0
    /\ shell_pc' = "load"
    /\ UNCHANGED <<keybuf, key_loc, keys_avail, irqVars, loc, c, i, pending>>

get_load ==
    /\ Reads("load")
    /\ loc' = key_loc
    /\ c' = NUL
    /\ shell_pc' = IF key_loc = 0 THEN "out" ELSE "first"
    /\ UNCHANGED <<keybuf, key_loc, keys_avail, irqVars, i, pending>>

get_first ==
    /\ Reads("first")
    /\ c' = keybuf[0]
    /\ pending' = Tail(pending)
    /\ shell_pc' = "store"
    /\ UNCHANGED <<keybuf, key_loc, keys_avail, irqVars, loc, i>>

get_store_Same ==
    /\ Reads("store")
    /\ key_loc' = loc
    /\ i' = 0
    /\ shell_pc' = "shift"
    /\ UNCHANGED <<keybuf, keys_avail, irqVars, loc, c, pending>>

get_store ==
    /\ Reads("store")
    /\ key_loc' = loc - 1
    /\ i' = 0
    /\ shell_pc' = "shift"
    /\ UNCHANGED <<keybuf, keys_avail, irqVars, loc, c, pending>>

LastCell_Short == key_loc - 2

LastCell == BUFSIZE - 1

(* keybuf[255] = keybuf[256] at the end of it. *)
get_shift ==
    /\ Reads("shift")
    /\ keybuf' = [keybuf EXCEPT ![i] = keybuf[i + 1]]
    /\ i' = i + 1
    /\ shell_pc' = IF i < LastCell THEN "shift" ELSE "count"
    /\ UNCHANGED <<key_loc, keys_avail, irqVars, loc, c, pending>>

CountDown_Dropped == UNCHANGED keys_avail

CountDown == keys_avail' = (keys_avail + AVAIL_MOD - 1) % AVAIL_MOD

get_count ==
    /\ Reads("count")
    /\ CountDown
    /\ shell_pc' = "out"
    /\ UNCHANGED <<keybuf, key_loc, irqVars, loc, c, i, pending>>

(* Back in grab_input: a character is echoed and kept, none is a yield.    *)
grab_input ==
    /\ Reads("out")
    /\ shell_pc' = "poll"
    /\ loc' = 0 /\ c' = NUL /\ i' = 0
    /\ UNCHANGED <<keybuf, key_loc, keys_avail, irqVars, pending>>

(* A write behind keybuf is into the next allocation of the heap. *)
KbdStopped == kbd_halted # "no" /\ UNCHANGED kbdVars

ReadStep ==
    kbd_read \/ get_load \/ get_first \/ get_store \/ get_shift \/ get_count \/ grab_input

KbdNext ==
    \/ \E key \in Keys : kbd_irq_char(key)
    \/ \E key \in ShiftKeys : kbd_irq_shift(key)
    \/ kbd_irq_fake_shift
    \/ kbd_irq_capslock
    \/ ReadStep
    \/ KbdStopped

KbdSpec == KbdInit /\ [][KbdNext]_kbdVars

(* The shell polls for as long as it is given the processor, which the     *)
(* scheduler does (StarvationFree of module Sched).                        *)
KbdFairSpec == KbdSpec /\ WF_kbdVars(ReadStep)

-----------------------------------------------------------------------------
KbdTypeOK ==
    /\ keybuf \in [0 .. BUFSIZE -> Chars \cup {Unknown}]
    /\ key_loc \in 0 .. BUFSIZE + 1
    /\ keys_avail \in 0 .. AVAIL_MOD - 1
    /\ mods \in [shift : BOOLEAN, caps : BOOLEAN]
    /\ held \subseteq ShiftKeys
    /\ faked \in BOOLEAN
    /\ loc \in 0 .. BUFSIZE
    /\ c \in Chars \cup {NUL, Unknown}
    /\ i \in 0 .. BUFSIZE
    /\ shell_pc \in {"poll", "load", "first", "store", "shift", "count", "out"}
    /\ kbd_halted \in {"no", "heap_corrupt"}
    /\ typed \in 0 .. MAX_KEYS
    /\ pending \in Seq(Chars)
    /\ raced \in BOOLEAN

(***************************************************************************)
(* Keys are delivered first in, first out, for as long as no key has come  *)
(* in the window of keyboard_get_key between its load of key_loc and the   *)
(* end of its shift: interrupts anywhere else do no harm.                  *)
(***************************************************************************)
InOrder == [][(shell_pc = "first" /\ shell_pc' = "store" /\ ~raced) => c' = Head(pending)]_kbdVars

(***************************************************************************)
(* The two counters, whatever interrupts whatever.  keys_avail counts the  *)
(* keys typed and not yet taken, modulo its width, also those that a race  *)
(* has hidden; key_loc never counts a key that was not typed, and counts   *)
(* them all until a race.                                                  *)
(***************************************************************************)
Uncounted == IF shell_pc \in {"store", "shift", "count"} THEN 1 ELSE 0

Unstored == IF shell_pc = "store" THEN 1 ELSE 0

CountersSound ==
    /\ KbdTypeOK
    /\ keys_avail = (Len(pending) + Uncounted) % AVAIL_MOD
    /\ key_loc <= Len(pending) + Unstored
    /\ ~raced => key_loc = Len(pending) + Unstored

(***************************************************************************)
(* The shell gets through the keys in the buffer, unless so many wait (or  *)
(* have been hidden) that keys_avail has wrapped.                          *)
(***************************************************************************)
KeysDrain ==
    (key_loc > 0) ~> (key_loc = 0 \/ kbd_halted # "no" \/ Len(pending) >= AVAIL_MOD)

(***************************************************************************)
(* One flag stands for both shift keys and for the fake shifts, and any    *)
(* release clears it: in every order of presses, repeats and releases,     *)
(* shift may end while a key is still down, but it outlasts the keys only  *)
(* where the keyboard itself pressed a fake shift and released none since. *)
(***************************************************************************)
ShiftNotStuck == mods.shift => held # {} \/ faked
=============================================================================
