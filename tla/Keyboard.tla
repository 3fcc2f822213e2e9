------------------------------ MODULE Keyboard ------------------------------
(***************************************************************************)
(* From the bytes of the keyboard to characters: keyboard_interrupt of the *)
(* driver (drivers/pcat/keyboard.c) and keyboard_convert of lib/libwin,    *)
(* against the keys held down.  Of the tables scan2key and key2char the    *)
(* model has the modifiers and some characters.  Codes are numbers, and    *)
(* the modifiers are the set of the keys down.                             *)
(*                                                                         *)
(* The driver forgets a prefix e0 or e1 before it looks the byte up, so    *)
(* that a key with a prefix is the key without: left and right Ctrl are    *)
(* one key, and the cursor keys are those of the keypad.                   *)
(***************************************************************************)
EXTENDS Integers, SequencesExt

VARIABLES kind, impl, ideal, got, want

Break == 512
NoChar == -1

\* scan2key[scan_normal]
Scan2key(b) ==
  CASE b = 28 -> 43 [] b = 29 -> 58 [] b = 30 -> 31 [] b = 42 -> 44 [] b = 54 -> 57 [] b = 56 -> 60
    [] b = 58 -> 30 [] b = 75 -> 92 [] OTHER -> 0

\* key2char for base, shift and ctrl
Key2char(table, key) ==
  LET chars == CASE key = 31 -> <<97, 65, 1>> [] key = 43 -> <<10, 10, 255>>
                 [] key = 92 -> <<52, 52, 255>> [] OTHER -> <<0, 0, 255>>
  IN chars[table]

\* keyboard_interrupt: the new state, and the key code that goes to the handler
KeyboardInterrupt(state, b) ==
  IF state = "normal" /\ b \in {224, 225}
  THEN [state |-> IF b = 224 THEN "e0" ELSE "e1", keys |-> << >>]
  ELSE [state |-> "normal",
        keys |-> <<IF b >= 128 THEN Break + Scan2key(b - 128) ELSE Scan2key(b)>>]

GetModifier(key) ==
  CASE key = 30 -> "caps" [] key = 44 -> "lshift" [] key = 57 -> "rshift" [] key = 58 -> "lctrl"
    [] key = 60 -> "lalt" [] key = 62 -> "ralt" [] key = 64 -> "rctrl" [] OTHER -> "none"

IsShift(modifiers) == ({"lshift", "rshift"} \cap modifiers # {}) # ("caps" \in modifiers)

\* keyboard_convert: the modifiers, and the character if there is one
KeyboardConvert(modifiers, code) ==
  LET key == code % Break
      m == GetModifier(key)
      table == IF {"lctrl", "rctrl"} \cap modifiers # {} THEN 3 ELSE IF IsShift(modifiers) THEN 2 ELSE 1
      char == Key2char(table, key)
      result(ms, c) == [modifiers |-> ms, char |-> c]
  IN IF code = 0 THEN result(modifiers, NoChar)
     ELSE IF code >= Break THEN result(modifiers \ {m}, NoChar)
     ELSE IF m # "none" THEN result(modifiers \cup {m}, NoChar)
     ELSE result(modifiers, IF char = (IF table = 3 THEN 255 ELSE 0) THEN NoChar ELSE char)

-----------------------------------------------------------------------------
(* The checks: ideal is the set of keys down, by their byte *)

Keys == {28, 29, 30, 42, 54, 56, 58, 75}
Prefix == {<< >>, <<224>>, <<225>>}

\* A character comes when its key is pressed, as Ctrl, Shift and Caps then are.
PressKey ==
  \E b \in Keys, prefix \in Prefix, press \in BOOLEAN :
    LET state == FoldLeft(LAMBDA s, c : KeyboardInterrupt(s, c).state, impl.state, prefix)
        r == KeyboardInterrupt(state, IF press THEN b ELSE b + 128)
        k == KeyboardConvert(impl.modifiers, r.keys[1])
        shift == (\E s \in {42, 54} : s \in ideal) # (58 \in ideal)
    IN /\ impl' = [state |-> r.state, modifiers |-> k.modifiers]
       /\ ideal' = IF press THEN ideal \cup {b} ELSE ideal \ {b}
       /\ got' = k.char
       /\ want' = CASE ~press \/ b \in {29, 42, 54, 56, 58} -> NoChar
                    [] 29 \in ideal -> IF b = 30 THEN 1 ELSE NoChar
                    [] b = 30 -> IF shift THEN 65 ELSE 97
                    [] b = 28 -> 10
                    [] b = 75 -> 52
       /\ UNCHANGED kind

KeyboardInit ==
  kind = "keyboard" /\ impl = [state |-> "normal", modifiers |-> {}] /\ ideal = {} /\ got = NoChar /\ want = NoChar

KeyboardNext == kind = "keyboard" /\ PressKey
=============================================================================
