------------------------------- MODULE YesNo -------------------------------
(***************************************************************************)
(* dialog_yesno of src/tools/menuconfig/lxdialog/yesno.c, and on_key_esc   *)
(* (util.c), by which every dialog tells an escape from the beginning of a *)
(* key's sequence.  Keys come when they are typed; curses keeps them until *)
(* they are asked for.                                                     *)
(***************************************************************************)
EXTENDS Integers, Sequences

CONSTANT MaxKeys   \* bound on the keys that are typed

VARIABLES
  status,        \* "open", "esc" once an escape was read, "closed"
  button,        \* 0 is Yes, 1 is No
  lit,           \* the button that is lit
  answer,        \* what the dialog returned, "none" until then
  pending,       \* the keys typed and not yet read
  typed          \* all keys typed, for the properties

vars == <<status, button, lit, answer, pending, typed>>

KEY_ESC == "KEY_ESC"
Keys == {KEY_ESC, "y", "n", "enter", "tab", "other"}

Init ==
  /\ status = "open" /\ button = 0 /\ lit = 0 /\ answer = "none"
  /\ pending = << >> /\ typed = << >>

TypeKey(key) ==
  /\ Len(typed) < MaxKeys
  /\ pending' = Append(pending, key)
  /\ typed' = Append(typed, key)
  /\ UNCHANGED <<status, button, lit, answer>>

Return(value, rest) ==
  /\ status' = "closed"
  /\ answer' = value
  /\ pending' = rest
  /\ UNCHANGED <<button, lit, typed>>

(* wgetch; the keys that are no answer are the arrows and the rest.        *)
Read ==
  /\ status = "open" /\ pending # << >>
  /\ LET key == Head(pending) IN
     \/ key = "y" /\ Return("yes", Tail(pending))
     \/ key = "n" /\ Return("no", Tail(pending))
     \/ /\ key = "enter"
        /\ Return(IF button = 0 THEN "yes" ELSE "no", Tail(pending))
     \/ /\ key = "tab"
        /\ button' = 1 - button /\ lit' = button'
        /\ pending' = Tail(pending)
        /\ UNCHANGED <<status, answer, typed>>
     \/ /\ key = KEY_ESC /\ status' = "esc"
        /\ pending' = Tail(pending)
        /\ UNCHANGED <<button, lit, answer, typed>>
     \/ /\ key = "other"
        /\ pending' = Tail(pending)
        /\ UNCHANGED <<status, button, lit, answer, typed>>

(* The dialog is drawn anew with Yes lit; the button is the one before.    *)
Resize ==
  /\ status = "open"
  /\ lit' = 0
  /\ UNCHANGED <<status, button, answer, pending, typed>>

(* Mutant: one escape will do if nothing follows.                          *)
on_key_escAtOnce ==
  /\ status = "esc"
  /\ IF pending \in {<< >>, <<KEY_ESC>>} THEN Return(KEY_ESC, << >>)
     ELSE /\ status' = "open"
          /\ pending' = IF Len(pending) = 1 THEN pending ELSE << >>
          /\ UNCHANGED <<button, lit, answer, typed>>

(* Without waiting, all there is is read.  One more escape is an escape,   *)
(* one other key is put back, anything else is dropped.                    *)
on_key_esc ==
  /\ status = "esc"
  /\ IF pending = <<KEY_ESC>> THEN Return(KEY_ESC, << >>)
     ELSE /\ status' = "open"
          /\ pending' = IF Len(pending) = 1 THEN pending ELSE << >>
          /\ UNCHANGED <<button, lit, answer, typed>>

Next == Read \/ Resize \/ on_key_esc \/ \E key \in Keys : TypeKey(key)

Spec == Init /\ [][Next]_vars

-----------------------------------------------------------------------------
(* The question is left with two escapes in a row, which is what it asks   *)
(* for, and never with one, whatever else is typed and when                *)
(* (util.c:487-528; mconf.c:876-878).                                      *)
TwoEscapes ==
  answer = KEY_ESC =>
    \E i \in 1 .. Len(typed) - 1 : typed[i] = KEY_ESC /\ typed[i + 1] = KEY_ESC

(* It is answered with a key that means that answer; with a button only if *)
(* another key led to it (yesno.c:77-97).                                  *)
Typed(key) == \E i \in 1 .. Len(typed) : typed[i] = key
AnswerIsTyped ==
  /\ answer = "yes" => Typed("y") \/ Typed("enter")
  /\ answer = "no" => Typed("n") \/ (Typed("tab") /\ Typed("enter"))

(* "Display a dialog box with two buttons - Yes and No" (yesno.c:40): the  *)
(* button that is lit is the one that is pressed.                          *)
LitIsPressed == status = "open" => lit = button
=============================================================================
