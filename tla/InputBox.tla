------------------------------ MODULE InputBox ------------------------------
(***************************************************************************)
(* dialog_inputbox of src/tools/menuconfig/lxdialog/inputbox.c: a line of  *)
(* text that is edited at its end, in a field that shows a part of it.     *)
(*                                                                         *)
(* The text a dialog starts with is copied to a buffer of MAX_LEN          *)
(* characters whatever its length.  A longer one is written past the end   *)
(* of it, which C leaves undefined: the dialog is "overrun" then and not   *)
(* followed.                                                               *)
(***************************************************************************)
EXTENDS Integers, Sequences, FiniteSets

CONSTANTS
  Chars,         \* the characters one can type
  MAX_LEN,       \* the most of them
  box_width,     \* the columns of the field
  Inits          \* the texts a dialog starts with

NUL == "NUL"
Space == "space"   \* an empty column, other than the character ' '

(* Assumed by the modules that use this one.                               *)
InputBoxAssumption ==
  /\ box_width \in Nat \ {0, 1} /\ MAX_LEN \in Nat /\ MAX_LEN >= box_width
  /\ Inits \subseteq Seq(Chars)
  /\ {NUL, Space} \cap Chars = {}

VARIABLES
  status,        \* "open", "closed" or "overrun"
  instr,         \* dialog_input_result, which no dialog clears
  input_x, scroll,
  button,        \* -1 in the field
  field,         \* the columns of the field
  result,        \* what the last dialog returned, "none" at first
  shifted        \* history: the last time the field was drawn, the text was
                 \* shorter than the field and a resize kept a scroll

vars == <<status, instr, input_x, scroll, button, field, result, shifted>>

strlen(buffer) == CHOOSE k \in 0 .. MAX_LEN :
  buffer[k] = NUL /\ \A i \in 0 .. k - 1 : buffer[i] # NUL
Text(buffer) == [i \in 1 .. strlen(buffer) |-> buffer[i - 1]]
strcpy(buffer, text) ==
  [i \in 0 .. MAX_LEN |-> IF i < Len(text) THEN text[i + 1]
                          ELSE IF i = Len(text) THEN NUL ELSE buffer[i]]

(* The first columns of a field that is filled from an index on.           *)
Filled(buffer, first, columns) ==
  [c \in 0 .. box_width - 1 |->
     IF c < columns THEN buffer[first + c] ELSE Space]

(* From do_resize to the loop.                                             *)
Draw(buffer, old_scroll) ==
  LET len == strlen(buffer) IN
  IF len >= box_width
  THEN /\ scroll' = len - box_width + 1
       /\ input_x' = box_width - 1
       /\ field' = Filled(buffer, scroll', box_width - 1)
       /\ shifted' = FALSE
  ELSE /\ scroll' = old_scroll
       /\ input_x' = len
       /\ field' = Filled(buffer, 0, len)
       /\ shifted' = (old_scroll > 0)

-----------------------------------------------------------------------------
Init ==
  /\ status = "closed" /\ result = "none"
  /\ instr = [i \in 0 .. MAX_LEN |-> NUL]
  /\ input_x = 0 /\ scroll = 0 /\ button = -1
  /\ field = [c \in 0 .. box_width - 1 |-> Space]
  /\ shifted = FALSE

Open ==
  /\ status = "closed"
  /\ \E text \in Inits :
       Len(text) <= MAX_LEN /\ instr' = strcpy(instr, text)
  /\ Draw(instr', 0)
  /\ button' = -1
  /\ status' = "open"
  /\ UNCHANGED result

OpenTooLong ==
  /\ status = "closed"
  /\ \E text \in Inits :
       Len(text) > MAX_LEN /\ instr' = strcpy(instr, text)
  /\ status' = "overrun"
  /\ UNCHANGED <<input_x, scroll, button, field, result, shifted>>

(* The variables of the call keep their values.                            *)
Resize ==
  /\ status = "open"
  /\ Draw(instr, scroll)
  /\ UNCHANGED <<status, instr, button, result>>

(* A character that is typed into the field; a full buffer takes none.     *)
Type(key) ==
  /\ status = "open" /\ button = -1
  /\ scroll + input_x < MAX_LEN
  /\ LET buffer == [instr EXCEPT ![scroll + input_x] = key,
                                 ![scroll + input_x + 1] = NUL] IN
     /\ instr' = buffer
     /\ IF input_x = box_width - 1
        THEN /\ scroll' = scroll + 1
             /\ field' = [Filled(buffer, scroll + 1, box_width - 1)
                            EXCEPT ![box_width - 1] = field[box_width - 1]]
             /\ UNCHANGED input_x
        ELSE /\ input_x' = input_x + 1
             /\ field' = [field EXCEPT ![input_x] = key]
             /\ UNCHANGED scroll
  /\ UNCHANGED <<status, button, result, shifted>>

(* With the cursor in the first column the text before it is brought back, *)
(* else the last character is taken away.  A write before the buffer is    *)
(* undefined, and not followed: see CursorInField.                         *)
Backspace ==
  /\ status = "open" /\ button = -1
  /\ input_x > 0 \/ scroll > 0
  /\ IF input_x = 0
     THEN /\ scroll' = IF scroll < box_width - 1 THEN 0
                                                 ELSE scroll - (box_width - 1)
          /\ input_x' = strlen(instr) - scroll'
          /\ field' = [[c \in 0 .. box_width - 1 |->
                          IF instr[scroll' + c] # NUL THEN instr[scroll' + c]
                                                      ELSE Space]
                        EXCEPT ![input_x'] = Space]
     ELSE /\ input_x' = input_x - 1
          /\ field' = [field EXCEPT ![input_x'] = Space]
          /\ UNCHANGED scroll
  /\ scroll' + input_x' >= 0
  /\ instr' = [instr EXCEPT ![scroll' + input_x'] = NUL]
  /\ UNCHANGED <<status, button, result, shifted>>

(* Arrows and tabulators go round the field and the two buttons.           *)
PressButtons ==
  /\ status = "open"
  /\ \/ button' = IF button = 1 THEN -1 ELSE button + 1
     \/ button' = IF button = -1 THEN 1 ELSE button - 1
  /\ UNCHANGED <<status, instr, input_x, scroll, field, result, shifted>>

Close ==
  /\ status = "open"
  /\ \/ result' = IF button = -1 THEN 0 ELSE button
     \/ button # -1 /\ result' \in {0, 1}
     \/ result' = "KEY_ESC"
  /\ status' = "closed"
  /\ UNCHANGED <<instr, input_x, scroll, button, field, shifted>>

Next ==
  \/ Open \/ OpenTooLong \/ Resize \/ Backspace \/ PressButtons \/ Close
  \/ \E key \in Chars : Type(key)

Spec == Init /\ [][Next]_vars

-----------------------------------------------------------------------------
TypeOK ==
  /\ status \in {"open", "closed", "overrun"}
  /\ \A i \in 0 .. MAX_LEN : instr[i] \in Chars \cup {NUL}
  /\ button \in -1 .. 1

(* The buffer is a string, the next character goes no further than its     *)
(* end and the cursor no further than that of the field, and while scroll  *)
(* is that of the field no further back than their beginnings              *)
(* (inputbox.c:87-98, 121-165).                                            *)
InBounds ==
  /\ \E i \in 0 .. MAX_LEN : instr[i] = NUL
  /\ scroll \in Nat /\ scroll + input_x <= MAX_LEN /\ input_x < box_width
  /\ ~ shifted => input_x >= 0

(* The cursor is at the end of the text and the field shows what is before *)
(* it, through typing, erasing over the end of the field and resizes.      *)
(* There is one exception: a resize that finds a text that is shorter than *)
(* the field, as erasing has left it, with a scroll (inputbox.c:85-99).    *)
FieldShowsText ==
  ~ shifted =>
    /\ scroll + input_x = strlen(instr)
    /\ field = Filled(instr, scroll, input_x)

(* An answer has what was shown and typed, if what there was at first      *)
(* fits the buffer: nothing bounds the copy (inputbox.c:52-55).            *)
AnswerInField == status # "overrun" => InBounds /\ FieldShowsText

(* What one types is added and what one erases is taken away, one          *)
(* character at a time, and nothing else changes an answer, as long as no  *)
(* resize has kept a scroll that the text is too short for.                *)
EditsKept ==
  [][~ shifted /\ status = "open" /\ instr' # instr =>
       \/ \E key \in Chars : Text(instr') = Append(Text(instr), key)
       \/ Text(instr) # << >> /\ Text(instr') = SubSeq(Text(instr), 1, Len(Text(instr)) - 1)]_vars

(* The cursor is in the field.  It is not: a resize may leave a scroll     *)
(* that no text is behind, and what is brought back to it from there ends  *)
(* before the field does; erasing more than that writes before the buffer. *)
CursorInField == input_x >= 0

(* The characters in the field are all in the answer.                      *)
ShownIsEntered ==
  status = "open" =>
    Cardinality({c \in 0 .. box_width - 1 : field[c] # Space})
      <= strlen(instr)
=============================================================================
