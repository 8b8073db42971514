----------------------------- MODULE MCDialogs -----------------------------
(***************************************************************************)
(* The five dialogs of lxdialog, one of which is used.                     *)
(*                                                                         *)
(* Menus of two, three and five items in windows of up to four lines; one  *)
(* of the menus has some of the items of another, as it does when a value  *)
(* hides them.  Lists of up to six members in three lines.  A field of     *)
(* three columns for up to six characters, and a seventh at the start.     *)
(* Texts of up to seven lines, two of them search results, in boxes of up  *)
(* to four.                                                                *)
(***************************************************************************)
EXTENDS MenuBox

CONSTANTS
  Dialogs,                               \* those that may be used
  Members, list_height, Member,          \* a list
  Chars, MAX_LEN, box_width, Inits,      \* an input field
  Texts, Heights, JUMP_NB, MAX_SHIFT,    \* a text box
  MaxKeys                                \* a question

VARIABLES
  dialog,        \* the dialog that is used
  l_status, l_last, l_items, value, active, marks, l_scroll, l_choice, l_rows,
  l_button,
  i_status, instr, input_x, i_scroll, i_button, field, result, shifted,
  t_status, text, boxh, page, begin_reached, end_reached, page_length,
  hscroll, top, label, targets, vscroll,
  q_status, q_button, lit, answer, pending, typed

radio == <<l_status, l_last, l_items, value, active, marks, l_scroll, l_choice,
          l_rows, l_button>>
input == <<i_status, instr, input_x, i_scroll, i_button, field, result, shifted>>
textbox == <<t_status, text, boxh, page, begin_reached, end_reached,
             page_length, hscroll, top, label, targets, vscroll>>
question == <<q_status, q_button, lit, answer, pending, typed>>

FirstItems(k) == [i \in 1 .. k |-> i - 1]
MCLists == {FirstItems(2), FirstItems(5), <<0, 2, 3>>}
MCHotKey == [i \in 0 .. 5 |-> IF i \in {1, 4, 5} THEN "a" ELSE "b"]
MCMembers == {FirstItems(k) : k \in {1, 3, 4, 6}} \cup {<<0, 2, 3, 5>>}
MCInits ==
  {<< >>, <<"a", "b">>, <<"a", "b", "a", "b">>,
   <<"a", "b", "a", "b", "a", "b", "a">>}
Plain(k, ended) ==
  [lines |-> k, ended |-> ended, search |-> FALSE, jumps |-> {}]
Result(k, jumps) ==
  [lines |-> k, ended |-> TRUE, search |-> TRUE, jumps |-> jumps]
MCTexts ==
  {Plain(k, ended) : k \in {1, 2, 5, 7}, ended \in BOOLEAN}
    \cup {Result(7, {0, 1, 3, 5, 6}), Result(3, {1}), Result(1, {})}

L == INSTANCE CheckList WITH
  Lists <- Members, status <- l_status, last <- l_last, items <- l_items, scroll <- l_scroll,
  choice <- l_choice, rows <- l_rows, button <- l_button
I == INSTANCE InputBox WITH
  status <- i_status, scroll <- i_scroll, button <- i_button
T == INSTANCE TextBox WITH status <- t_status, MAX_LEN <- MAX_SHIFT
Q == INSTANCE YesNo WITH status <- q_status, button <- q_button

ASSUME DialogsAssumption ==
  L!CheckListAssumption /\ I!InputBoxAssumption /\ T!TextBoxAssumption

DialogsInit ==
  /\ dialog \in Dialogs
  /\ IF dialog = "menu" THEN Init
     ELSE Init /\ Len(items) = 2 /\ lines = 1
  /\ IF dialog = "list" THEN L!Init
     ELSE L!Init /\ Len(l_items) = 1
  /\ I!Init
  /\ IF dialog = "text" THEN T!Init
     ELSE T!Init /\ text.lines = 1 /\ text.ended /\ ~ text.search /\ boxh = 1
  /\ Q!Init

DialogsNext ==
  \/ /\ dialog = "menu" /\ Next
     /\ UNCHANGED <<dialog, radio, input, textbox, question>>
  \/ /\ dialog = "list" /\ L!Next
     /\ UNCHANGED <<dialog, vars, input, textbox, question>>
  \/ /\ dialog = "input" /\ I!Next
     /\ UNCHANGED <<dialog, vars, radio, textbox, question>>
  \/ /\ dialog = "text" /\ T!Next
     /\ UNCHANGED <<dialog, vars, radio, input, question>>
  \/ /\ dialog = "question" /\ Q!Next
     /\ UNCHANGED <<dialog, vars, radio, input, textbox>>

DialogsSpec ==
  DialogsInit /\ [][DialogsNext]_<<dialog, vars, radio, input, textbox, question>>

-----------------------------------------------------------------------------
(* The radio list and the input field show what they are at, and a         *)
(* question is answered by a key that was typed for it                     *)
(* (checklist.c:213-284; inputbox.c:87-165; yesno.c:74-108).  The field is *)
(* excepted that starts with more than its buffer holds, or was resized    *)
(* with a scroll its text is too short for.                                *)
AnswersShown ==
  /\ L!TypeOK /\ L!WindowShowsItems
  /\ I!TypeOK /\ I!AnswerInField
  /\ Q!TwoEscapes /\ Q!AnswerIsTyped

(* A text box knows where its page began, and the keys on it lead to the   *)
(* lines they are in front of (textbox.c:178-335; mconf.c:319-391).        *)
PagesKept == T!TypeOK /\ T!PageKept /\ T!KeysLead

(* One takes the member that is lit, after the same moves as in a list     *)
(* without a window, and edits change one character each, unless a resize  *)
(* has kept a scroll that the text is too short for (checklist.c:206-299;  *)
(* inputbox.c:103-165).                                                    *)
AnswersTaken == L!TakesLit /\ L!MovesCursor /\ I!EditsKept

(* Up and down move by a line or a page, sideways by none                  *)
(* (textbox.c:178-255).                                                    *)
LinesKept == T!LinesKept

(* "Now lxdialog is crash-safe ...": see StaysUp.  The others of the same  *)
(* origin: a resize keeps variables of the call that the screen, drawn     *)
(* anew, does not show.                                                    *)
ShownIsEntered == I!ShownIsEntered
CursorInField == I!CursorInField
LitIsPressed == Q!LitIsPressed
SamePage == T!SamePage
=============================================================================
