------------------------------ MODULE TextBox ------------------------------
(***************************************************************************)
(* dialog_textbox of src/tools/menuconfig/lxdialog/textbox.c, and the      *)
(* search results that search_conf (mconf.c) shows with it.                *)
(*                                                                         *)
(* A text is its number of lines, and whether the last one is ended by a   *)
(* newline.  page, a pointer into the text, is always at the beginning of  *)
(* a line, which it stands for here, or at the end of the text, the number *)
(* of lines.                                                               *)
(***************************************************************************)
EXTENDS Integers, FiniteSets

CONSTANTS
  Texts,         \* what is shown, as [lines, ended, search, jumps]; jumps are
                 \* the lines of a search result that one can jump to
  Heights,       \* the lines there may be for it on the screen
  JUMP_NB,       \* the most keys there are for that
  MAX_LEN        \* the farthest to the right

(* Assumed by the modules that use this one.                               *)
TextBoxAssumption ==
  /\ \A text \in Texts : /\ text.lines \in Nat \ {0} /\ text.ended \in BOOLEAN
                         /\ text.jumps \subseteq 0 .. text.lines - 1
  /\ Heights \subseteq Nat \ {0}
  /\ JUMP_NB \in Nat \ {0} /\ MAX_LEN \in Nat

VARIABLES
  status,        \* "open", "closed"
  text,
  boxh,          \* the lines of the box
  page, begin_reached, end_reached, page_length, hscroll,
  top,           \* the line in the first row of the box
  label,         \* the key in front of each line one can jump to, 0 if none
  targets,       \* the lines the keys in data->keys lead to
  vscroll        \* search_conf's, where to go on

box == <<boxh, page, begin_reached, end_reached, page_length, top>>
search == <<label, targets>>
vars == <<status, text, box, hscroll, search, vscroll>>

Larger(a, b) == IF a < b THEN b ELSE a
Smaller(a, b) == IF a < b THEN a ELSE b

At(p, begin, end) == [page |-> p, begin |-> begin, end |-> end]
Here == At(page, begin_reached, end_reached)

(* At the end of the text, once it was read past, the first round only     *)
(* takes that back.                                                        *)
(* Mutant: the end that was found is no line of its own.                   *)
back_linesOfText(s, k) ==
  At(Larger(s.page - k, 0), k > 0 /\ s.page <= k, s.end /\ k = 0)
back_lines(s, k) ==
  LET past == s.page = text.lines /\ s.end /\ k > 0
      by == IF past THEN k - 1 ELSE k IN
  At(Larger(s.page - by, 0), by > 0 /\ s.page <= by, s.end /\ ~ past)

(* The line that k calls of get_line, the last of them, find the end in.   *)
get_lines(s, k) ==
  At(Smaller(s.page + k, text.lines), s.begin,
     IF k = 0 THEN s.end
     ELSE s.page + k >= text.lines + (IF text.ended THEN 1 ELSE 0))

(* The lines of a page, with the one in which the end is found.            *)
(* Mutant: the lines of the text only.                                     *)
LengthOfText(first, height) == Smaller(height, text.lines - first)
Length(first, height) ==
  Smaller(height, IF text.ended THEN text.lines - first + 1
                  ELSE Larger(text.lines - first, 1))

(* Lines to jump to are numbered through the result, and the first ones of *)
(* a page get keys.                                                        *)
Index(line) == Cardinality({other \in text.jumps : other < line})
Key(line) == (Index(line) % JUMP_NB) + 1
Jumps(start, end) == {line \in text.jumps : line >= start /\ line < end}
Unlabelled == [line \in text.jumps |-> 0]
Keyed(jumps) ==
  {line \in jumps : Cardinality({other \in jumps : other < line}) < JUMP_NB}

update_text(start, end, keys) ==
  /\ targets' = Keyed(Jumps(start, end))
  /\ label' = [line \in text.jumps |->
                 IF line \in targets' THEN Key(line)
                 ELSE IF line \in Jumps(start, end) THEN 0 ELSE keys[line]]

(* A search result is read through and back first, to put in the keys.     *)
print_page(s, height, keys) ==
  LET ahead == get_lines(s, height)
      start == IF text.search THEN back_lines(ahead, height) ELSE s
      end == get_lines(start, height) IN
  /\ IF text.search THEN update_text(start.page, ahead.page, keys)
                        ELSE UNCHANGED search
  /\ page_length' = Length(start.page, height)
  /\ page' = end.page
  /\ begin_reached' = end.begin
  /\ end_reached' = end.end
  /\ top' = start.page

-----------------------------------------------------------------------------
Init ==
  /\ status = "closed"
  /\ text \in Texts
  /\ boxh \in Heights
  /\ page = 0 /\ begin_reached = TRUE /\ end_reached = FALSE
  /\ page_length = 0 /\ hscroll = 0 /\ top = 0 /\ vscroll = 0
  /\ label = Unlabelled /\ targets = {}

(* A search result is built again each time, without keys.                 *)
Open ==
  /\ status = "closed"
  /\ status' = "open"
  /\ boxh' \in Heights
  /\ LET start == get_lines(At(0, vscroll = 0, FALSE), vscroll) IN
     print_page(start, boxh', Unlabelled)
  /\ hscroll' = IF text.search THEN hscroll ELSE 0
  /\ UNCHANGED <<text, vscroll>>

Shown(s) ==
  /\ status = "open"
  /\ print_page(s, boxh, label)
  /\ UNCHANGED <<status, text, boxh, vscroll>>

Home ==
  /\ ~ begin_reached
  /\ Shown(At(0, TRUE, end_reached))
  /\ UNCHANGED hscroll
End ==
  /\ Shown(back_lines(At(text.lines, begin_reached, TRUE), boxh))
  /\ UNCHANGED hscroll
Up ==
  /\ ~ begin_reached
  /\ Shown(back_lines(Here, page_length + 1))
  /\ UNCHANGED hscroll
PageUp ==
  /\ ~ begin_reached
  /\ Shown(back_lines(Here, page_length + boxh))
  /\ UNCHANGED hscroll
Down ==
  /\ ~ end_reached
  /\ Shown(back_lines(Here, page_length - 1))
  /\ UNCHANGED hscroll
PageDown ==
  /\ ~ end_reached
  /\ Shown(At(page, FALSE, FALSE))
  /\ UNCHANGED hscroll

(* The current page is printed again, shifted.                             *)
Sideways ==
  /\ \/ hscroll > 0 /\ hscroll' \in {0, hscroll - 1}
     \/ hscroll < MAX_LEN /\ hscroll' = hscroll + 1
  /\ Shown(back_lines(Here, page_length))

(* The dialog is four lines higher than the box in it.                     *)
Resize ==
  /\ status = "open"
  /\ boxh' \in Heights
  /\ print_page(back_lines(Here, boxh + 4), boxh', label)
  /\ UNCHANGED <<status, text, hscroll, vscroll>>

(* A key that was put in leads into the menu of a line, and from there     *)
(* back to the search result.                                              *)
Close ==
  /\ status = "open"
  /\ status' = "closed"
  /\ vscroll' = IF text.search THEN back_lines(Here, page_length).page ELSE 0
  /\ UNCHANGED <<text, box, hscroll, search>>

Next ==
  \/ Open \/ Home \/ End \/ Up \/ PageUp \/ Down \/ PageDown
  \/ Sideways \/ Resize \/ Close

Spec == Init /\ [][Next]_vars

-----------------------------------------------------------------------------
TypeOK ==
  /\ status \in {"open", "closed"}
  /\ text \in Texts /\ boxh \in Heights
  /\ page \in 0 .. text.lines /\ top \in 0 .. text.lines
  /\ begin_reached \in BOOLEAN /\ end_reached \in BOOLEAN
  /\ (\E h \in Heights : page_length \in 0 .. h) /\ hscroll \in 0 .. MAX_LEN
  /\ label \in [text.jumps -> 0 .. JUMP_NB] /\ targets \subseteq text.jumps
  /\ vscroll \in 0 .. text.lines

(* Nothing but page and page_length tells where the page began: going back *)
(* by the one from the other leads to the line in the first row, and it is *)
(* known when that is the first of all (textbox.c:178-282, 313-335).       *)
PageKept ==
  status = "open" /\ text.ended =>
    /\ back_lines(Here, page_length).page = top
    /\ begin_reached = (top = 0)
    /\ end_reached = (top + boxh > text.lines)

(* In a text whose last line is ended an arrow moves by one line and a     *)
(* page key by the height of the box, neither past the ends; sideways, and *)
(* on coming back to a box of that height, the same lines are shown        *)
(* (textbox.c:178-255, 279-289; mconf.c:376-388).                          *)
LinesKept ==
  [][text.ended =>
       /\ Up => top' = top - 1
       /\ Down => top' = top + 1
       /\ PageUp => top' = Larger(top - boxh, 0)
       /\ PageDown => top' \in top + 1 .. top + boxh
       /\ Sideways => top' = top
       /\ Open /\ text.search /\ boxh' = boxh => top' = top]_vars

(* The keys in front of the lines on the screen are those that work, each  *)
(* leads to the line it is in front of, and no two are the same            *)
(* (mconf.c:319-349, 374-391).                                             *)
KeysLead ==
  status = "open" =>
    LET shown == {line \in text.jumps : line >= top /\ line < top + boxh} IN
    /\ targets = {line \in shown : label[line] # 0}
    /\ \A line, other \in targets :
         label[line] = label[other] => line = other

(* "Reprint current page to scroll horizontally" (textbox.c:229, 240):     *)
(* whatever the text, it is the current page.                              *)
SamePage == [][Sideways => top' = top]_vars
=============================================================================
