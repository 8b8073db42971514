------------------------------ MODULE MenuBox ------------------------------
(***************************************************************************)
(* dialog_menu of src/tools/menuconfig/lxdialog/menubox.c, and the calls   *)
(* that conf (mconf.c) makes of it for one menu.                           *)
(*                                                                         *)
(* Items are numbered from 0 and stand for their text; HotKey is the       *)
(* letter of a text that first_alpha finds.  What is on the screen is kept *)
(* row by row, and moved as wscrl moves it.                                *)
(***************************************************************************)
EXTENDS Integers, Sequences

CONSTANTS
  Lists, MaxLines, Letters, HotKey,
  Tagged         \* the items that have a tag and hence something to do

ASSUME MenuBoxAssumption ==
  /\ DOMAIN HotKey \subseteq Nat
  /\ Lists \subseteq Seq(DOMAIN HotKey)
  /\ \A list \in Lists :
       /\ Len(list) > 0
       /\ \A i, j \in 1 .. Len(list) : list[i] = list[j] => i = j
  /\ MaxLines \in Nat

None == -1

VARIABLES
  status,        \* "open", "closed", "prior" or "next" while a page is
                 \* scrolled, "crashed"
  last,          \* the key that was handled last
  items,         \* the list item_make built
  lines,         \* menu_height
  scroll, choice,
  first_item,
  rows,          \* the rows of the window
  button,
  left,          \* the rounds a page key has left
  s_scroll,      \* conf's, where a call leaves its scroll
  active_menu,   \* conf's, the item to start from
  from,          \* where the cursor was when a page key was pressed
  returned       \* history: since it was opened, a resize put a window that
                 \* had been drawn from further down back at the top

caller == <<s_scroll, active_menu>>
window == <<items, lines, scroll, choice, first_item, rows, returned>>
vars == <<status, last, window, button, left, caller, from>>

n == Len(items)
Size(list, height) == IF height < Len(list) THEN height ELSE Len(list)
max_choice == Size(items, lines)

-----------------------------------------------------------------------------
(* The window.                                                             *)

Row(item, selected) == [item |-> item, lit |-> selected]
Blank == Row(-1, FALSE)
print_item(window_rows, index, at, selected) ==
  [window_rows EXCEPT ![at] = Row(index, selected)]
(* Mutant: the rows go the other way.                                      *)
do_scrollBack(window_rows, by) ==
  [i \in DOMAIN window_rows |->
     IF i - by \in DOMAIN window_rows THEN window_rows[i - by] ELSE Blank]
do_scroll(window_rows, by) ==
  [i \in DOMAIN window_rows |->
     IF i + by \in DOMAIN window_rows THEN window_rows[i + by] ELSE Blank]

(* The default item is the one to start from, if it is in the list.        *)
DefaultItem(list, item, otherwise) ==
  IF \E i \in 1 .. Len(list) : list[i] = item
  THEN (CHOOSE i \in 1 .. Len(list) : list[i] = item) - 1
  ELSE otherwise

(* Mutant: a window that would show the item is moved all the same.        *)
PlacedAnew(size, max, at, saved, first) ==
  IF at < max
  THEN [scroll |-> 0, first |-> first, choice |-> at]
  ELSE IF at >= size - max \div 2
  THEN [scroll |-> size - max, first |-> size - max, choice |-> at - (size - max)]
  ELSE [scroll |-> at - max \div 2, first |-> at - max \div 2,
        choice |-> max \div 2]
(* Where the window is put so that it shows the item at.                   *)
Placed(size, max, at, saved, first) ==
  IF saved <= at /\ saved + max > at /\ saved >= 0 /\ saved + max <= size
  THEN [scroll |-> saved, first |-> saved, choice |-> at - saved]
  ELSE IF at < max
  THEN [scroll |-> 0, first |-> first, choice |-> at]
  ELSE IF at >= size - max \div 2
  THEN [scroll |-> size - max, first |-> size - max, choice |-> at - (size - max)]
  ELSE [scroll |-> at - max \div 2, first |-> at - max \div 2,
        choice |-> max \div 2]

(* From do_resize to the loop; print_item reads past a list that ends      *)
(* before the window does.                                                 *)
Draw(list, height, p) ==
  LET max == Size(list, height) IN
  /\ items' = list /\ lines' = height
  /\ scroll' = p.scroll /\ choice' = p.choice /\ first_item' = p.first
  /\ rows' = [i \in 0 .. max - 1 |-> Row(p.first + i, i = p.choice)]
  /\ returned' = (p.scroll = 0 /\ p.first > 0)
  /\ status' = IF p.first + max <= Len(list) THEN "open" ELSE "crashed"

-----------------------------------------------------------------------------
Opened(list, height, saved, item) ==
  Placed(Len(list), Size(list, height), DefaultItem(list, item, 0), saved, 0)

Init ==
  \E list \in Lists, height \in 1 .. MaxLines :
    LET p == Opened(list, height, 0, None)
        max == Size(list, height) IN
    /\ status = "open" /\ last = "open"
    /\ items = list /\ lines = height
    /\ scroll = p.scroll /\ choice = p.choice /\ first_item = p.first
    /\ rows = [i \in 0 .. max - 1 |-> Row(p.first + i, i = p.choice)]
    /\ button = 0 /\ left = 0
    /\ s_scroll = 0 /\ active_menu = None
    /\ from = 0 /\ returned = FALSE

(* conf shows the list again, as the last answer has changed it.           *)
Open ==
  /\ status = "closed"
  /\ \E list \in Lists, height \in 1 .. MaxLines :
       Draw(list, height, Opened(list, height, s_scroll, active_menu))
  /\ last' = "open" /\ button' = 0
  /\ UNCHANGED <<left, caller, from>>

(* The variables of the call keep their values, and so does the button.    *)
Resize ==
  /\ status = "open"
  /\ \E height \in 1 .. MaxLines :
       Draw(items, height,
            Placed(n, Size(items, height),
                   DefaultItem(items, active_menu, choice), s_scroll,
                   first_item))
  /\ last' = "resize"
  /\ UNCHANGED <<button, left, caller, from>>

(* A key that moved the cursor, or scrolled the rows below it.             *)
Moved(key, window_rows, to_scroll, to_choice) ==
  /\ last' = key
  /\ scroll' = to_scroll
  /\ choice' = to_choice
  /\ rows' = print_item(window_rows, to_scroll + to_choice, to_choice, TRUE)
  /\ UNCHANGED <<items, lines, first_item, button, caller, from,
                 returned>>

Unlit == print_item(rows, scroll + choice, choice, FALSE)

Up ==
  /\ status = "open"
  /\ IF choice < 2 /\ scroll > 0
     THEN Moved("up", print_item(do_scroll(Unlit, -1), scroll - 1, 0, FALSE),
                scroll - 1, choice)
     ELSE Moved("up", Unlit, scroll, IF choice > 0 THEN choice - 1 ELSE 0)
  /\ UNCHANGED <<status, left>>

Down ==
  /\ status = "open"
  /\ IF choice > max_choice - 3 /\ scroll + max_choice < n
     THEN Moved("down", print_item(do_scroll(Unlit, 1), scroll + max_choice,
                                   max_choice - 1, FALSE), scroll + 1, choice)
     ELSE Moved("down", Unlit, scroll,
                IF choice + 1 < max_choice THEN choice + 1 ELSE max_choice - 1)
  /\ UNCHANGED <<status, left>>

PressPage ==
  /\ status = "open"
  /\ status' \in {"prior", "next"}
  /\ rows' = Unlit
  /\ left' = max_choice
  /\ from' = scroll + choice
  /\ UNCHANGED <<last, items, lines, scroll, choice, first_item, button,
                 caller, returned>>

(* One round of the loop of a page key.                                    *)
ScrollPage ==
  /\ status \in {"prior", "next"} /\ left > 0
  /\ left' = left - 1
  /\ \/ /\ status = "prior"
        /\ IF scroll > 0
           THEN /\ scroll' = scroll - 1
                /\ rows' = print_item(do_scroll(rows, -1), scroll - 1, 0, FALSE)
                /\ UNCHANGED choice
           ELSE /\ choice' = IF choice > 0 THEN choice - 1 ELSE choice
                /\ UNCHANGED <<scroll, rows>>
     \/ /\ status = "next"
        /\ IF scroll + max_choice < n
           THEN /\ scroll' = scroll + 1
                /\ rows' = print_item(do_scroll(rows, 1), scroll + max_choice,
                                      max_choice - 1, FALSE)
                /\ UNCHANGED choice
           ELSE /\ choice' = IF choice + 1 < max_choice THEN choice + 1
                                                        ELSE choice
                /\ UNCHANGED <<scroll, rows>>
  /\ UNCHANGED <<status, last, items, lines, first_item, button, caller,
                 from, returned>>

EndPage ==
  /\ status \in {"prior", "next"} /\ left = 0
  /\ Moved(status, rows, scroll, choice)
  /\ status' = "open"
  /\ UNCHANGED left

(* The rows after the cursor with that letter, else all of them.           *)
After(letter) ==
  {i \in choice + 1 .. max_choice - 1 : HotKey[items[scroll + i + 1]] = letter}
Anywhere(letter) ==
  {i \in 0 .. max_choice - 1 : HotKey[items[scroll + i + 1]] = letter}
IsFirst(i, S) == i \in S /\ \A j \in S : i <= j

Find(letter) ==
  /\ status = "open"
  /\ \E i \in Anywhere(letter) :
       /\ IsFirst(i, IF After(letter) # {} THEN After(letter)
                                          ELSE Anywhere(letter))
       /\ Moved(letter, Unlit, scroll, i)
  /\ UNCHANGED <<status, left>>

(* Mutant: there is a button after the last.                               *)
PressButtonsFour ==
  /\ status = "open"
  /\ \E by \in {1, 2} : button' = (button + by) % 4
  /\ UNCHANGED <<status, last, window, left, caller, from>>
PressButtons ==
  /\ status = "open"
  /\ \E by \in {1, 2} : button' = (button + by) % 3
  /\ UNCHANGED <<status, last, window, left, caller, from>>

Closed(saved, item) ==
  /\ status' = "closed" /\ last' = "close"
  /\ s_scroll' = saved /\ active_menu' = item
  /\ UNCHANGED <<window, button, left, from>>

(* A key that acts on the item, which conf then starts from if it has a    *)
(* tag; the button Exit leaves the menu.                                   *)
Act ==
  /\ status = "open"
  /\ \/ Closed(scroll, IF items[scroll + choice + 1] \in Tagged
                       THEN items[scroll + choice + 1] ELSE active_menu)
     \/ button = 1 /\ Closed(0, None)

(* Escape, the letters for it and a screen that is too small: conf returns *)
(* and the next call is another one.                                       *)
Leave == status = "open" /\ Closed(0, None)

Next ==
  \/ Open \/ Resize \/ Up \/ Down \/ PressPage \/ ScrollPage \/ EndPage
  \/ \E letter \in Letters : Find(letter)
  \/ PressButtons \/ Act \/ Leave

Spec == Init /\ [][Next]_vars

-----------------------------------------------------------------------------
TypeOK ==
  /\ status \in {"open", "closed", "prior", "next", "crashed"}
  /\ items \in Lists /\ lines \in 1 .. MaxLines
  /\ scroll \in Nat /\ choice \in Nat /\ first_item \in Nat
  /\ button \in 0 .. 2
  /\ left \in 0 .. MaxLines
  /\ s_scroll \in Nat /\ active_menu \in (DOMAIN HotKey) \cup {None}
  /\ returned \in BOOLEAN

(* Whatever was scrolled, unlit and resized since, the window shows the    *)
(* items from scroll on, each in its row, and the cursor alone is lit;     *)
(* while a page is scrolled none is.  There is one exception: a resize     *)
(* that puts the window back at the top of its list leaves first_item      *)
(* where the window was drawn from before, and draws it from there, if     *)
(* need be past the end of the list (menubox.c:246-263, 259-344).          *)
WindowShowsItems ==
  ~ returned =>
    /\ status # "crashed"
    /\ rows = [i \in 0 .. max_choice - 1 |->
                 Row(scroll + i, i = choice /\ status \in {"open", "closed"})]

(* After any key and any resize, the window of scroll is within the list   *)
(* and the cursor within the window (menubox.c:246-344).                   *)
WithinList == scroll + max_choice <= n /\ choice < max_choice

(* When nothing but the values of the items has changed, the menu comes    *)
(* back as it was left: the same window with the same line in it           *)
(* (menubox.c:29-40, 246-263; mconf.c:605).                                *)
SameLine ==
  [][Open /\ items' = items /\ lines' = lines
       /\ active_menu = items[scroll + choice + 1]
     => scroll' = scroll /\ choice' = choice]_vars

(* Window and cursor together are a cursor in the list: the window is of   *)
(* no consequence to where a key leads (menubox.c:265-349).                *)
Cursor == INSTANCE ListCursor WITH
  pos <- IF status \in {"prior", "next"} THEN from ELSE scroll + choice

MovesCursor == Cursor!Spec

(* Menus may change and the screen may, the dialog never reads past its    *)
(* list (menubox.c:46-47).  It does, see the exception above.              *)
StaysUp == status # "crashed"

(* The cursor is in the window and the window in the list, always; and     *)
(* they are what is on the screen, unless a resize took the window back to *)
(* the top of its list and drew it from further down.                      *)
MenuShown == WindowShowsItems /\ WithinList

(* Keys move the cursor as if there were no window, and a menu that comes  *)
(* back with new values in the same items is left where it was.            *)
CursorKept == MovesCursor /\ SameLine
=============================================================================
