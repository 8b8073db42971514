----------------------------- MODULE CheckList -----------------------------
(***************************************************************************)
(* dialog_checklist of src/tools/menuconfig/lxdialog/checklist.c, with the *)
(* calls that conf_choice (mconf.c) makes of it: the members of a choice,  *)
(* one of which is marked.                                                 *)
(***************************************************************************)
EXTENDS Integers, Sequences, FiniteSets

CONSTANTS
  Lists,         \* lists of the members that are visible
  list_height,   \* the lines for them, six in mconf
  Letters, HotKey,
  Member         \* the items that are symbols, and no comments

(* Assumed by the modules that use this one.                               *)
CheckListAssumption ==
  /\ DOMAIN HotKey \subseteq Nat
  /\ Lists \subseteq Seq(DOMAIN HotKey)
  /\ \A list \in Lists : Len(list) > 0
  /\ list_height \in Nat \ {0}

None == -1

VARIABLES
  status,        \* "open", "closed" or, when conf_choice has returned, "done"
  last,          \* the key that was handled last
  items,
  value,         \* the member that is y, tagged 'X'
  active,        \* conf_choice's, the member to start from
  marks,         \* the indices of the items that are selected
  scroll, choice,
  rows,          \* the rows of the window
  button

list_vars == <<items, value, active>>
vars == <<status, last, list_vars, marks, scroll, choice, rows, button>>

n == Len(items)
Size(list) == IF list_height < Len(list) THEN list_height ELSE Len(list)
max_choice == Size(items)

Row(item, selected) == [item |-> item, lit |-> selected]
Blank == Row(-1, FALSE)
print_item(window_rows, index, at, selected) ==
  [window_rows EXCEPT ![at] = Row(index, selected)]
wscrl(window_rows, by) ==
  IF list_height > 1
  THEN [i \in DOMAIN window_rows |->
          IF i + by \in DOMAIN window_rows THEN window_rows[i + by] ELSE Blank]
  ELSE window_rows

First(S) == CHOOSE i \in S : \A j \in S : i <= j
Indices(list, S) == {i \in 0 .. Len(list) - 1 : list[i + 1] \in S}

(* The items of the member to start from; without one, all comments.       *)
Selected(list, start) ==
  Indices(list, IF start = None THEN DOMAIN HotKey \ Member
                                ELSE {start} \cap Member)
MarkedAt(list, marked) == Indices(list, {marked})

(* The item to highlight: the first selected one, else the marked one.     *)
DefaultItem(selected, tagged) ==
  IF selected # {} THEN First(selected)
  ELSE IF tagged # {} THEN First(tagged) ELSE 0

ScrollFor(at, otherwise) ==
  IF at >= list_height THEN at - list_height + 1 ELSE otherwise

Drawn(list, to_scroll, to_choice) ==
  [i \in 0 .. Size(list) - 1 |-> Row(to_scroll + i, i = to_choice)]

(* conf_choice starts with the member that is y, and comes back to the one *)
(* whose help was asked for.                                               *)
Init ==
  /\ items \in Lists
  /\ value \in {items[i] : i \in 1 .. n} \cap Member
  /\ active = value
  /\ marks = Selected(items, active)
  /\ LET at == DefaultItem(marks, MarkedAt(items, value)) IN
     /\ scroll = ScrollFor(at, 0)
     /\ choice = at - scroll
     /\ rows = Drawn(items, scroll, choice)
  /\ status = "open" /\ last = "open" /\ button = 0

Open ==
  /\ status = "closed"
  /\ marks' = Selected(items, active)
  /\ LET at == DefaultItem(marks', MarkedAt(items, value)) IN
     /\ scroll' = ScrollFor(at, 0)
     /\ choice' = at - scroll'
     /\ rows' = Drawn(items, scroll', choice')
  /\ status' = "open" /\ last' = "open" /\ button' = 0
  /\ UNCHANGED list_vars

(* The variables of the call keep their values.                            *)
Resize ==
  /\ status = "open"
  /\ scroll' = ScrollFor(choice, scroll)
  /\ choice' = IF choice >= list_height THEN choice - scroll' ELSE choice
  /\ rows' = Drawn(items, scroll', choice')
  /\ last' = "resize"
  /\ UNCHANGED <<status, list_vars, marks, button>>

Moved(key, window_rows, to_scroll, to_choice) ==
  /\ last' = key
  /\ scroll' = to_scroll
  /\ choice' = to_choice
  /\ rows' = window_rows
  /\ UNCHANGED <<status, list_vars, marks, button>>

Unlit(at) == print_item(rows, scroll + at, at, FALSE)

MoveTo(key, i) ==
  Moved(key, IF i = choice THEN rows
             ELSE print_item(Unlit(choice), scroll + i, i, TRUE), scroll, i)

Up ==
  /\ status = "open"
  /\ IF choice > 0 THEN MoveTo("up", choice - 1)
     ELSE IF scroll = 0 THEN Moved("up", rows, scroll, choice)
     ELSE Moved("up", print_item(wscrl(Unlit(0), -1), scroll - 1, 0, TRUE),
                scroll - 1, choice)

Down ==
  /\ status = "open"
  /\ IF choice # max_choice - 1 THEN MoveTo("down", choice + 1)
     ELSE IF scroll + choice >= n - 1 THEN Moved("down", rows, scroll, choice)
     ELSE Moved("down", print_item(wscrl(Unlit(max_choice - 1), 1),
                                   scroll + max_choice, max_choice - 1, TRUE),
                scroll + 1, choice)

Matching(letter) ==
  {i \in 0 .. max_choice - 1 : HotKey[items[scroll + i + 1]] = letter}

Find(letter) ==
  /\ status = "open"
  /\ \E i \in Matching(letter) :
       (\A j \in Matching(letter) : i <= j) /\ MoveTo(letter, i)

PressButtons ==
  /\ status = "open"
  /\ button' = 1 - button
  /\ UNCHANGED <<status, last, list_vars, marks, scroll, choice, rows>>

(* All marks are taken away and the item under the cursor is marked; what  *)
(* conf_choice then acts on is the first that is marked.                   *)
(* Mutant: the marks before it stay.                                       *)
MarkPointedToo == marks' = marks \cup {scroll + choice}
MarkPointed == marks' = {scroll + choice}
Taken == items[First(marks') + 1]

(* A member becomes the value, a comment is none.                          *)
Select ==
  /\ status = "open" /\ button = 0
  /\ MarkPointed
  /\ value' = IF Taken \in Member THEN Taken ELSE value
  /\ status' = "done" /\ last' = "close"
  /\ UNCHANGED <<items, active, scroll, choice, rows, button>>

(* The help of the item is shown, and then the list again.                 *)
Help ==
  /\ status = "open"
  /\ MarkPointed
  /\ active' = IF Taken \in Member THEN Taken ELSE None
  /\ button' = 1
  /\ status' = "closed" /\ last' = "close"
  /\ UNCHANGED <<items, value, scroll, choice, rows>>

Leave ==
  /\ status = "open"
  /\ status' = "done" /\ last' = "close"
  /\ UNCHANGED <<list_vars, marks, scroll, choice, rows, button>>

Again ==
  /\ status = "done"
  /\ active' = value
  /\ status' = "closed"
  /\ UNCHANGED <<last, items, value, marks, scroll, choice, rows, button>>

Next ==
  \/ Open \/ Resize \/ Up \/ Down
  \/ \E letter \in Letters : Find(letter)
  \/ PressButtons \/ Select \/ Help \/ Leave \/ Again

Spec == Init /\ [][Next]_vars

-----------------------------------------------------------------------------
TypeOK ==
  /\ status \in {"open", "closed", "done"}
  /\ items \in Lists
  /\ value \in Member
  /\ active \in Member \cup {None}
  /\ marks \subseteq 0 .. n - 1
  /\ scroll \in Nat /\ choice \in Nat /\ button \in 0 .. 1

(* The window shows the items from scroll on, each in its row, and lights  *)
(* the one the cursor is on, however it was scrolled (checklist.c:213-284).*)
WindowShowsItems ==
  /\ scroll + max_choice <= n /\ choice < max_choice
  /\ rows = Drawn(items, scroll, choice)

(* What is taken is what is lit, and not an item that was marked before    *)
(* (checklist.c:290-299; mconf.c:741-758).                                 *)
TakesLit ==
  [][Select \/ Help =>
       \A i \in DOMAIN rows : rows[i].lit => Taken = items[rows[i].item + 1]]_vars

Cursor == INSTANCE ListCursor WITH
  MaxLines <- list_height, lines <- list_height, pos <- scroll + choice

(* The list keeps its promise of a cursor, window or not.                  *)
MovesCursor == Cursor!Spec
=============================================================================
