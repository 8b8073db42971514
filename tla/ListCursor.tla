----------------------------- MODULE ListCursor -----------------------------
(***************************************************************************)
(* What a list on the screen promises to whom moves through it, whatever   *)
(* part of the list fits the screen: one line with an arrow, one page with *)
(* a page key, both stopping at the ends, and an item of that letter with  *)
(* a letter.  MenuBox and CheckList keep this promise.                     *)
(***************************************************************************)
EXTENDS Integers, Sequences

CONSTANTS
  Lists,         \* the lists that are shown, sequences of items
  MaxLines,      \* the most lines there are for them on the screen
  Letters, HotKey

(* Assumed by the modules that use this one.                               *)
ListsAssumption ==
  /\ Lists \subseteq Seq(DOMAIN HotKey)
  /\ \A list \in Lists : Len(list) > 0
  /\ MaxLines \in Nat

VARIABLES
  last,          \* what was done last
  items,         \* the list
  lines,         \* its lines on the screen
  pos            \* where the cursor is, from 0

vars == <<last, items, lines, pos>>

n == Len(items)
PageSize == IF lines < n THEN lines ELSE n
Below(a, b) == IF a < b THEN b ELSE a
Above(a, b) == IF a > b THEN b ELSE a

Init ==
  /\ last = "open"
  /\ items \in Lists
  /\ lines \in 1 .. MaxLines
  /\ pos \in 0 .. n - 1

Move(key, to) ==
  /\ last' = key
  /\ pos' = to
  /\ UNCHANGED <<items, lines>>

Up == Move("up", Below(pos - 1, 0))
Down == Move("down", Above(pos + 1, n - 1))
PageUp == Move("prior", Below(pos - PageSize, 0))
PageDown == Move("next", Above(pos + PageSize, n - 1))
Find(letter) ==
  \E i \in 0 .. n - 1 : HotKey[items[i + 1]] = letter /\ Move(letter, i)

Resize ==
  /\ last' = "resize"
  /\ lines' \in 1 .. MaxLines
  /\ pos' \in 0 .. n - 1
  /\ UNCHANGED items

Close == last' = "close" /\ UNCHANGED <<items, lines, pos>>

Open ==
  /\ last' = "open"
  /\ items' \in Lists
  /\ lines' \in 1 .. MaxLines
  /\ pos' \in 0 .. n' - 1

Next ==
  \/ Up \/ Down \/ PageUp \/ PageDown
  \/ \E letter \in Letters : Find(letter)
  \/ Resize \/ Close \/ Open

Spec == Init /\ [][Next]_vars
=============================================================================
