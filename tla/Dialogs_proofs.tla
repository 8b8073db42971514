--------------------------- MODULE Dialogs_proofs ---------------------------
(***************************************************************************)
(* The dialogs, whatever the lists, texts, answers, screens and keys: what *)
(* they show is where they are, and what is taken is what is shown.  For   *)
(* each of them there is its inductive invariant, and a lemma for each of  *)
(* its actions; the theorems on all five are at the end.                   *)
(***************************************************************************)
EXTENDS MCDialogs, BlockArithmetic, FiniteSetTheorems, TLAPS

-----------------------------------------------------------------------------
(* menubox.c.                                                              *)

Paging == status \in {"prior", "next"}
Up0(a) == IF a < 0 THEN 0 ELSE a
DownTo(a, b) == IF a > b THEN b ELSE a

(* How far a page key has come: a line a round, unless at an end.          *)
PagePosition ==
  Paging =>
    /\ left \in 0 .. max_choice /\ from \in 0 .. n - 1
    /\ scroll + choice =
         IF status = "prior" THEN Up0(from - (max_choice - left))
         ELSE DownTo(from + (max_choice - left), n - 1)

(* What a call leaves for the next one.                                    *)
Left ==
  status = "closed" =>
    active_menu = None \/ s_scroll = scroll

MenuInv == TypeOK /\ WithinList /\ WindowShowsItems /\ PagePosition /\ Left

LEMMA ListFacts ==
  ASSUME NEW list \in Lists
  PROVE  /\ list \in Seq(DOMAIN HotKey) /\ Len(list) \in Nat \ {0}
         /\ \A i \in 1 .. Len(list) : list[i] \in DOMAIN HotKey
         /\ \A i, j \in 1 .. Len(list) : list[i] = list[j] => i = j
<1>1. list \in Seq(DOMAIN HotKey) /\ Len(list) > 0
      /\ \A i, j \in 1 .. Len(list) : list[i] = list[j] => i = j
  BY MenuBoxAssumption
<1> QED BY <1>1

LEMMA SizeFacts ==
  ASSUME NEW list \in Lists, NEW height \in 1 .. MaxLines
  PROVE  Size(list, height) \in 1 .. Len(list) /\ Size(list, height) <= MaxLines
<1>1. Len(list) \in Nat \ {0} /\ MaxLines \in Nat
  BY ListFacts, MenuBoxAssumption
<1> QED BY <1>1 DEF Size

LEMMA DefaultInList ==
  ASSUME NEW list \in Lists, NEW item, NEW otherwise \in 0 .. Len(list) - 1
  PROVE  DefaultItem(list, item, otherwise) \in 0 .. Len(list) - 1
<1>1. Len(list) \in Nat \ {0}
  BY ListFacts
<1>2. CASE \E i \in 1 .. Len(list) : list[i] = item
  <2>1. (CHOOSE i \in 1 .. Len(list) : list[i] = item) \in 1 .. Len(list)
    BY <1>2
  <2> QED BY <1>1, <1>2, <2>1 DEF DefaultItem
<1>3. CASE ~ \E i \in 1 .. Len(list) : list[i] = item
  BY <1>3 DEF DefaultItem
<1> QED BY <1>2, <1>3

(* Wherever it is put, the window shows the item and is inside the list.   *)
LEMMA PlacedShows ==
  ASSUME NEW size \in Nat, NEW max \in 1 .. size, NEW at \in 0 .. size - 1,
         NEW saved \in Nat, NEW first \in Nat
  PROVE  LET p == Placed(size, max, at, saved, first) IN
         /\ p.scroll \in Nat /\ p.choice \in Nat /\ p.first \in Nat
         /\ p.scroll + p.choice = at
         /\ p.scroll + max <= size /\ p.choice < max
         /\ p.first \in {p.scroll, first}
         /\ p.first = p.scroll \/ p.scroll = 0
         /\ saved <= at /\ saved + max > at /\ saved + max <= size
              => p.scroll = saved
<1> DEFINE h == max \div 2
<1>1. h \in Nat /\ 2 * h <= max /\ max <= 2 * h + 1 /\ h < max
  OBVIOUS
<1> HIDE DEF h
<1>2. max \in Nat /\ max >= 1 /\ max <= size /\ at \in Nat /\ at < size
  OBVIOUS
<1>3. CASE saved <= at /\ saved + max > at /\ saved >= 0 /\ saved + max <= size
  BY <1>2, <1>3 DEF Placed
<1>4. CASE ~ (saved <= at /\ saved + max > at /\ saved >= 0 /\ saved + max <= size)
  <2>1. CASE at < max
    BY <1>2, <1>4, <2>1 DEF Placed
  <2>2. CASE ~ (at < max) /\ at >= size - h
    <3>1. Placed(size, max, at, saved, first) =
            [scroll |-> size - max, first |-> size - max,
             choice |-> at - (size - max)]
      BY <1>4, <2>2 DEF Placed, h
    <3> QED BY <1>1, <1>2, <1>4, <2>2, <3>1
  <2>3. CASE ~ (at < max) /\ ~ (at >= size - h)
    <3>1. Placed(size, max, at, saved, first) =
            [scroll |-> at - h, first |-> at - h, choice |-> h]
      BY <1>4, <2>3 DEF Placed, h
    <3>2. at - h \in Nat /\ (at - h) + h = at /\ (at - h) + max <= size /\ h < max
      BY <1>1, <1>2, <2>3
    <3> QED BY <1>1, <1>2, <1>4, <3>1, <3>2
  <2> QED BY <2>1, <2>2, <2>3
<1> QED BY <1>3, <1>4

(* A window that is drawn anew.                                            *)
LEMMA DrawnShows ==
  ASSUME NEW list \in Lists, NEW height \in 1 .. MaxLines,
         NEW at \in 0 .. Len(list) - 1, NEW saved \in Nat, NEW first \in Nat,
         Draw(list, height, Placed(Len(list), Size(list, height), at, saved, first))
  PROVE  /\ items' \in Lists /\ lines' \in 1 .. MaxLines
         /\ scroll' \in Nat /\ choice' \in Nat /\ first_item' \in Nat
         /\ returned' \in BOOLEAN /\ status' \in {"open", "crashed"}
         /\ WithinList' /\ WindowShowsItems' /\ PagePosition' /\ Left'
         /\ scroll' + choice' = at
<1> DEFINE size == Len(list)
           max == Size(list, height)
           p == Placed(size, max, at, saved, first)
<1>1. size \in Nat /\ max \in 1 .. size /\ at \in 0 .. size - 1
  BY ListFacts, SizeFacts
<1> HIDE DEF size, max
<1>2. /\ p.scroll \in Nat /\ p.choice \in Nat /\ p.first \in Nat
      /\ p.scroll + p.choice = at
      /\ p.scroll + max <= size /\ p.choice < max
      /\ p.first = p.scroll \/ p.scroll = 0
  BY <1>1, PlacedShows
<1>3. /\ items' = list /\ lines' = height /\ scroll' = p.scroll
      /\ choice' = p.choice /\ first_item' = p.first
      /\ rows' = [i \in 0 .. max - 1 |-> Row(p.first + i, i = p.choice)]
      /\ returned' = (p.scroll = 0 /\ p.first > 0)
      /\ status' = IF p.first + max <= size THEN "open" ELSE "crashed"
  BY DEF Draw, size, max
<1>4. n' = size /\ max_choice' = max
  BY <1>3 DEF n, max_choice, size, max
<1> HIDE DEF p
<1>5. WithinList'
  BY <1>2, <1>3, <1>4 DEF WithinList
<1>6. WindowShowsItems'
  <2>1. SUFFICES ASSUME ~ returned'
                 PROVE  /\ status' = "open"
                        /\ rows' = [i \in 0 .. max_choice' - 1 |->
                          Row(scroll' + i, i = choice' /\ status' \in {"open", "closed"})]
    BY DEF WindowShowsItems
  <2>2. p.first = p.scroll
    <3>1. ~ (p.scroll = 0 /\ p.first > 0)
      BY <1>3, <2>1, Zenon
    <3> QED BY <1>2, <3>1
  <2>3. status' = "open"
    BY <1>2, <1>3, <2>2
  <2> QED BY <1>3, <1>4, <2>2, <2>3
<1>7. PagePosition' /\ Left'
  BY <1>3 DEF PagePosition, Paging, Left
<1> QED BY <1>2, <1>3, <1>5, <1>6, <1>7

-----------------------------------------------------------------------------
(* The rows of a window of max lines from an item on, none of them lit,    *)
(* and with one of them lit.                                               *)
Fits(max, s) == [i \in 0 .. max - 1 |-> Row(s + i, FALSE)]
Lit(max, s, c) == [i \in 0 .. max - 1 |-> Row(s + i, i = c)]

(* Rows that were scrolled, with the new line printed, are those of the    *)
(* window one line on.                                                     *)
LEMMA RowsFollow ==
  ASSUME NEW max \in Nat \ {0}, NEW s \in Nat, NEW c \in 0 .. max - 1
  PROVE  /\ print_item(Lit(max, s, c), s + c, c, FALSE) = Fits(max, s)
         /\ print_item(Fits(max, s), s + c, c, TRUE) = Lit(max, s, c)
         /\ print_item(do_scroll(Fits(max, s), -1), s - 1, 0, FALSE)
              = Fits(max, s - 1)
         /\ print_item(do_scroll(Fits(max, s), 1), s + max, max - 1, FALSE)
              = Fits(max, s + 1)
<1>1. print_item(Lit(max, s, c), s + c, c, FALSE) = Fits(max, s)
  BY DEF print_item, Lit, Fits, Row
<1>2. print_item(Fits(max, s), s + c, c, TRUE) = Lit(max, s, c)
  BY DEF print_item, Lit, Fits, Row
<1>3. ASSUME NEW by
      PROVE  do_scroll(Fits(max, s), by) =
               [i \in 0 .. max - 1 |->
                  IF i + by \in 0 .. max - 1
                  THEN Row(s + (i + by), FALSE) ELSE Blank]
  BY DEF do_scroll, Fits
<1>4. print_item(do_scroll(Fits(max, s), -1), s - 1, 0, FALSE)
        = Fits(max, s - 1)
  <2> DEFINE f == [i \in 0 .. max - 1 |->
                     IF i + (-1) \in 0 .. max - 1
                     THEN Row(s + (i + (-1)), FALSE) ELSE Blank]
  <2>1. do_scroll(Fits(max, s), -1) = f
    BY <1>3
  <2>2. ASSUME NEW i \in 0 .. max - 1
        PROVE  [f EXCEPT ![0] = Row(s - 1, FALSE)][i] = Row((s - 1) + i, FALSE)
    <3>1. CASE i = 0
      BY <3>1
    <3>2. CASE i # 0
      <4>1. i + (-1) \in 0 .. max - 1 /\ s + (i + (-1)) = (s - 1) + i
        BY <3>2
      <4> QED BY <3>2, <4>1
    <3> QED BY <3>1, <3>2
  <2>3. [f EXCEPT ![0] = Row(s - 1, FALSE)]
          = [i \in 0 .. max - 1 |-> Row((s - 1) + i, FALSE)]
    BY <2>2
  <2> QED BY <2>1, <2>3 DEF print_item, Fits
<1>5. print_item(do_scroll(Fits(max, s), 1), s + max, max - 1, FALSE)
        = Fits(max, s + 1)
  <2> DEFINE f == [i \in 0 .. max - 1 |->
                     IF i + (1) \in 0 .. max - 1
                     THEN Row(s + (i + (1)), FALSE) ELSE Blank]
  <2>1. do_scroll(Fits(max, s), 1) = f
    BY <1>3
  <2>2. ASSUME NEW i \in 0 .. max - 1
        PROVE  [f EXCEPT ![max - 1] = Row(s + max, FALSE)][i] = Row((s + 1) + i, FALSE)
    <3>1. CASE i = max - 1
      <4>1. (s + 1) + i = s + max /\ max - 1 \in 0 .. max - 1
        BY <3>1
      <4> QED BY <3>1, <4>1
    <3>2. CASE i # max - 1
      <4>1. i + (1) \in 0 .. max - 1 /\ s + (i + (1)) = (s + 1) + i
        BY <3>2
      <4> QED BY <3>2, <4>1
    <3> QED BY <3>1, <3>2
  <2>3. [f EXCEPT ![max - 1] = Row(s + max, FALSE)]
          = [i \in 0 .. max - 1 |-> Row((s + 1) + i, FALSE)]
    BY <2>2
  <2> QED BY <2>1, <2>3 DEF print_item, Fits
<1> QED BY <1>1, <1>2, <1>4, <1>5

(* What the invariant says of a call that is going on.                     *)
LEMMA Window ==
  ASSUME MenuInv, status \in {"open", "prior", "next"}
  PROVE  /\ n \in Nat \ {0} /\ max_choice \in 1 .. n
         /\ max_choice \in Nat \ {0} /\ lines \in 1 .. MaxLines
         /\ max_choice <= MaxLines
         /\ scroll \in Nat /\ choice \in 0 .. max_choice - 1
         /\ scroll + max_choice <= n
         /\ ~ returned => rows = IF status = "open"
                                 THEN Lit(max_choice, scroll, choice)
                                 ELSE Fits(max_choice, scroll)
<1>1. items \in Lists /\ lines \in 1 .. MaxLines /\ scroll \in Nat /\ choice \in Nat
  BY DEF MenuInv, TypeOK
<1>2. n \in Nat \ {0} /\ max_choice \in 1 .. n /\ max_choice <= MaxLines
  BY <1>1, ListFacts, SizeFacts DEF n, max_choice
<1>3. scroll + max_choice <= n /\ choice < max_choice
  BY DEF MenuInv, WithinList
<1>4. max_choice \in Nat \ {0}
  BY <1>2
<1>5. ~ returned => rows = IF status = "open"
                           THEN Lit(max_choice, scroll, choice)
                           ELSE Fits(max_choice, scroll)
  BY DEF MenuInv, WindowShowsItems, Lit, Fits
<1> QED BY <1>1, <1>2, <1>3, <1>4, <1>5

(* A key that moved the cursor ends with the cursor lit.                   *)
LEMMA MovedShows ==
  ASSUME MenuInv, status \in {"open", "prior", "next"},
         NEW key, NEW window_rows, NEW s \in Nat, NEW c \in 0 .. max_choice - 1,
         s + max_choice <= n,
         ~ returned => window_rows = Fits(max_choice, s),
         Moved(key, window_rows, s, c), status' = "open", left' = left
  PROVE  MenuInv' /\ scroll' = s /\ choice' = c /\ last' = key
         /\ items' = items /\ lines' = lines
<1>1. /\ scroll' = s /\ choice' = c /\ last' = key
      /\ rows' = print_item(window_rows, s + c, c, TRUE)
      /\ UNCHANGED <<items, lines, first_item, button, s_scroll, active_menu,
                     from, returned>>
  BY DEF Moved, caller
<1>2. n' = n /\ max_choice' = max_choice /\ max_choice \in Nat \ {0}
  BY <1>1, Window DEF n, max_choice
<1>3. TypeOK'
  BY <1>1, <1>2 DEF MenuInv, TypeOK
<1>4. WithinList'
  BY <1>1, <1>2 DEF WithinList
<1>5. WindowShowsItems'
  <2>1. ~ returned => rows' = Lit(max_choice, s, c)
    BY <1>1, <1>2, RowsFollow
  <2> QED BY <1>1, <1>2, <2>1 DEF WindowShowsItems, Lit
<1>6. PagePosition' /\ Left'
  BY DEF PagePosition, Paging, Left
<1> QED BY <1>1, <1>3, <1>4, <1>5, <1>6 DEF MenuInv

-----------------------------------------------------------------------------
LEMMA InitHolds == Init => MenuInv /\ Cursor!Init
<1>1. SUFFICES ASSUME Init PROVE MenuInv /\ Cursor!Init
  OBVIOUS
<1>2. PICK list \in Lists, height \in 1 .. MaxLines :
        LET p == Opened(list, height, 0, None)
            max == Size(list, height) IN
        /\ status = "open" /\ last = "open"
        /\ items = list /\ lines = height
        /\ scroll = p.scroll /\ choice = p.choice /\ first_item = p.first
        /\ rows = [i \in 0 .. max - 1 |-> Row(p.first + i, i = p.choice)]
        /\ button = 0 /\ left = 0
        /\ s_scroll = 0 /\ active_menu = None
        /\ from = 0 /\ returned = FALSE
  BY <1>1 DEF Init
<1> DEFINE size == Len(list)
           max == Size(list, height)
           at == DefaultItem(list, None, 0)
           p == Placed(size, max, at, 0, 0)
<1>3. size \in Nat \ {0} /\ max \in 1 .. size /\ at \in 0 .. size - 1
  BY ListFacts, SizeFacts, DefaultInList
<1>4. Opened(list, height, 0, None) = p
  BY DEF Opened
<1> HIDE DEF size, max, at
<1>5. /\ p.scroll \in Nat /\ p.choice \in Nat /\ p.first \in Nat
      /\ p.scroll + p.choice = at
      /\ p.scroll + max <= size /\ p.choice < max
      /\ p.first \in {p.scroll, 0}
  BY <1>3, PlacedShows
<1>6. p.first = p.scroll
  BY <1>3, <1>5 DEF Placed
<1> HIDE DEF p
<1>7. /\ status = "open" /\ last = "open" /\ items = list /\ lines = height
      /\ scroll = p.scroll /\ choice = p.choice /\ first_item = p.first
      /\ rows = [i \in 0 .. max - 1 |-> Row(p.first + i, i = p.choice)]
      /\ button = 0 /\ left = 0 /\ s_scroll = 0 /\ active_menu = None
      /\ from = 0 /\ returned = FALSE
  BY <1>2, <1>4 DEF max
<1>8. n = size /\ max_choice = max
  BY <1>7 DEF n, max_choice, size, max
<1>9. TypeOK
  <2>1. MaxLines \in Nat /\ list \in Lists
    BY MenuBoxAssumption
  <2>2. scroll \in Nat /\ choice \in Nat /\ first_item \in Nat
    BY <1>5, <1>7
  <2>3. active_menu \in (DOMAIN HotKey) \cup {None}
    BY <1>7
  <2>4. returned \in BOOLEAN
    BY <1>7
  <2>5. lines \in 1 .. MaxLines /\ left \in 0 .. MaxLines /\ button \in 0 .. 2
        /\ s_scroll \in Nat /\ items \in Lists
        /\ status \in {"open", "closed", "prior", "next", "crashed"}
    BY <1>7, <2>1
  <2> QED BY <2>2, <2>3, <2>4, <2>5 DEF TypeOK
<1>10. WithinList /\ WindowShowsItems /\ PagePosition /\ Left
  BY <1>5, <1>6, <1>7, <1>8
     DEF WithinList, WindowShowsItems, PagePosition, Paging, Left
<1>11. Cursor!Init
  BY <1>3, <1>5, <1>7, <1>8 DEF Cursor!Init, Cursor!n, n
<1> QED BY <1>9, <1>10, <1>11 DEF MenuInv

LEMMA OpenStep == MenuInv /\ Open => MenuInv' /\ Cursor!Open
<1>1. SUFFICES ASSUME MenuInv, Open PROVE MenuInv' /\ Cursor!Open
  OBVIOUS
<1>2. PICK list \in Lists, height \in 1 .. MaxLines :
        Draw(list, height, Opened(list, height, s_scroll, active_menu))
  BY <1>1 DEF Open
<1> DEFINE at == DefaultItem(list, active_menu, 0)
<1>3. at \in 0 .. Len(list) - 1 /\ s_scroll \in Nat
  BY <1>1, ListFacts, DefaultInList DEF MenuInv, TypeOK
<1>4. Draw(list, height,
           Placed(Len(list), Size(list, height), at, s_scroll, 0))
  BY <1>2 DEF Opened
<1> HIDE DEF at
<1>5. /\ items' \in Lists /\ lines' \in 1 .. MaxLines
      /\ scroll' \in Nat /\ choice' \in Nat /\ first_item' \in Nat
      /\ returned' \in BOOLEAN /\ status' \in {"open", "crashed"}
      /\ WithinList' /\ WindowShowsItems' /\ PagePosition' /\ Left'
      /\ scroll' + choice' = at
  BY <1>3, <1>4, DrawnShows
<1>6. last' = "open" /\ button' = 0
      /\ UNCHANGED <<left, s_scroll, active_menu, from>>
  BY <1>1 DEF Open, caller
<1>7. items' = list
  BY <1>4 DEF Draw
<1>8. TypeOK'
  BY <1>1, <1>5, <1>6 DEF MenuInv, TypeOK
<1>9. Cursor!Open
  BY <1>3, <1>5, <1>6, <1>7 DEF Cursor!Open, Cursor!n
<1> QED BY <1>5, <1>8, <1>9 DEF MenuInv

LEMMA ResizeStep == MenuInv /\ Resize => MenuInv' /\ Cursor!Resize
<1>1. SUFFICES ASSUME MenuInv, Resize PROVE MenuInv' /\ Cursor!Resize
  OBVIOUS
<1>2. PICK height \in 1 .. MaxLines :
        Draw(items, height,
             Placed(n, Size(items, height),
                    DefaultItem(items, active_menu, choice), s_scroll,
                    first_item))
  BY <1>1 DEF Resize
<1> DEFINE at == DefaultItem(items, active_menu, choice)
<1>3. at \in 0 .. Len(items) - 1 /\ s_scroll \in Nat /\ first_item \in Nat
      /\ items \in Lists
  <2>1. items \in Lists /\ s_scroll \in Nat /\ first_item \in Nat
    BY <1>1 DEF MenuInv, TypeOK
  <2>2. choice \in 0 .. Len(items) - 1
    BY <1>1, Window DEF Resize, n
  <2> QED BY <2>1, <2>2, DefaultInList
<1>4. Draw(items, height,
           Placed(Len(items), Size(items, height), at, s_scroll, first_item))
  BY <1>2 DEF n
<1> HIDE DEF at
<1>5. /\ items' \in Lists /\ lines' \in 1 .. MaxLines
      /\ scroll' \in Nat /\ choice' \in Nat /\ first_item' \in Nat
      /\ returned' \in BOOLEAN /\ status' \in {"open", "crashed"}
      /\ WithinList' /\ WindowShowsItems' /\ PagePosition' /\ Left'
      /\ scroll' + choice' = at
  BY <1>3, <1>4, DrawnShows
<1>6. last' = "resize"
      /\ UNCHANGED <<button, left, s_scroll, active_menu, from>>
  BY <1>1 DEF Resize, caller
<1>7. items' = items
  BY <1>4 DEF Draw
<1>8. TypeOK'
  BY <1>1, <1>5, <1>6 DEF MenuInv, TypeOK
<1>9. Cursor!Resize
  BY <1>3, <1>5, <1>6, <1>7 DEF Cursor!Resize, Cursor!n
<1> QED BY <1>5, <1>8, <1>9 DEF MenuInv

LEMMA UpStep == MenuInv /\ Up => MenuInv' /\ Cursor!Up
<1>1. SUFFICES ASSUME MenuInv, Up PROVE MenuInv' /\ Cursor!Up
  OBVIOUS
<1>2. /\ n \in Nat \ {0} /\ max_choice \in Nat \ {0} /\ max_choice <= n /\ scroll \in Nat
      /\ choice \in 0 .. max_choice - 1 /\ scroll + max_choice <= n
      /\ ~ returned => rows = Lit(max_choice, scroll, choice)
      /\ status = "open" /\ status' = "open" /\ left' = left
  BY <1>1, Window DEF Up
<1>3. ~ returned => Unlit = Fits(max_choice, scroll)
  BY <1>2, RowsFollow DEF Unlit
<1>4. CASE choice < 2 /\ scroll > 0
  <2> DEFINE drawn == print_item(do_scroll(Unlit, -1), scroll - 1, 0, FALSE)
  <2>1. Moved("up", drawn, scroll - 1, choice)
    BY <1>1, <1>4 DEF Up
  <2>2. ~ returned => drawn = Fits(max_choice, scroll - 1)
    BY <1>2, <1>3, RowsFollow
  <2> HIDE DEF drawn
  <2>3. scroll - 1 \in Nat /\ (scroll - 1) + max_choice <= n
    BY <1>2, <1>4
  <2>4. /\ MenuInv' /\ scroll' = scroll - 1 /\ choice' = choice /\ last' = "up"
        /\ items' = items /\ lines' = lines
    BY <1>1, <1>2, <2>1, <2>2, <2>3, MovedShows
  <2> QED BY <1>2, <1>4, <2>4 DEF Cursor!Up, Cursor!Move, Cursor!Below
<1>5. CASE ~ (choice < 2 /\ scroll > 0)
  <2> DEFINE c == IF choice > 0 THEN choice - 1 ELSE 0
  <2>1. Moved("up", Unlit, scroll, c)
    BY <1>1, <1>5 DEF Up
  <2>2. c \in 0 .. max_choice - 1
    BY <1>2
  <2> HIDE DEF c
  <2>3. /\ MenuInv' /\ scroll' = scroll /\ choice' = c /\ last' = "up"
        /\ items' = items /\ lines' = lines
    BY <1>1, <1>2, <1>3, <2>1, <2>2, MovedShows
  <2>4. scroll + c = IF scroll + choice - 1 < 0 THEN 0 ELSE scroll + choice - 1
    BY <1>2, <1>5 DEF c
  <2> QED BY <1>2, <2>3, <2>4 DEF Cursor!Up, Cursor!Move, Cursor!Below
<1> QED BY <1>4, <1>5

LEMMA DownStep == MenuInv /\ Down => MenuInv' /\ Cursor!Down
<1>1. SUFFICES ASSUME MenuInv, Down PROVE MenuInv' /\ Cursor!Down
  OBVIOUS
<1>2. /\ n \in Nat \ {0} /\ max_choice \in Nat \ {0} /\ max_choice <= n /\ scroll \in Nat
      /\ choice \in 0 .. max_choice - 1 /\ scroll + max_choice <= n
      /\ ~ returned => rows = Lit(max_choice, scroll, choice)
      /\ status = "open" /\ status' = "open" /\ left' = left
  BY <1>1, Window DEF Down
<1>3. ~ returned => Unlit = Fits(max_choice, scroll)
  BY <1>2, RowsFollow DEF Unlit
<1>4. Cursor!n = n
  BY DEF Cursor!n, n
<1>5. CASE choice > max_choice - 3 /\ scroll + max_choice < n
  <2> DEFINE drawn == print_item(do_scroll(Unlit, 1), scroll + max_choice, max_choice - 1, FALSE)
  <2>1. Moved("down", drawn, scroll + 1, choice)
    BY <1>1, <1>5 DEF Down
  <2>2. ~ returned => drawn = Fits(max_choice, scroll + 1)
    BY <1>2, <1>3, RowsFollow
  <2> HIDE DEF drawn
  <2>3. scroll + 1 \in Nat /\ (scroll + 1) + max_choice <= n
    BY <1>2, <1>5
  <2>4. /\ MenuInv' /\ scroll' = scroll + 1 /\ choice' = choice /\ last' = "down"
        /\ items' = items /\ lines' = lines
    BY <1>1, <1>2, <2>1, <2>2, <2>3, MovedShows
  <2> QED BY <1>2, <1>4, <1>5, <2>4 DEF Cursor!Down, Cursor!Move, Cursor!Above
<1>6. CASE ~ (choice > max_choice - 3 /\ scroll + max_choice < n)
  <2> DEFINE c == IF choice + 1 < max_choice THEN choice + 1 ELSE max_choice - 1
  <2>1. Moved("down", Unlit, scroll, c)
    BY <1>1, <1>6 DEF Down
  <2>2. c \in 0 .. max_choice - 1
    BY <1>2
  <2> HIDE DEF c
  <2>3. /\ MenuInv' /\ scroll' = scroll /\ choice' = c /\ last' = "down"
        /\ items' = items /\ lines' = lines
    BY <1>1, <1>2, <1>3, <2>1, <2>2, MovedShows
  <2>4. scroll + c = IF scroll + choice + 1 > n - 1 THEN n - 1
                     ELSE scroll + choice + 1
    BY <1>2, <1>6 DEF c
  <2> QED BY <1>2, <1>4, <2>3, <2>4 DEF Cursor!Down, Cursor!Move, Cursor!Above
<1> QED BY <1>5, <1>6

LEMMA FindStep ==
  ASSUME MenuInv, NEW letter \in Letters, Find(letter)
  PROVE  MenuInv' /\ Cursor!Find(letter)
<1>1. PICK i \in Anywhere(letter) : Moved(letter, Unlit, scroll, i)
  BY DEF Find
<1>2. /\ n \in Nat \ {0} /\ max_choice \in Nat \ {0} /\ max_choice <= n /\ scroll \in Nat
      /\ choice \in 0 .. max_choice - 1 /\ scroll + max_choice <= n
      /\ ~ returned => rows = Lit(max_choice, scroll, choice)
      /\ status = "open" /\ status' = "open" /\ left' = left
  BY Window DEF Find
<1>3. ~ returned => Unlit = Fits(max_choice, scroll)
  BY <1>2, RowsFollow DEF Unlit
<1>4. i \in 0 .. max_choice - 1 /\ HotKey[items[scroll + i + 1]] = letter
  BY <1>1 DEF Anywhere
<1>5. /\ MenuInv' /\ scroll' = scroll /\ choice' = i /\ last' = letter
      /\ items' = items /\ lines' = lines
  BY <1>1, <1>2, <1>3, <1>4, MovedShows
<1>6. scroll + i \in 0 .. n - 1
  BY <1>2, <1>4
<1> QED BY <1>2, <1>4, <1>5, <1>6 DEF Cursor!Find, Cursor!Move, Cursor!n, n

(* The cursor as the list's specification sees it.                         *)
CursorPos == IF status \in {"prior", "next"} THEN from ELSE scroll + choice

LEMMA PressPageStep ==
  MenuInv /\ PressPage => MenuInv' /\ UNCHANGED <<last, items, lines, CursorPos>>
<1>1. SUFFICES ASSUME MenuInv, PressPage
               PROVE  MenuInv' /\ UNCHANGED <<last, items, lines, CursorPos>>
  OBVIOUS
<1>2. /\ n \in Nat \ {0} /\ max_choice \in Nat \ {0} /\ max_choice <= n
      /\ max_choice <= MaxLines /\ scroll \in Nat
      /\ choice \in 0 .. max_choice - 1 /\ scroll + max_choice <= n
      /\ ~ returned => rows = Lit(max_choice, scroll, choice)
  BY <1>1, Window DEF PressPage
<1>3. /\ status = "open" /\ status' \in {"prior", "next"}
      /\ rows' = Unlit /\ left' = max_choice /\ from' = scroll + choice
      /\ UNCHANGED <<last, items, lines, scroll, choice, first_item, button,
                     s_scroll, active_menu, returned>>
  BY <1>1 DEF PressPage, caller
<1>4. n' = n /\ max_choice' = max_choice
  BY <1>3 DEF n, max_choice
<1>5. TypeOK'
  BY <1>1, <1>2, <1>3, MenuBoxAssumption DEF MenuInv, TypeOK
<1>6. WithinList'
  BY <1>2, <1>3, <1>4 DEF WithinList
<1>7. WindowShowsItems'
  <2>1. ~ returned => rows' = Fits(max_choice, scroll)
    BY <1>2, <1>3, RowsFollow DEF Unlit
  <2> QED BY <1>3, <1>4, <2>1 DEF WindowShowsItems, Fits
<1>8. PagePosition' /\ Left'
  BY <1>2, <1>3, <1>4 DEF PagePosition, Paging, Left, Up0, DownTo
<1> QED BY <1>3, <1>5, <1>6, <1>7, <1>8 DEF MenuInv, CursorPos

LEMMA ScrollPageStep ==
  MenuInv /\ ScrollPage => MenuInv' /\ UNCHANGED <<last, items, lines, CursorPos>>
<1>1. SUFFICES ASSUME MenuInv, ScrollPage
               PROVE  MenuInv' /\ UNCHANGED <<last, items, lines, CursorPos>>
  OBVIOUS
<1>2. /\ n \in Nat \ {0} /\ max_choice \in Nat \ {0} /\ max_choice <= n
      /\ max_choice <= MaxLines /\ scroll \in Nat
      /\ choice \in 0 .. max_choice - 1 /\ scroll + max_choice <= n
      /\ ~ returned => rows = Fits(max_choice, scroll)
  BY <1>1, Window DEF ScrollPage
<1>3. /\ status \in {"prior", "next"} /\ left > 0 /\ left' = left - 1
      /\ UNCHANGED <<status, last, items, lines, first_item, button, s_scroll,
                     active_menu, from, returned>>
  BY <1>1 DEF ScrollPage, caller
<1>4. n' = n /\ max_choice' = max_choice
  BY <1>3 DEF n, max_choice
<1>5. /\ left \in 0 .. max_choice /\ from \in 0 .. n - 1
      /\ scroll + choice =
           IF status = "prior" THEN Up0(from - (max_choice - left))
           ELSE DownTo(from + (max_choice - left), n - 1)
  BY <1>1, <1>3 DEF MenuInv, PagePosition, Paging
<1>6. /\ scroll' \in Nat /\ choice' \in 0 .. max_choice - 1
      /\ scroll' + max_choice <= n
      /\ ~ returned => rows' = Fits(max_choice, scroll')
      /\ scroll' + choice' =
           IF status = "prior" THEN Up0(from - (max_choice - left'))
           ELSE DownTo(from + (max_choice - left'), n - 1)
  <2>1. CASE status = "prior" /\ scroll > 0
    <3>1. /\ scroll' = scroll - 1 /\ choice' = choice
          /\ rows' = print_item(do_scroll(rows, -1), scroll - 1, 0, FALSE)
      BY <1>1, <2>1 DEF ScrollPage
    <3>2. ~ returned => rows' = Fits(max_choice, scroll - 1)
      BY <1>2, <3>1, RowsFollow
    <3>3. rows' = print_item(do_scroll(rows, -1), scroll - 1, 0, FALSE)
          => (~ returned => rows' = Fits(max_choice, scroll'))
      BY <3>1, <3>2
    <3>4. /\ scroll' \in Nat /\ choice' \in 0 .. max_choice - 1
          /\ scroll' + max_choice <= n
      BY <1>2, <2>1, <3>1
    <3>5. scroll' + choice' = Up0(from - (max_choice - left'))
      <4>1. scroll + choice = Up0(from - (max_choice - left))
        BY <1>5, <2>1
      <4>2. scroll' = scroll - 1 /\ choice' = choice /\ left' = left - 1
        BY <1>3, <3>1
      <4> QED BY <1>2, <1>5, <2>1, <4>1, <4>2 DEF Up0
    <3> QED BY <2>1, <3>1, <3>3, <3>4, <3>5
  <2>2. CASE status = "prior" /\ ~ (scroll > 0)
    <3>1. /\ choice' = (IF choice > 0 THEN choice - 1 ELSE choice)
          /\ scroll' = scroll /\ rows' = rows
      BY <1>1, <2>2 DEF ScrollPage
    <3> QED BY <1>2, <1>3, <1>5, <2>2, <3>1 DEF Up0
  <2>3. CASE status = "next" /\ scroll + max_choice < n
    <3>1. /\ scroll' = scroll + 1 /\ choice' = choice
          /\ rows' = print_item(do_scroll(rows, 1), scroll + max_choice,
                                max_choice - 1, FALSE)
      BY <1>1, <2>3 DEF ScrollPage
    <3>2. ~ returned => rows' = Fits(max_choice, scroll + 1)
      BY <1>2, <3>1, RowsFollow
    <3>3. ~ returned => rows' = Fits(max_choice, scroll')
      BY <3>1, <3>2
    <3>4. /\ scroll' \in Nat /\ choice' \in 0 .. max_choice - 1
          /\ scroll' + max_choice <= n
      BY <1>2, <2>3, <3>1
    <3>5. scroll' + choice' = DownTo(from + (max_choice - left'), n - 1)
      <4>1. scroll + choice = DownTo(from + (max_choice - left), n - 1)
        BY <1>5, <2>3
      <4>2. scroll' = scroll + 1 /\ choice' = choice /\ left' = left - 1
        BY <1>3, <3>1
      <4> QED BY <1>2, <1>5, <2>3, <4>1, <4>2 DEF DownTo
    <3>6. status # "prior"
      BY <2>3
    <3> QED BY <3>3, <3>4, <3>5, <3>6
  <2>4. CASE status = "next" /\ ~ (scroll + max_choice < n)
    <3>1. /\ choice' = (IF choice + 1 < max_choice THEN choice + 1 ELSE choice)
          /\ scroll' = scroll /\ rows' = rows
      BY <1>1, <2>4 DEF ScrollPage
    <3> QED BY <1>2, <1>3, <1>5, <2>4, <3>1 DEF DownTo
  <2> QED BY <1>3, <2>1, <2>2, <2>3, <2>4
<1>7. TypeOK'
  BY <1>1, <1>2, <1>3, <1>5, <1>6, MenuBoxAssumption DEF MenuInv, TypeOK
<1>8. WithinList'
  <2>1. scroll' + max_choice <= n /\ choice' < max_choice
    <3>1. /\ scroll' + max_choice <= n /\ choice' \in 0 .. max_choice - 1
          /\ max_choice \in Nat
      BY <1>2, <1>6, Zenon
    <3> QED BY <3>1
  <2>2. scroll' + max_choice' <= n' /\ choice' < max_choice'
    BY <1>4, <2>1
  <2> QED BY <2>2 DEF WithinList
<1>9. WindowShowsItems'
  BY <1>3, <1>4, <1>6 DEF WindowShowsItems, Fits
<1>10. PagePosition' /\ Left'
  BY <1>2, <1>3, <1>4, <1>5, <1>6 DEF PagePosition, Paging, Left
<1> QED BY <1>3, <1>7, <1>8, <1>9, <1>10 DEF MenuInv, CursorPos

LEMMA EndPageStep ==
  MenuInv /\ EndPage => MenuInv' /\ (Cursor!PageUp \/ Cursor!PageDown)
<1>1. SUFFICES ASSUME MenuInv, EndPage
               PROVE  MenuInv' /\ (Cursor!PageUp \/ Cursor!PageDown)
  OBVIOUS
<1>2. /\ n \in Nat \ {0} /\ max_choice \in Nat \ {0} /\ max_choice <= n
      /\ scroll \in Nat
      /\ choice \in 0 .. max_choice - 1 /\ scroll + max_choice <= n
      /\ ~ returned => rows = Fits(max_choice, scroll)
  BY <1>1, Window DEF EndPage
<1>3. /\ status \in {"prior", "next"} /\ left = 0
      /\ Moved(status, rows, scroll, choice) /\ status' = "open" /\ left' = left
  BY <1>1 DEF EndPage
<1>4. /\ MenuInv' /\ scroll' = scroll /\ choice' = choice /\ last' = status
      /\ items' = items /\ lines' = lines
  BY <1>1, <1>2, <1>3, MovedShows
<1>5. from \in 0 .. n - 1
      /\ scroll + choice = IF status = "prior" THEN Up0(from - max_choice)
                           ELSE DownTo(from + max_choice, n - 1)
  BY <1>1, <1>2, <1>3 DEF MenuInv, PagePosition, Paging
<1>6. Cursor!n = n /\ Cursor!PageSize = max_choice
  BY DEF Cursor!n, Cursor!PageSize, n, max_choice, Size
<1>7. CASE status = "prior"
  BY <1>3, <1>4, <1>5, <1>6, <1>7
     DEF Cursor!PageUp, Cursor!Move, Cursor!Below, Up0
<1>8. CASE status = "next"
  BY <1>3, <1>4, <1>5, <1>6, <1>8
     DEF Cursor!PageDown, Cursor!Move, Cursor!Above, DownTo
<1> QED BY <1>3, <1>4, <1>7, <1>8

LEMMA PressButtonsStep ==
  MenuInv /\ PressButtons => MenuInv' /\ UNCHANGED <<last, items, lines, CursorPos>>
<1>1. SUFFICES ASSUME MenuInv, PressButtons
               PROVE  MenuInv' /\ UNCHANGED <<last, items, lines, CursorPos>>
  OBVIOUS
<1>2. /\ status = "open" /\ button' \in 0 .. 2
      /\ UNCHANGED <<status, last, window, left, caller, from>>
  BY <1>1 DEF PressButtons, MenuInv, TypeOK
<1>3. n' = n /\ max_choice' = max_choice
  BY <1>2 DEF n, max_choice, window
<1> QED BY <1>1, <1>2, <1>3
     DEF MenuInv, TypeOK, WithinList, WindowShowsItems, PagePosition, Paging, Left,
         CursorPos, window, caller

LEMMA ClosedStep ==
  ASSUME MenuInv, status = "open",
         NEW saved \in Nat, NEW item \in (DOMAIN HotKey) \cup {None},
         saved = scroll \/ item = None, Closed(saved, item)
  PROVE  MenuInv' /\ Cursor!Close
<1>1. /\ status' = "closed" /\ last' = "close"
      /\ s_scroll' = saved /\ active_menu' = item
      /\ UNCHANGED <<items, lines, scroll, choice, first_item, rows, returned,
                     button, left, from>>
  BY DEF Closed, window
<1>2. n' = n /\ max_choice' = max_choice
  BY <1>1 DEF n, max_choice
<1>3. TypeOK'
  BY <1>1 DEF MenuInv, TypeOK
<1>4. WithinList' /\ WindowShowsItems' /\ PagePosition' /\ Left'
  BY <1>1, <1>2
     DEF MenuInv, WithinList, WindowShowsItems, PagePosition, Paging, Left
<1>5. Cursor!Close
  BY <1>1 DEF Cursor!Close
<1> QED BY <1>3, <1>4, <1>5 DEF MenuInv

LEMMA ActStep == MenuInv /\ Act => MenuInv' /\ Cursor!Close
<1>1. SUFFICES ASSUME MenuInv, Act PROVE MenuInv' /\ Cursor!Close
  OBVIOUS
<1>2. status = "open" /\ scroll \in Nat
      /\ active_menu \in (DOMAIN HotKey) \cup {None}
  BY <1>1 DEF Act, MenuInv, TypeOK
<1>3. items[scroll + choice + 1] \in DOMAIN HotKey
  <2>1. scroll + choice + 1 \in 1 .. n /\ items \in Lists
    BY <1>1, <1>2, Window DEF MenuInv, TypeOK
  <2> QED BY <2>1, ListFacts DEF n
<1>4. ASSUME Closed(0, None) PROVE MenuInv' /\ Cursor!Close
  <2>1. 0 \in Nat /\ None \in (DOMAIN HotKey) \cup {None}
    OBVIOUS
  <2> QED BY <1>1, <1>2, <1>4, <2>1, ClosedStep
<1>5. CASE items[scroll + choice + 1] \in Tagged
  BY <1>1, <1>2, <1>3, <1>4, <1>5, ClosedStep DEF Act
<1>6. CASE items[scroll + choice + 1] \notin Tagged
  BY <1>1, <1>2, <1>3, <1>4, <1>6, ClosedStep DEF Act
<1> QED BY <1>5, <1>6

LEMMA LeaveStep == MenuInv /\ Leave => MenuInv' /\ Cursor!Close
<1>1. 0 \in Nat /\ None \in (DOMAIN HotKey) \cup {None}
  OBVIOUS
<1> QED BY <1>1, ClosedStep DEF Leave

(* Every step keeps the invariant, and moves the cursor or leaves it.      *)
LEMMA StepHolds == MenuInv /\ [Next]_vars => MenuInv' /\ [Cursor!Next]_(Cursor!vars)
<1>1. SUFFICES ASSUME MenuInv, [Next]_vars
               PROVE  MenuInv' /\ [Cursor!Next]_(Cursor!vars)
  OBVIOUS
<1>2. (UNCHANGED <<last, items, lines, CursorPos>>) => UNCHANGED Cursor!vars
  BY DEF Cursor!vars, CursorPos
<1>3. CASE Open
  BY <1>1, <1>3, OpenStep DEF Cursor!Next
<1>4. CASE Resize
  BY <1>1, <1>4, ResizeStep DEF Cursor!Next
<1>5. CASE Up
  BY <1>1, <1>5, UpStep DEF Cursor!Next
<1>6. CASE Down
  BY <1>1, <1>6, DownStep DEF Cursor!Next
<1>7. CASE PressPage
  BY <1>1, <1>2, <1>7, PressPageStep
<1>8. CASE ScrollPage
  BY <1>1, <1>2, <1>8, ScrollPageStep
<1>9. CASE EndPage
  BY <1>1, <1>9, EndPageStep DEF Cursor!Next
<1>10. ASSUME NEW letter \in Letters, Find(letter)
       PROVE  MenuInv' /\ [Cursor!Next]_(Cursor!vars)
  BY <1>1, <1>10, FindStep DEF Cursor!Next
<1>11. CASE PressButtons
  BY <1>1, <1>2, <1>11, PressButtonsStep
<1>12. CASE Act
  BY <1>1, <1>12, ActStep DEF Cursor!Next
<1>13. CASE Leave
  BY <1>1, <1>13, LeaveStep DEF Cursor!Next
<1>14. CASE UNCHANGED vars
  <2>1. n' = n /\ max_choice' = max_choice
    BY <1>14 DEF vars, window, n, max_choice
  <2>2. MenuInv'
    BY <1>1, <1>14, <2>1
       DEF MenuInv, TypeOK, WithinList, WindowShowsItems, PagePosition, Paging,
           Left, vars, window, caller
  <2>3. UNCHANGED <<last, items, lines, CursorPos>>
    BY <1>14 DEF vars, window, CursorPos
  <2> QED BY <1>2, <2>2, <2>3
<1> QED BY <1>1, <1>3, <1>4, <1>5, <1>6, <1>7, <1>8, <1>9, <1>10, <1>11, <1>12,
           <1>13, <1>14 DEF Next

(* The variables of a menu keep their types, for every menu and screen.    *)
THEOREM MenuTyped == Spec => []TypeOK
<1>1. MenuInv => TypeOK
  BY DEF MenuInv
<1> QED BY <1>1, InitHolds, StepHolds, PTL DEF Spec

(* The window shows the items from scroll on and the cursor (menubox.c:    *)
(* 265-349), until a resize has taken a scrolled menu back to its top.     *)
THEOREM WindowShown == Spec => []WindowShowsItems
<1>1. MenuInv => WindowShowsItems
  BY DEF MenuInv
<1> QED BY <1>1, InitHolds, StepHolds, PTL DEF Spec

(* The window stays within the list and the cursor within the window.      *)
THEOREM StaysWithin == Spec => []WithinList
<1>1. MenuInv => WithinList
  BY DEF MenuInv
<1> QED BY <1>1, InitHolds, StepHolds, PTL DEF Spec

(* Window and cursor implement the cursor of a list without a window.      *)
THEOREM CursorMoved == Spec => MovesCursor
<1> QED BY InitHolds, StepHolds, PTL DEF Spec, MovesCursor, Cursor!Spec

(* A menu comes back as it was left (menubox.c:250-263).                   *)
THEOREM SameLineKept == Spec => SameLine
<1>1. MenuInv /\ [Next]_vars =>
        [Open /\ items' = items /\ lines' = lines
           /\ active_menu = items[scroll + choice + 1]
         => scroll' = scroll /\ choice' = choice]_vars
  <2>1. SUFFICES ASSUME MenuInv, Open, items' = items, lines' = lines,
                        active_menu = items[scroll + choice + 1]
                 PROVE  scroll' = scroll /\ choice' = choice
    OBVIOUS
  <2>2. /\ items \in Lists /\ lines \in 1 .. MaxLines /\ scroll \in Nat
        /\ choice \in Nat /\ scroll + max_choice <= n /\ choice < max_choice
        /\ status = "closed"
    BY <2>1 DEF MenuInv, TypeOK, WithinList, Open
  <2>3. n \in Nat \ {0} /\ max_choice \in 1 .. n
    BY <2>2, ListFacts, SizeFacts DEF n, max_choice
  <2> DEFINE here == scroll + choice + 1
  <2>4. here \in 1 .. n
    BY <2>2, <2>3
  <2>5. active_menu \in DOMAIN HotKey /\ active_menu # None
    BY <2>1, <2>2, <2>4, ListFacts, MenuBoxAssumption DEF n, None
  <2>6. s_scroll = scroll
    BY <2>1, <2>2, <2>5 DEF MenuInv, Left
  <2>7. (CHOOSE i \in 1 .. Len(items) : items[i] = active_menu) = here
    <3>1. items[here] = active_menu /\ here \in 1 .. Len(items)
      BY <2>1, <2>4 DEF n
    <3>2. \A i \in 1 .. Len(items) : items[i] = active_menu => i = here
      BY <2>2, <3>1, ListFacts
    <3> QED BY <3>1, <3>2
  <2>8. DefaultItem(items, active_menu, 0) = scroll + choice
    <3>1. \E i \in 1 .. Len(items) : items[i] = active_menu
      BY <2>1, <2>4 DEF n
    <3>2. DefaultItem(items, active_menu, 0) = here - 1
      BY <2>7, <3>1 DEF DefaultItem
    <3> QED BY <2>2, <3>2
  <2>9. /\ scroll' = Placed(n, max_choice, scroll + choice, scroll, 0).scroll
        /\ choice' = Placed(n, max_choice, scroll + choice, scroll, 0).choice
    BY <2>1, <2>6, <2>8 DEF Open, Opened, Draw, n, max_choice
  <2> QED BY <2>2, <2>3, <2>9 DEF Placed
<1> QED BY <1>1, InitHolds, StepHolds, PTL DEF Spec, SameLine

(* For all lists and windows the cursor is in the window and the window in *)
(* the list, resized or not.  The screen shows them so until a resize has  *)
(* taken the window of a scrolled menu back to the top of its list.        *)
THEOREM MenuIsShown == Spec => []MenuShown
BY WindowShown, StaysWithin, PTL DEF MenuShown

(* And the cursor goes where the keys say and stays through new values.    *)
THEOREM CursorIsKept == Spec => CursorKept
BY CursorMoved, SameLineKept, PTL DEF CursorKept

-----------------------------------------------------------------------------
(* yesno.c and util.c.  What is not read yet is the end of what was typed; *)
(* once an escape was read it is the key before that, and where No is the  *)
(* button a tabulator was typed.                                           *)
KeysInOrder ==
  /\ typed \in Seq(Q!Keys) /\ pending \in Seq(Q!Keys)
  /\ Len(pending) <= Len(typed)
  /\ \A i \in 1 .. Len(pending) :
       pending[i] = typed[Len(typed) - Len(pending) + i]
EscapeRead ==
  q_status = "esc" =>
    /\ Len(pending) < Len(typed)
    /\ typed[Len(typed) - Len(pending)] = Q!KEY_ESC
ButtonReached ==
  q_button \in {0, 1} /\ (q_button = 1 => Q!Typed("tab"))

QuestionInv ==
  KeysInOrder /\ EscapeRead /\ ButtonReached /\ Q!TwoEscapes /\ Q!AnswerIsTyped

LEMMA QuestionInitially == Q!Init => QuestionInv
BY DEF Q!Init, QuestionInv, KeysInOrder, EscapeRead, ButtonReached,
       Q!TwoEscapes, Q!AnswerIsTyped, Q!KEY_ESC

(* A key that is read was typed, and no more keys are left unread.         *)
LEMMA KeyRead ==
  ASSUME KeysInOrder, pending # << >>
  PROVE  /\ Q!Typed(Head(pending))
         /\ Tail(pending) \in Seq(Q!Keys)
         /\ Len(Tail(pending)) = Len(pending) - 1
         /\ Len(Tail(pending)) < Len(typed)
         /\ Head(pending) = typed[Len(typed) - Len(Tail(pending))]
         /\ \A i \in 1 .. Len(Tail(pending)) :
              Tail(pending)[i] = typed[Len(typed) - Len(Tail(pending)) + i]
<1>1. /\ Len(pending) \in Nat \ {0} /\ Len(typed) \in Nat
      /\ Tail(pending) \in Seq(Q!Keys)
      /\ Len(Tail(pending)) = Len(pending) - 1
      /\ Head(pending) = pending[1]
      /\ \A i \in 1 .. Len(Tail(pending)) : Tail(pending)[i] = pending[i + 1]
  BY DEF KeysInOrder
<1>2. /\ Len(pending) <= Len(typed)
      /\ \A i \in 1 .. Len(pending) :
           pending[i] = typed[Len(typed) - Len(pending) + i]
  BY DEF KeysInOrder
<1>3. Head(pending) = typed[Len(typed) - Len(pending) + 1]
  BY <1>1, <1>2
<1>4. Q!Typed(Head(pending))
  BY <1>1, <1>2, <1>3 DEF Q!Typed
<1>5. Len(typed) - Len(pending) + 1 = Len(typed) - Len(Tail(pending))
  BY <1>1
<1>6. ASSUME NEW i \in 1 .. Len(Tail(pending))
      PROVE  Tail(pending)[i] = typed[Len(typed) - Len(Tail(pending)) + i]
  <2>1. i + 1 \in 1 .. Len(pending)
    BY <1>1
  <2>2. Tail(pending)[i] = typed[Len(typed) - Len(pending) + (i + 1)]
    BY <1>1, <1>2, <2>1
  <2>3. Len(typed) - Len(pending) + (i + 1) = Len(typed) - Len(Tail(pending)) + i
    BY <1>1
  <2> QED BY <2>2, <2>3
<1> QED BY <1>1, <1>2, <1>3, <1>4, <1>5, <1>6

LEMMA QuestionInductive == QuestionInv /\ [Q!Next]_question => QuestionInv'
<1> SUFFICES ASSUME QuestionInv, [Q!Next]_question PROVE QuestionInv'
  OBVIOUS
<1> USE DEF QuestionInv
<1>1. ASSUME NEW key \in Q!Keys, Q!TypeKey(key) PROVE QuestionInv'
  <2> USE <1>1 DEF Q!TypeKey
  <2>1. /\ Len(typed) \in Nat /\ Len(pending) \in Nat
        /\ Len(typed') = Len(typed) + 1 /\ Len(pending') = Len(pending) + 1
        /\ typed' \in Seq(Q!Keys) /\ pending' \in Seq(Q!Keys)
        /\ \A i \in 1 .. Len(typed) : typed'[i] = typed[i]
        /\ typed'[Len(typed) + 1] = key
        /\ \A i \in 1 .. Len(pending) : pending'[i] = pending[i]
        /\ pending'[Len(pending) + 1] = key
    BY DEF KeysInOrder
  <2>2. KeysInOrder'
    <3>1. Len(pending') <= Len(typed')
      BY <2>1 DEF KeysInOrder
    <3>2. ASSUME NEW i \in 1 .. Len(pending')
          PROVE  pending'[i] = typed'[Len(typed') - Len(pending') + i]
      <4>1. CASE i = Len(pending) + 1
        BY <2>1, <4>1
      <4>2. CASE i # Len(pending) + 1
        <5>1. i \in 1 .. Len(pending)
          BY <2>1, <4>2
        <5>2. /\ Len(typed) - Len(pending) + i \in 1 .. Len(typed)
              /\ Len(typed') - Len(pending') + i
                   = Len(typed) - Len(pending) + i
          BY <2>1, <5>1 DEF KeysInOrder
        <5> QED BY <2>1, <5>1, <5>2 DEF KeysInOrder
      <4> QED BY <4>1, <4>2
    <3> QED BY <2>1, <3>1, <3>2 DEF KeysInOrder
  <2>3. \A k : Q!Typed(k) => Q!Typed(k)'
    BY <2>1 DEF Q!Typed
  <2>4. EscapeRead'
    <3>1. SUFFICES ASSUME q_status = "esc"
                   PROVE  /\ Len(pending') < Len(typed')
                          /\ typed'[Len(typed') - Len(pending')] = Q!KEY_ESC
      BY DEF EscapeRead
    <3>2. /\ Len(typed') - Len(pending') = Len(typed) - Len(pending)
          /\ Len(typed) - Len(pending) \in 1 .. Len(typed)
          /\ typed[Len(typed) - Len(pending)] = Q!KEY_ESC
          /\ Len(pending') < Len(typed')
      BY <2>1, <3>1 DEF EscapeRead
    <3> QED BY <2>1, <3>2
  <2>5. ButtonReached'
    BY <2>3 DEF ButtonReached
  <2>6. Q!TwoEscapes'
    BY <2>1 DEF Q!TwoEscapes
  <2>7. Q!AnswerIsTyped'
    BY <2>3 DEF Q!AnswerIsTyped
  <2> QED BY <2>2, <2>4, <2>5, <2>6, <2>7
<1>2. CASE Q!Read
  <2>1. /\ q_status = "open" /\ pending # << >> /\ typed' = typed
        /\ pending' = Tail(pending)
    BY <1>2 DEF Q!Read, Q!Return
  <2>2. /\ Q!Typed(Head(pending)) /\ pending' \in Seq(Q!Keys)
        /\ Len(pending') < Len(typed)
        /\ Head(pending) = typed[Len(typed) - Len(pending')]
        /\ \A i \in 1 .. Len(pending') :
             pending'[i] = typed[Len(typed) - Len(pending') + i]
        /\ Len(pending') \in Nat /\ Len(typed) \in Nat
    BY <2>1, KeyRead DEF KeysInOrder
  <2>3. KeysInOrder'
    BY <2>1, <2>2 DEF KeysInOrder
  <2>4. \A k : Q!Typed(k)' <=> Q!Typed(k)
    BY <2>1 DEF Q!Typed
  <2>5. EscapeRead'
    BY <1>2, <2>1, <2>2 DEF EscapeRead, Q!Read, Q!Return, Q!KEY_ESC
  <2>6. ButtonReached'
    BY <1>2, <2>2, <2>4 DEF ButtonReached, Q!Read, Q!Return
  <2>7. Q!TwoEscapes'
    BY <1>2, <2>1 DEF Q!TwoEscapes, Q!Read, Q!Return, Q!KEY_ESC
  <2>8. Q!AnswerIsTyped'
    BY <1>2, <2>2, <2>4 DEF Q!AnswerIsTyped, Q!Read, Q!Return, ButtonReached
  <2> QED BY <2>3, <2>5, <2>6, <2>7, <2>8
<1>3. CASE Q!on_key_esc
  <2>1. \A k : Q!Typed(k)' <=> Q!Typed(k)
    BY <1>3 DEF Q!Typed, Q!on_key_esc, Q!Return
  <2>2. q_status = "esc" /\ q_status' # "esc" /\ typed' = typed
        /\ (pending' = pending \/ pending' = << >>) /\ q_button' = q_button
    BY <1>3 DEF Q!on_key_esc, Q!Return
  <2>3. KeysInOrder'
    <3>1. CASE pending' = pending
      BY <2>2, <3>1 DEF KeysInOrder
    <3>2. CASE pending' = << >>
      <4>1. pending' \in Seq(Q!Keys) /\ Len(pending') = 0 /\ Len(typed) \in Nat
        BY <3>2 DEF KeysInOrder
      <4> QED BY <2>2, <4>1 DEF KeysInOrder
    <3> QED BY <2>2, <3>1, <3>2
  <2>4. EscapeRead' /\ ButtonReached'
    BY <2>1, <2>2 DEF EscapeRead, ButtonReached
  <2>5. Q!TwoEscapes'
    <3>1. CASE pending = <<Q!KEY_ESC>>
      <4>1. /\ Len(pending) = 1 /\ pending[1] = Q!KEY_ESC
            /\ Len(typed) \in Nat /\ Len(typed) > 1
            /\ typed[Len(typed) - 1] = Q!KEY_ESC
            /\ typed[Len(typed)] = Q!KEY_ESC
        BY <2>2, <3>1 DEF KeysInOrder, EscapeRead
      <4> QED BY <2>2, <4>1 DEF Q!TwoEscapes
    <3>2. CASE pending # <<Q!KEY_ESC>>
      BY <1>3, <3>2 DEF Q!TwoEscapes, Q!on_key_esc
    <3> QED BY <3>1, <3>2
  <2>6. Q!AnswerIsTyped'
    BY <1>3, <2>1 DEF Q!AnswerIsTyped, Q!on_key_esc, Q!Return, Q!KEY_ESC
  <2> QED BY <2>3, <2>4, <2>5, <2>6
<1>4. CASE Q!Resize
  BY <1>4 DEF Q!Resize, KeysInOrder, EscapeRead, ButtonReached,
              Q!TwoEscapes, Q!AnswerIsTyped, Q!Typed
<1>5. CASE UNCHANGED question
  BY <1>5 DEF question, KeysInOrder, EscapeRead, ButtonReached,
              Q!TwoEscapes, Q!AnswerIsTyped, Q!Typed
<1> QED BY <1>1, <1>2, <1>3, <1>4, <1>5 DEF Q!Next

-----------------------------------------------------------------------------
(* checklist.c.                                                            *)
ListInv == L!TypeOK /\ L!WindowShowsItems

(* A window as it should be: the rows from a line on, with the cursor lit. *)
Showing(list, first, at) ==
  [i \in 0 .. L!Size(list) - 1 |-> [item |-> first + i, lit |-> i = at]]

LEMMA MembersFacts ==
  ASSUME NEW members \in Members
  PROVE  /\ Len(members) \in Nat \ {0} /\ members \in Seq(DOMAIN HotKey)
         /\ list_height \in Nat \ {0}
         /\ L!Size(members) \in 1 .. list_height
         /\ L!Size(members) <= Len(members)
<1>1. /\ members \in Seq(DOMAIN HotKey) /\ Len(members) > 0
      /\ list_height \in Nat \ {0}
  BY DialogsAssumption DEF L!CheckListAssumption
<1> QED BY <1>1 DEF L!Size

LEMMA ListWindow ==
  ASSUME ListInv
  PROVE  /\ l_items \in Members /\ L!n = Len(l_items) /\ L!n \in Nat \ {0}
         /\ list_height \in Nat \ {0}
         /\ L!max_choice = L!Size(l_items)
         /\ L!max_choice \in 1 .. list_height /\ L!max_choice <= L!n
         /\ l_choice \in 0 .. L!max_choice - 1 /\ l_scroll \in Nat
         /\ l_scroll + L!max_choice <= L!n
         /\ l_rows = Showing(l_items, l_scroll, l_choice)
<1>1. l_items \in Members /\ l_scroll \in Nat /\ l_choice \in Nat
  BY DEF ListInv, L!TypeOK
<1>2. L!n = Len(l_items) /\ L!max_choice = L!Size(l_items)
  BY DEF L!n, L!max_choice
<1> QED BY <1>1, <1>2, MembersFacts
        DEF ListInv, L!WindowShowsItems, Showing, L!Drawn, L!Row

(* The item to start from is in the list.                                  *)
LEMMA DefaultInMembers ==
  ASSUME NEW members \in Members, NEW S, NEW M
  PROVE  L!DefaultItem(L!Indices(members, S), L!Indices(members, M))
           \in 0 .. Len(members) - 1
<1>1. Len(members) \in Nat \ {0}
  BY MembersFacts
<1>2. ASSUME NEW A \in SUBSET (0 .. Len(members) - 1), A # {}
      PROVE  L!First(A) \in A
  <2>1. \E i \in A : \A j \in A : i <= j
    BY <1>2, LeastNumber
  <2> QED BY <2>1 DEF L!First
<1> DEFINE A == L!Indices(members, S)
           B == L!Indices(members, M)
<1>3. A \in SUBSET (0 .. Len(members) - 1) /\ B \in SUBSET (0 .. Len(members) - 1)
  BY DEF L!Indices
<1> HIDE DEF A, B
<1>4. L!DefaultItem(A, B) \in 0 .. Len(members) - 1
  <2>1. \/ A # {} /\ L!DefaultItem(A, B) = L!First(A)
        \/ B # {} /\ L!DefaultItem(A, B) = L!First(B)
        \/ L!DefaultItem(A, B) = 0
    BY Zenon DEF L!DefaultItem
  <2>2. \/ L!DefaultItem(A, B) \in A \/ L!DefaultItem(A, B) \in B
        \/ L!DefaultItem(A, B) = 0
    BY <1>2, <1>3, <2>1, Zenon
  <2>3. 0 \in 0 .. Len(members) - 1
    BY <1>1
  <2> QED BY <1>3, <2>2, <2>3, Zenon
<1> QED BY <1>4 DEF A, B

LEMMA ListInitially == L!Init => ListInv /\ L!Cursor!Init
<1> SUFFICES ASSUME L!Init PROVE ListInv /\ L!Cursor!Init
  OBVIOUS
<1> USE DEF L!Init
<1>1. /\ l_items \in Members /\ L!n = Len(l_items) /\ L!n \in Nat \ {0}
      /\ list_height \in Nat \ {0} /\ L!max_choice = L!Size(l_items)
      /\ L!Size(l_items) \in 1 .. list_height /\ L!Size(l_items) <= L!n
  BY MembersFacts DEF L!n, L!max_choice
<1>2. marks \subseteq 0 .. L!n - 1
  BY <1>1 DEF L!Selected, L!Indices
<1> DEFINE at == L!DefaultItem(marks, L!MarkedAt(l_items, value))
<1>3. at \in 0 .. L!n - 1
  BY <1>1, DefaultInMembers DEF L!Selected, L!MarkedAt
<1>4. /\ l_scroll = L!ScrollFor(at, 0) /\ l_choice = at - l_scroll
      /\ l_rows = L!Drawn(l_items, l_scroll, l_choice)
  OBVIOUS
<1> HIDE DEF at
<1>5. /\ l_scroll \in Nat /\ l_choice \in Nat /\ l_choice < L!max_choice
      /\ l_scroll + L!max_choice <= L!n /\ l_scroll + l_choice = at
  BY <1>1, <1>3, <1>4 DEF L!ScrollFor, L!Size
<1>6. ListInv
  BY <1>1, <1>2, <1>4, <1>5 DEF ListInv, L!TypeOK, L!WindowShowsItems
<1>7. L!Cursor!Init
  BY <1>1, <1>3, <1>5 DEF L!Cursor!Init, L!Cursor!n
<1> QED BY <1>6, <1>7

LEMMA ListOpens == ListInv /\ L!Open => ListInv' /\ L!Cursor!Open
<1> SUFFICES ASSUME ListInv, L!Open PROVE ListInv' /\ L!Cursor!Open
  OBVIOUS
<1> USE DEF L!Open, L!list_vars
<1>1. /\ l_items \in Members /\ L!n = Len(l_items) /\ L!n \in Nat \ {0}
      /\ list_height \in Nat \ {0} /\ L!max_choice = L!Size(l_items)
      /\ L!Size(l_items) \in 1 .. list_height /\ L!Size(l_items) <= L!n
      /\ L!n' = L!n /\ L!max_choice' = L!max_choice
  BY ListWindow DEF L!n, L!max_choice, L!Size
<1>2. marks' \subseteq 0 .. L!n - 1
  BY <1>1 DEF L!Selected, L!Indices
<1> DEFINE at == L!DefaultItem(marks', L!MarkedAt(l_items, value))
<1>3. at \in 0 .. L!n - 1
  BY <1>1, DefaultInMembers DEF L!Selected, L!MarkedAt
<1>4. /\ l_scroll' = L!ScrollFor(at, 0) /\ l_choice' = at - l_scroll'
      /\ l_rows' = L!Drawn(l_items, l_scroll', l_choice')
  OBVIOUS
<1> HIDE DEF at
<1>5. /\ l_scroll' \in Nat /\ l_choice' \in Nat /\ l_choice' < L!max_choice
      /\ l_scroll' + L!max_choice <= L!n /\ l_scroll' + l_choice' = at
  BY <1>1, <1>3, <1>4 DEF L!ScrollFor, L!Size
<1>6. ListInv'
  BY <1>1, <1>2, <1>4, <1>5
     DEF ListInv, L!TypeOK, L!WindowShowsItems, L!Drawn, L!Size
<1>7. L!Cursor!Open
  BY <1>1, <1>3, <1>5 DEF L!Cursor!Open, L!Cursor!n
<1> QED BY <1>6, <1>7

(* A step that leaves the list alone and shows the window of its cursor.   *)
LEMMA ListStays ==
  ASSUME ListInv, UNCHANGED <<l_items, value>>,
         l_status' \in {"open", "closed", "done"},
         active' \in Member \cup {L!None},
         marks' \subseteq 0 .. L!n - 1, l_button' \in 0 .. 1,
         l_scroll' \in Nat, l_choice' \in Nat, l_choice' < L!max_choice,
         l_scroll' + L!max_choice <= L!n,
         l_rows' = Showing(l_items, l_scroll', l_choice')
  PROVE  ListInv'
BY DEF ListInv, L!TypeOK, L!WindowShowsItems, L!n, L!max_choice, L!Drawn,
       L!Size, L!Row, Showing

LEMMA ListKeepsRest ==
  ASSUME ListInv, UNCHANGED <<l_status, l_items, value, active, marks, l_button>>,
         l_scroll' \in Nat, l_choice' \in 0 .. L!max_choice - 1,
         l_scroll' + L!max_choice <= L!n,
         l_rows' = Showing(l_items, l_scroll', l_choice')
  PROVE  ListInv'
<1>1. /\ l_status' \in {"open", "closed", "done"}
      /\ active' \in Member \cup {L!None}
      /\ marks' \subseteq 0 .. L!n - 1 /\ l_button' \in 0 .. 1
  BY DEF ListInv, L!TypeOK
<1>2. l_choice' \in Nat /\ l_choice' < L!max_choice
  BY ListWindow
<1> QED BY <1>1, <1>2, ListStays

LEMMA ListResizes == ListInv /\ L!Resize => ListInv' /\ L!Cursor!Resize
<1> SUFFICES ASSUME ListInv, L!Resize PROVE ListInv' /\ L!Cursor!Resize
  OBVIOUS
<1> USE DEF L!Resize, L!list_vars
<1>1. /\ l_choice' = l_choice /\ l_scroll' = l_scroll
      /\ l_rows' = Showing(l_items, l_scroll', l_choice')
  BY ListWindow DEF L!ScrollFor, L!Drawn, L!Row, Showing
<1>2. ListInv'
  BY <1>1, ListWindow, ListStays DEF ListInv, L!TypeOK
<1>3. L!Cursor!Resize
  BY <1>1, ListWindow DEF L!Cursor!Resize, L!Cursor!n
<1> QED BY <1>2, <1>3

(* The row that was lit is drawn unlit and another one lit.                *)
LEMMA ListMoves ==
  ASSUME ListInv, NEW key, NEW i \in 0 .. L!max_choice - 1, L!MoveTo(key, i)
  PROVE  /\ ListInv' /\ l_last' = key /\ UNCHANGED l_items
         /\ l_scroll' + l_choice' = l_scroll + i
<1>1. /\ l_items \in Members /\ L!max_choice = L!Size(l_items)
      /\ L!max_choice \in Nat /\ l_scroll \in Nat
      /\ l_choice \in 0 .. L!max_choice - 1
      /\ l_scroll + L!max_choice <= L!n
      /\ l_rows = Showing(l_items, l_scroll, l_choice)
  BY ListWindow
<1>2. /\ l_last' = key /\ l_scroll' = l_scroll /\ l_choice' = i
      /\ l_rows' = IF i = l_choice THEN l_rows
                   ELSE L!print_item(L!Unlit(l_choice), l_scroll + i, i, TRUE)
      /\ UNCHANGED <<l_status, l_items, value, active, marks, l_button>>
  BY DEF L!MoveTo, L!Moved, L!list_vars
<1>3. l_rows' = Showing(l_items, l_scroll, i)
  BY <1>1, <1>2 DEF L!print_item, L!Unlit, L!Row, Showing
<1>4. ListInv'
  BY <1>1, <1>2, <1>3, ListKeepsRest
<1> QED BY <1>1, <1>2, <1>4

LEMMA ListGoesUp == ListInv /\ L!Up => ListInv' /\ L!Cursor!Up
<1> SUFFICES ASSUME ListInv, L!Up PROVE ListInv' /\ L!Cursor!Up
  OBVIOUS
<1>1. /\ l_items \in Members /\ L!max_choice = L!Size(l_items)
      /\ L!max_choice \in 1 .. list_height /\ list_height \in Nat \ {0}
      /\ l_scroll \in Nat /\ l_choice \in 0 .. L!max_choice - 1
      /\ l_scroll + L!max_choice <= L!n /\ L!n \in Nat
      /\ l_rows = Showing(l_items, l_scroll, l_choice)
  BY ListWindow
<1> USE DEF L!Cursor!Up, L!Cursor!Move, L!Cursor!Below
<1>2. CASE l_choice > 0
  <2>1. L!MoveTo("up", l_choice - 1) /\ l_choice - 1 \in 0 .. L!max_choice - 1
    BY <1>1, <1>2 DEF L!Up
  <2>2. /\ ListInv' /\ l_last' = "up" /\ UNCHANGED l_items
        /\ l_scroll' + l_choice' = l_scroll + (l_choice - 1)
    BY <2>1, ListMoves
  <2> QED BY <1>1, <1>2, <2>2
<1>3. CASE l_choice = 0 /\ l_scroll = 0
  <2>1. /\ l_last' = "up" /\ l_scroll' = l_scroll /\ l_choice' = l_choice
        /\ l_rows' = l_rows
        /\ UNCHANGED <<l_status, l_items, value, active, marks, l_button>>
    BY <1>3 DEF L!Up, L!Moved, L!list_vars
  <2>2. ListInv'
    BY <1>1, <2>1, ListKeepsRest
  <2> QED BY <1>1, <1>3, <2>1, <2>2
<1>4. CASE l_choice = 0 /\ l_scroll # 0
  <2>1. /\ l_last' = "up" /\ l_scroll' = l_scroll - 1 /\ l_choice' = 0
        /\ l_rows' = L!print_item(L!wscrl(L!Unlit(0), -1), l_scroll - 1, 0, TRUE)
        /\ UNCHANGED <<l_status, l_items, value, active, marks, l_button>>
    BY <1>4 DEF L!Up, L!Moved, L!list_vars
  <2>2. L!Unlit(0) = [i \in 0 .. L!Size(l_items) - 1 |->
                        [item |-> l_scroll + i, lit |-> FALSE]]
    BY <1>1, <1>4 DEF L!Unlit, L!print_item, L!Row, Showing
  <2>3. l_rows' = Showing(l_items, l_scroll - 1, 0)
    <3> DEFINE N == L!Size(l_items)
               W == L!wscrl(L!Unlit(0), -1)
    <3>1. /\ DOMAIN W = 0 .. N - 1
          /\ \A i \in 1 .. N - 1 : W[i] = [item |-> l_scroll - 1 + i, lit |-> FALSE]
      <4>1. CASE list_height > 1
        <5>1. W = [i \in 0 .. N - 1 |->
                     IF i + -1 \in 0 .. N - 1 THEN L!Unlit(0)[i + -1] ELSE L!Blank]
          BY <2>2, <4>1 DEF L!wscrl
        <5>2. ASSUME NEW i \in 1 .. N - 1
              PROVE  W[i] = [item |-> l_scroll - 1 + i, lit |-> FALSE]
          <6> HIDE DEF W
          <6>1. /\ i \in 0 .. N - 1 /\ i + -1 \in 0 .. N - 1
                /\ l_scroll + (i + -1) = l_scroll - 1 + i
            BY <1>1
          <6> QED BY <2>2, <5>1, <6>1
        <5> QED BY <5>1, <5>2
      <4>2. CASE list_height = 1
        <5>1. W = L!Unlit(0) /\ N = 1
          BY <1>1, <4>2 DEF L!wscrl
        <5> QED BY <2>2, <5>1
      <4> QED BY <1>1, <4>1, <4>2
    <3>2. l_rows' = [W EXCEPT ![0] = [item |-> l_scroll - 1, lit |-> TRUE]]
      BY <2>1 DEF L!print_item, L!Row
    <3>3. l_rows' = [i \in 0 .. N - 1 |-> IF i = 0 THEN [item |-> l_scroll - 1, lit |-> TRUE] ELSE W[i]]
      <4> HIDE DEF W
      <4> QED BY <1>1, <3>1, <3>2
    <3> HIDE DEF W, N
    <3>4. ASSUME NEW i \in 0 .. N - 1
          PROVE  (IF i = 0 THEN [item |-> l_scroll - 1, lit |-> TRUE] ELSE W[i])
                   = [item |-> l_scroll - 1 + i, lit |-> i = 0]
      <4>1. CASE i = 0
        <5>1. l_scroll - 1 + i = l_scroll - 1 /\ (i = 0) = TRUE
          BY <1>1, <4>1
        <5> QED BY <4>1, <5>1, Zenon
      <4>2. CASE i # 0
        <5>1. i \in 1 .. N - 1
          BY <1>1, <4>2 DEF N
        <5> QED BY <3>1, <4>2, <5>1
      <4> QED BY <4>1, <4>2
    <3> QED BY <3>3, <3>4 DEF Showing, N
  <2>4. ListInv'
    <3>1. /\ l_scroll' \in Nat /\ l_scroll' + L!max_choice <= L!n
          /\ l_choice' \in 0 .. L!max_choice - 1
      BY <1>1, <1>4, <2>1
    <3>2. l_rows' = Showing(l_items, l_scroll', l_choice')
      BY <2>1, <2>3, Zenon
    <3> QED BY <2>1, <3>1, <3>2, ListKeepsRest
  <2> QED BY <1>1, <1>4, <2>1, <2>4
<1> QED BY <1>1, <1>2, <1>3, <1>4

LEMMA ListGoesDown == ListInv /\ L!Down => ListInv' /\ L!Cursor!Down
<1> SUFFICES ASSUME ListInv, L!Down PROVE ListInv' /\ L!Cursor!Down
  OBVIOUS
<1> DEFINE N == L!Size(l_items)
<1>1. /\ l_items \in Members /\ L!max_choice = N
      /\ N \in 1 .. list_height /\ list_height \in Nat \ {0}
      /\ l_scroll \in Nat /\ l_choice \in 0 .. N - 1
      /\ l_scroll + N <= L!n /\ L!n \in Nat
      /\ l_rows = Showing(l_items, l_scroll, l_choice)
  BY ListWindow
<1>0. /\ L!Cursor!n = L!n
      /\ \A a, b : L!Cursor!Above(a, b) = IF a > b THEN b ELSE a
  BY DEF L!Cursor!Above, L!Cursor!n, L!n
<1> USE DEF L!Cursor!Down, L!Cursor!Move
<1>2. CASE l_choice # N - 1
  <2>1. L!MoveTo("down", l_choice + 1) /\ l_choice + 1 \in 0 .. L!max_choice - 1
    BY <1>1, <1>2 DEF L!Down
  <2>2. /\ ListInv' /\ l_last' = "down" /\ UNCHANGED l_items
        /\ l_scroll' + l_choice' = l_scroll + (l_choice + 1)
    BY <2>1, ListMoves
  <2>3. L!Cursor!Above((l_scroll + l_choice) + 1, L!n - 1) = l_scroll + (l_choice + 1)
    <3>1. /\ (l_scroll + l_choice) + 1 = l_scroll + (l_choice + 1)
          /\ ~ ((l_scroll + l_choice) + 1 > L!n - 1)
      <4> HIDE DEF N
      <4> QED BY <1>1, <1>2
    <3> QED BY <1>0, <3>1, Zenon
  <2> QED BY <1>0, <2>2, <2>3
<1>3. CASE l_choice = N - 1 /\ l_scroll + l_choice >= L!n - 1
  <2>1. /\ l_last' = "down" /\ l_scroll' = l_scroll /\ l_choice' = l_choice
        /\ l_rows' = l_rows
        /\ UNCHANGED <<l_status, l_items, value, active, marks, l_button>>
    BY <1>1, <1>3 DEF L!Down, L!Moved, L!list_vars
  <2>2. ListInv'
    BY <1>1, <2>1, ListKeepsRest
  <2>3. L!Cursor!Above((l_scroll + l_choice) + 1, L!n - 1) = l_scroll + l_choice
    BY <1>0, <1>1, <1>3
  <2> QED BY <1>0, <2>1, <2>2, <2>3
<1>4. CASE l_choice = N - 1 /\ ~ (l_scroll + l_choice >= L!n - 1)
  <2>1. /\ l_last' = "down" /\ l_scroll' = l_scroll + 1 /\ l_choice' = l_choice
        /\ l_rows' = L!print_item(L!wscrl(L!Unlit(N - 1), 1), l_scroll + N,
                                  N - 1, TRUE)
        /\ UNCHANGED <<l_status, l_items, value, active, marks, l_button>>
    BY <1>1, <1>4 DEF L!Down, L!Moved, L!list_vars
  <2>2. L!Unlit(N - 1) = [i \in 0 .. N - 1 |->
                            [item |-> l_scroll + i, lit |-> FALSE]]
    BY <1>1, <1>4 DEF L!Unlit, L!print_item, L!Row, Showing
  <2>3. l_rows' = Showing(l_items, l_scroll + 1, N - 1)
    <3> DEFINE W == L!wscrl(L!Unlit(N - 1), 1)
               R == [item |-> l_scroll + N, lit |-> TRUE]
    <3>1. /\ DOMAIN W = 0 .. N - 1
          /\ \A i \in 0 .. N - 2 : W[i] = [item |-> l_scroll + 1 + i, lit |-> FALSE]
      <4>1. CASE list_height > 1
        <5>1. W = [i \in 0 .. N - 1 |->
                     IF i + 1 \in 0 .. N - 1 THEN L!Unlit(N - 1)[i + 1] ELSE L!Blank]
          BY <2>2, <4>1 DEF L!wscrl
        <5>2. ASSUME NEW i \in 0 .. N - 2
              PROVE  W[i] = [item |-> l_scroll + 1 + i, lit |-> FALSE]
          <6> HIDE DEF W, N
          <6>1. /\ i \in 0 .. N - 1 /\ i + 1 \in 0 .. N - 1
                /\ l_scroll + (i + 1) = l_scroll + 1 + i
            BY <1>1
          <6> QED BY <2>2, <5>1, <6>1
        <5> QED BY <5>1, <5>2
      <4>2. CASE list_height = 1
        <5>1. W = L!Unlit(N - 1) /\ N = 1
          BY <1>1, <4>2 DEF L!wscrl
        <5> HIDE DEF W, N
        <5> QED BY <2>2, <5>1
      <4> QED BY <1>1, <4>1, <4>2
    <3>2. l_rows' = [W EXCEPT ![N - 1] = R]
      BY <2>1 DEF L!print_item, L!Row
    <3> HIDE DEF W, N
    <3>3. l_rows' = [i \in 0 .. N - 1 |-> IF i = N - 1 THEN R ELSE W[i]]
      BY <1>1, <3>1, <3>2
    <3>4. ASSUME NEW i \in 0 .. N - 1
          PROVE  (IF i = N - 1 THEN R ELSE W[i])
                   = [item |-> l_scroll + 1 + i, lit |-> i = N - 1]
      <4>1. CASE i = N - 1
        <5>1. l_scroll + 1 + i = l_scroll + N /\ (i = N - 1) = TRUE
          BY <1>1, <4>1
        <5> QED BY <4>1, <5>1, Zenon
      <4>2. CASE i # N - 1
        <5>1. i \in 0 .. N - 2
          BY <1>1, <4>2
        <5> QED BY <3>1, <4>2, <5>1
      <4> QED BY <4>1, <4>2
    <3> QED BY <3>3, <3>4 DEF Showing, N
  <2>4. ListInv'
    <3>1. /\ l_scroll' \in Nat /\ l_scroll' + L!max_choice <= L!n
          /\ l_choice' \in 0 .. L!max_choice - 1
      BY <1>1, <1>4, <2>1
    <3>2. l_rows' = Showing(l_items, l_scroll', l_choice')
      BY <1>4, <2>1, <2>3, Zenon
    <3> QED BY <2>1, <3>1, <3>2, ListKeepsRest
  <2>5. /\ L!Cursor!Above((l_scroll + l_choice) + 1, L!n - 1)
             = (l_scroll + l_choice) + 1
        /\ l_scroll' + l_choice' = (l_scroll + l_choice) + 1
    <3> HIDE DEF N
    <3> QED BY <1>0, <1>1, <1>4, <2>1
  <2> QED BY <1>0, <2>1, <2>4, <2>5
<1> QED BY <1>1, <1>2, <1>3, <1>4

LEMMA ListFinds ==
  ASSUME ListInv, NEW letter \in Letters, L!Find(letter)
  PROVE  ListInv' /\ L!Cursor!Find(letter)
<1>1. PICK i \in L!Matching(letter) : L!MoveTo(letter, i)
  BY DEF L!Find
<1>2. /\ i \in 0 .. L!max_choice - 1
      /\ HotKey[l_items[l_scroll + i + 1]] = letter
  BY DEF L!Matching
<1>3. /\ ListInv' /\ l_last' = letter /\ UNCHANGED l_items
      /\ l_scroll' + l_choice' = l_scroll + i
  BY <1>1, <1>2, ListMoves
<1>4. l_scroll + i \in 0 .. L!Cursor!n - 1
  <2>1. L!Cursor!n = L!n
    BY DEF L!Cursor!n, L!n
  <2> QED BY <1>2, <2>1, ListWindow
<1>5. HotKey[l_items[(l_scroll + i) + 1]] = letter
  BY <1>2
<1> QED BY <1>3, <1>4, <1>5 DEF L!Cursor!Find, L!Cursor!Move

(* What a key takes is what is lit: the line of the cursor, alone marked.  *)
LEMMA ListTakes ==
  ASSUME ListInv, L!Select \/ L!Help
  PROVE  /\ marks' = {l_scroll + l_choice}
         /\ L!Taken = l_items[l_scroll + l_choice + 1]
         /\ \A i \in DOMAIN l_rows :
              l_rows[i].lit => l_rows[i].item = l_scroll + l_choice
<1>1. marks' = {l_scroll + l_choice}
  BY DEF L!Select, L!Help, L!MarkPointed
<1>2. l_scroll + l_choice \in Nat
  BY ListWindow
<1>3. L!First({l_scroll + l_choice}) = l_scroll + l_choice
  <2> DEFINE x == l_scroll + l_choice
  <2>1. x \in {x} /\ \A j \in {x} : x <= j
    BY <1>2
  <2> HIDE DEF x
  <2>2. L!First({x}) \in {x}
    BY <2>1 DEF L!First
  <2> QED BY <2>2 DEF x
<1>4. \A i \in DOMAIN l_rows :
        l_rows[i].lit => l_rows[i].item = l_scroll + l_choice
  <2> DEFINE N == L!Size(l_items)
  <2>1. /\ l_rows = [i \in 0 .. N - 1 |->
                       [item |-> l_scroll + i, lit |-> i = l_choice]]
    BY ListWindow DEF Showing
  <2> HIDE DEF N
  <2>2. ASSUME NEW i \in DOMAIN l_rows, l_rows[i].lit
        PROVE  l_rows[i].item = l_scroll + l_choice
    <3>1. i \in 0 .. N - 1
      BY <2>1
    <3>2. l_rows[i] = [item |-> l_scroll + i, lit |-> i = l_choice]
      BY <2>1, <3>1
    <3>3. l_rows[i].item = l_scroll + i
      BY <3>2
    <3>4. i = l_choice
      <4>1. SUFFICES ASSUME i # l_choice PROVE FALSE
        OBVIOUS
      <4>2. (i = l_choice) = FALSE
        BY <4>1
      <4>3. l_rows[i] = [item |-> l_scroll + i, lit |-> FALSE]
        BY <3>2, <4>2, Zenon
      <4>4. l_rows[i].lit = FALSE
        BY <4>3
      <4> QED BY <2>2, <4>4
    <3> QED BY <3>3, <3>4
  <2> QED BY <2>2
<1> QED BY <1>1, <1>3, <1>4 DEF L!Taken

LEMMA ListCloses ==
  ListInv /\ (L!Select \/ L!Help \/ L!Leave) => ListInv' /\ L!Cursor!Close
<1> SUFFICES ASSUME ListInv, L!Select \/ L!Help \/ L!Leave
             PROVE  ListInv' /\ L!Cursor!Close
  OBVIOUS
<1>1. /\ UNCHANGED <<l_items, l_scroll, l_choice, l_rows>>
      /\ l_last' = "close" /\ l_status' \in {"open", "closed", "done"}
      /\ value' \in Member /\ active' \in Member \cup {L!None}
      /\ l_button' \in 0 .. 1
  BY DEF L!Select, L!Help, L!Leave, L!list_vars, ListInv, L!TypeOK
<1>2. marks' \subseteq 0 .. L!n - 1
  <2>1. CASE L!Leave
    BY <2>1 DEF L!Leave, ListInv, L!TypeOK
  <2>2. CASE L!Select \/ L!Help
    BY <2>2, ListTakes, ListWindow
  <2> QED BY <2>1, <2>2
<1>3. ListInv'
  BY <1>1, <1>2 DEF ListInv, L!TypeOK, L!WindowShowsItems, L!n,
                    L!max_choice, L!Drawn, L!Size
<1> QED BY <1>1, <1>3 DEF L!Cursor!Close

(* The list a call shows is the list of a cursor, between calls as well.   *)
LEMMA ListStep ==
  ListInv /\ [L!Next]_radio => ListInv' /\ [L!Cursor!Next]_(L!Cursor!vars)
<1> SUFFICES ASSUME ListInv, [L!Next]_radio
             PROVE  ListInv' /\ [L!Cursor!Next]_(L!Cursor!vars)
  OBVIOUS
<1>1. CASE L!PressButtons \/ L!Again \/ UNCHANGED radio
  <2>1. /\ UNCHANGED <<l_items, value, l_last, l_scroll, l_choice, l_rows, marks>>
        /\ l_status' \in {"open", "closed", "done"} /\ l_button' \in 0 .. 1
        /\ active' \in Member \cup {L!None}
    BY <1>1 DEF L!PressButtons, L!Again, radio, L!list_vars, ListInv, L!TypeOK
  <2>2. ListInv'
    BY <2>1 DEF ListInv, L!TypeOK, L!WindowShowsItems, L!n, L!max_choice,
                L!Drawn, L!Size
  <2> QED BY <2>1, <2>2 DEF L!Cursor!vars
<1>2. CASE \E letter \in Letters : L!Find(letter)
  BY <1>2, ListFinds DEF L!Cursor!Next
<1>3. CASE L!Open \/ L!Resize \/ L!Up \/ L!Down
  BY <1>3, ListOpens, ListResizes, ListGoesUp, ListGoesDown, Zenon
     DEF L!Cursor!Next
<1>4. CASE L!Select \/ L!Help \/ L!Leave
  BY <1>4, ListCloses, Zenon DEF L!Cursor!Next
<1> QED BY <1>1, <1>2, <1>3, <1>4, Zenon DEF L!Next

-----------------------------------------------------------------------------
(* inputbox.c.  The buffer is a string of characters, and the field has    *)
(* its columns.                                                            *)
InputTyped ==
  /\ instr \in [0 .. MAX_LEN -> Chars \cup {I!NUL}]
  /\ \E i \in 0 .. MAX_LEN : instr[i] = I!NUL
  /\ field = [c \in 0 .. box_width - 1 |-> field[c]]
  /\ i_status \in {"open", "closed"} /\ i_button \in -1 .. 1

(* The field can be filled from scroll on, and the cursor never is before  *)
(* the end of the string.                                                  *)
CursorBehindText ==
  /\ i_scroll \in 0 .. MAX_LEN - box_width + 1
  /\ input_x \in Int /\ input_x < box_width
  /\ i_scroll + input_x >= I!strlen(instr)
  /\ ~ shifted => i_scroll + input_x = I!strlen(instr) /\ input_x >= 0

(* What was erased in the field is gone from the buffer, to where the      *)
(* field ends: it is not brought back as a part of the text.               *)
NothingBehind ==
  ~ shifted /\ i_scroll > 0 =>
    \A j \in i_scroll + input_x .. i_scroll + box_width - 1 : instr[j] = I!NUL

InputInv ==
  InputTyped /\ CursorBehindText /\ NothingBehind /\ I!FieldShowsText

(* A buffer that was overrun is not followed.                              *)
Overrun == i_status = "overrun" /\ I!TypeOK

InputHolds == InputInv \/ Overrun

LEMMA InputConstants ==
  /\ box_width \in Nat /\ box_width > 1 /\ MAX_LEN \in Nat
  /\ MAX_LEN >= box_width /\ I!NUL \notin Chars
  /\ \A t \in Inits : t \in Seq(Chars)
<1>1. /\ box_width \in Nat \ {0, 1} /\ MAX_LEN \in Nat /\ MAX_LEN >= box_width
      /\ Inits \subseteq Seq(Chars)
      /\ {I!NUL, I!Space} \cap Chars = {}
  BY DialogsAssumption DEF I!InputBoxAssumption
<1> QED BY <1>1

(* The length of a string is where its first NUL is.                       *)
LEMMA StrlenFacts ==
  ASSUME NEW b, \E i \in 0 .. MAX_LEN : b[i] = I!NUL
  PROVE  /\ I!strlen(b) \in 0 .. MAX_LEN /\ b[I!strlen(b)] = I!NUL
         /\ \A i \in 0 .. I!strlen(b) - 1 : b[i] # I!NUL
         /\ \A j \in 0 .. MAX_LEN : b[j] = I!NUL => I!strlen(b) <= j
<1> DEFINE E == {i \in 0 .. MAX_LEN : b[i] = I!NUL}
<1>0. MAX_LEN \in Nat
  BY InputConstants
<1>1. E \in SUBSET Nat /\ E # {}
  BY <1>0
<1>2. PICK k \in E : \A j \in E : k <= j
  <2> HIDE DEF E
  <2> QED BY <1>1, LeastNumber
<1>3. /\ k \in 0 .. MAX_LEN /\ b[k] = I!NUL
      /\ \A i \in 0 .. k - 1 : b[i] # I!NUL
  <2>1. k \in 0 .. MAX_LEN /\ b[k] = I!NUL
    OBVIOUS
  <2>2. ASSUME NEW i \in 0 .. k - 1, b[i] = I!NUL PROVE FALSE
    <3>1. i \in E
      BY <1>0, <2>1, <2>2
    <3> QED BY <1>0, <1>2, <2>1, <3>1
  <2> QED BY <2>1, <2>2
<1>4. /\ I!strlen(b) \in 0 .. MAX_LEN /\ b[I!strlen(b)] = I!NUL
      /\ \A i \in 0 .. I!strlen(b) - 1 : b[i] # I!NUL
  BY <1>3, Zenon DEF I!strlen
<1> HIDE DEF E
<1> DEFINE s == I!strlen(b)
<1>5. ASSUME NEW j \in 0 .. MAX_LEN, b[j] = I!NUL PROVE s <= j
  <2> HIDE DEF s
  <2>1. s \in 0 .. MAX_LEN /\ \A i \in 0 .. s - 1 : b[i] # I!NUL
    BY <1>4 DEF s
  <2> QED BY <1>0, <1>5, <2>1
<1> QED BY <1>4, <1>5

LEMMA StrlenIs ==
  ASSUME NEW b, NEW k \in 0 .. MAX_LEN, b[k] = I!NUL,
         \A i \in 0 .. k - 1 : b[i] # I!NUL
  PROVE  I!strlen(b) = k
<1> DEFINE s == I!strlen(b)
<1>1. s \in 0 .. MAX_LEN /\ b[s] = I!NUL /\ s <= k
  BY StrlenFacts
<1> HIDE DEF s
<1>2. s = k
  BY <1>1, InputConstants
<1> QED BY <1>2 DEF s

(* A dialog that is drawn, from the start or again, is as it should be.    *)
LEMMA InputDrawn ==
  ASSUME NEW old \in 0 .. MAX_LEN - box_width + 1, InputTyped',
         I!Draw(instr', old)
  PROVE  CursorBehindText' /\ NothingBehind' /\ I!FieldShowsText'
<1> DEFINE len == I!strlen(instr')
<1>1. len \in 0 .. MAX_LEN /\ instr'[len] = I!NUL
  BY StrlenFacts DEF InputTyped
<1>2. IF len >= box_width
      THEN /\ i_scroll' = len - box_width + 1 /\ input_x' = box_width - 1
           /\ field' = I!Filled(instr', i_scroll', box_width - 1)
           /\ shifted' = FALSE
      ELSE /\ i_scroll' = old /\ input_x' = len
           /\ field' = I!Filled(instr', 0, len)
           /\ shifted' = (old > 0)
  BY DEF I!Draw
<1>3. len = I!strlen(instr)'
  BY DEF I!strlen
<1> HIDE DEF len
<1>0. ASSUME ~ (len >= box_width), ~ shifted' PROVE old = 0
  <2>1. SUFFICES ASSUME old # 0 PROVE FALSE
    OBVIOUS
  <2>2. (old > 0) = TRUE
    BY <2>1, InputConstants
  <2>3. shifted' = TRUE
    BY <1>0, <1>2, <2>2, Zenon
  <2> QED BY <1>0, <2>3
<1>4. CursorBehindText'
  <2>1. CASE len >= box_width
    BY <1>1, <1>2, <1>3, <2>1, InputConstants DEF CursorBehindText
  <2>2. CASE ~ (len >= box_width)
    <3>1. /\ i_scroll' = old /\ input_x' = len
          /\ ~ shifted' => old = 0
      BY <1>0, <1>2, <2>2, Zenon
    <3> QED BY <1>1, <1>3, <2>2, <3>1, InputConstants DEF CursorBehindText
  <2> QED BY <2>1, <2>2
<1>5. NothingBehind'
  <2>1. CASE len >= box_width
    BY <1>1, <1>2, <2>1, InputConstants DEF NothingBehind
  <2>2. CASE ~ (len >= box_width)
    <3>1. i_scroll' = old /\ (~ shifted' => old = 0)
      BY <1>0, <1>2, <2>2, Zenon
    <3> QED BY <3>1 DEF NothingBehind
  <2> QED BY <2>1, <2>2
<1>6. I!FieldShowsText'
  <2>1. ASSUME ~ shifted'
        PROVE  i_scroll' + input_x' = len /\ field' = I!Filled(instr', i_scroll', input_x')
    <3>1. CASE len >= box_width
      BY <1>1, <1>2, <3>1, InputConstants
    <3>2. CASE ~ (len >= box_width)
      <4>1. old = 0
        BY <1>0, <2>1, <3>2, Zenon
      <4> QED BY <1>1, <1>2, <3>2, <4>1
    <3> QED BY <3>1, <3>2
  <2> QED BY <1>3, <2>1 DEF I!FieldShowsText, I!Filled
<1> QED BY <1>4, <1>5, <1>6

LEMMA InputInitially == I!Init => InputInv
<1> SUFFICES ASSUME I!Init PROVE InputInv
  OBVIOUS
<1> USE DEF I!Init
<1>1. InputTyped
  BY InputConstants DEF InputTyped
<1>2. I!strlen(instr) = 0
  BY StrlenIs, InputConstants
<1> QED BY <1>1, <1>2, InputConstants
        DEF InputInv, CursorBehindText, NothingBehind, I!FieldShowsText, I!Filled

LEMMA InputOpens == InputInv /\ I!Open => InputInv'
<1> SUFFICES ASSUME InputInv, I!Open PROVE InputInv'
  OBVIOUS
<1>1. PICK t \in Inits : Len(t) <= MAX_LEN /\ instr' = I!strcpy(instr, t)
  BY DEF I!Open
<1>2. /\ t \in Seq(Chars) /\ Len(t) \in 0 .. MAX_LEN /\ MAX_LEN \in Nat
      /\ \A i \in 1 .. Len(t) : t[i] \in Chars
  <2>1. t \in Seq(Chars) /\ Len(t) \in Nat /\ MAX_LEN \in Nat
    BY InputConstants
  <2> QED BY <1>1, <2>1
<1>3. /\ instr' \in [0 .. MAX_LEN -> Chars \cup {I!NUL}]
      /\ instr'[Len(t)] = I!NUL
  BY <1>1, <1>2 DEF I!strcpy, InputInv, InputTyped
<1>4. I!Draw(instr', 0) /\ i_status' = "open" /\ i_button' = -1
  BY DEF I!Open
<1>5. field' = [c \in 0 .. box_width - 1 |-> field'[c]]
  BY <1>4 DEF I!Draw, I!Filled
<1>6. InputTyped'
  BY <1>2, <1>3, <1>4, <1>5 DEF InputTyped
<1> QED BY <1>4, <1>6, InputDrawn, InputConstants DEF InputInv

LEMMA InputOverruns == InputInv /\ I!OpenTooLong => Overrun'
<1> SUFFICES ASSUME InputInv, I!OpenTooLong PROVE Overrun'
  OBVIOUS
<1>1. PICK t \in Inits : Len(t) > MAX_LEN /\ instr' = I!strcpy(instr, t)
  BY DEF I!OpenTooLong
<1>2. /\ t \in Seq(Chars) /\ Len(t) \in Nat /\ MAX_LEN \in Nat
      /\ \A i \in 1 .. Len(t) : t[i] \in Chars
  BY InputConstants
<1>3. \A i \in 0 .. MAX_LEN : instr'[i] \in Chars \cup {I!NUL}
  BY <1>1, <1>2 DEF I!strcpy
<1>4. i_status' = "overrun" /\ i_button' \in -1 .. 1
  BY DEF I!OpenTooLong, InputInv, InputTyped
<1> QED BY <1>3, <1>4 DEF Overrun, I!TypeOK

LEMMA InputResizes == InputInv /\ I!Resize => InputInv'
<1> SUFFICES ASSUME InputInv, I!Resize PROVE InputInv'
  OBVIOUS
<1>1. I!Draw(instr', i_scroll) /\ UNCHANGED <<instr, i_status, i_button>>
  BY DEF I!Resize
<1>2. field' = [c \in 0 .. box_width - 1 |-> field'[c]]
  BY <1>1 DEF I!Draw, I!Filled
<1>3. InputTyped'
  BY <1>1, <1>2 DEF InputTyped, InputInv
<1>4. i_scroll \in 0 .. MAX_LEN - box_width + 1
  BY DEF InputInv, CursorBehindText
<1> QED BY <1>1, <1>3, <1>4, InputDrawn DEF InputInv

(* A character is put behind the cursor.  Up to there the string stays     *)
(* what it was.                                                            *)
LEMMA InputTypes ==
  ASSUME InputInv, NEW key \in Chars, I!Type(key)
  PROVE  /\ InputInv'
         /\ ~ shifted =>
              /\ I!strlen(instr') = I!strlen(instr) + 1
              /\ instr'[I!strlen(instr)] = key
              /\ \A i \in 0 .. I!strlen(instr) - 1 : instr'[i] = instr[i]
<1> DEFINE k == i_scroll + input_x
           len == I!strlen(instr)
<1>1. /\ len \in 0 .. MAX_LEN /\ instr[len] = I!NUL
      /\ \A i \in 0 .. len - 1 : instr[i] # I!NUL
  BY StrlenFacts DEF InputInv, InputTyped
<1>2. /\ i_scroll \in 0 .. MAX_LEN - box_width + 1
      /\ input_x \in Int /\ input_x < box_width
      /\ k \in Int /\ k >= len /\ k < MAX_LEN /\ (~ shifted => k = len)
  BY InputConstants DEF InputInv, CursorBehindText, I!Type
<1>3. /\ instr' = [instr EXCEPT ![k] = key, ![k + 1] = I!NUL]
      /\ UNCHANGED <<i_status, i_button, shifted>>
      /\ IF input_x = box_width - 1
         THEN /\ i_scroll' = i_scroll + 1 /\ input_x' = input_x
              /\ field' = [I!Filled(instr', i_scroll + 1, box_width - 1)
                             EXCEPT ![box_width - 1] = field[box_width - 1]]
         ELSE /\ input_x' = input_x + 1 /\ i_scroll' = i_scroll
              /\ field' = [field EXCEPT ![input_x] = key]
  BY DEF I!Type
<1> HIDE DEF len
<1>4. /\ k \in 0 .. MAX_LEN /\ k + 1 \in 0 .. MAX_LEN /\ k # k + 1
      /\ i_scroll' + input_x' = k + 1
  <2>1. i_scroll' + input_x' = k + 1
    <3>1. \/ i_scroll' = i_scroll + 1 /\ input_x' = input_x
          \/ i_scroll' = i_scroll /\ input_x' = input_x + 1
      BY <1>3
    <3> QED BY <1>2, <3>1, InputConstants
  <2> HIDE DEF k
  <2> QED BY <1>1, <1>2, <2>1, InputConstants
<1> HIDE DEF k
<1>5. /\ instr' \in [0 .. MAX_LEN -> Chars \cup {I!NUL}]
      /\ instr'[k] = key /\ instr'[k + 1] = I!NUL
      /\ \A i \in 0 .. MAX_LEN : i # k /\ i # k + 1 => instr'[i] = instr[i]
  BY <1>3, <1>4 DEF InputInv, InputTyped
<1>6. InputTyped'
  <2>1. /\ \E i \in 0 .. MAX_LEN : instr'[i] = I!NUL
        /\ i_status' \in {"open", "closed"} /\ i_button' \in -1 .. 1
    BY <1>3, <1>4, <1>5 DEF InputInv, InputTyped
  <2>2. field' = [c \in 0 .. box_width - 1 |-> field'[c]]
    BY <1>3 DEF I!Filled, InputInv, InputTyped
  <2> QED BY <1>5, <2>1, <2>2 DEF InputTyped
<1>7. I!strlen(instr') <= k + 1
  BY <1>4, <1>5, StrlenFacts
<1>8. ASSUME ~ shifted PROVE I!strlen(instr') = k + 1
  <2>1. \A i \in 0 .. (k + 1) - 1 : instr'[i] # I!NUL
    BY <1>1, <1>2, <1>4, <1>5, <1>8, InputConstants
  <2> QED BY <1>4, <1>5, <2>1, StrlenIs
<1>9. I!strlen(instr)' = I!strlen(instr')
  BY DEF I!strlen
<1>10. CursorBehindText'
  <2>1. i_scroll' \in 0 .. MAX_LEN - box_width + 1 /\ input_x' \in Int /\ input_x' < box_width
    <3>1. k = i_scroll + input_x
      BY DEF k
    <3> QED BY <1>2, <1>3, <3>1, InputConstants
  <2>2. I!strlen(instr') \in 0 .. MAX_LEN
    BY <1>6, StrlenFacts DEF InputTyped
  <2>3. shifted' = shifted
    BY <1>3
  <2>4. ~ shifted => input_x' >= 0
    BY <1>2, <1>3 DEF InputInv, CursorBehindText
  <2> QED BY <1>4, <1>7, <1>8, <1>9, <2>1, <2>2, <2>3, <2>4 DEF CursorBehindText
<1>11. NothingBehind'
  <2>1. SUFFICES ASSUME ~ shifted, i_scroll' > 0,
                        NEW j \in i_scroll' + input_x' .. i_scroll' + box_width - 1
                 PROVE  instr'[j] = I!NUL
    BY <1>3 DEF NothingBehind
  <2>2. j \in k + 1 .. i_scroll' + box_width - 1
    BY <1>4
  <2>3. CASE input_x = box_width - 1
    <3>1. j = k + 1
      BY <1>2, <1>3, <2>2, <2>3, InputConstants DEF k
    <3> QED BY <1>5, <3>1
  <2>4. CASE input_x # box_width - 1
    <3>1. i_scroll' = i_scroll /\ i_scroll > 0
      BY <1>3, <2>1, <2>4
    <3>2. j \in 0 .. MAX_LEN
      BY <1>2, <1>4, <2>2, <3>1, InputConstants
    <3>3. CASE j = k + 1
      BY <1>5, <3>3
    <3>4. CASE j # k + 1
      <4>1. j \in i_scroll + input_x .. i_scroll + box_width - 1 /\ j # k
        BY <1>2, <1>4, <2>2, <3>1, <3>2, InputConstants DEF k
      <4>2. instr[j] = I!NUL
        BY <2>1, <3>1, <4>1 DEF InputInv, NothingBehind
      <4> QED BY <1>5, <3>2, <3>4, <4>1, <4>2
    <3> QED BY <3>3, <3>4
  <2> QED BY <2>3, <2>4
<1>12. I!FieldShowsText'
  <2>1. SUFFICES ASSUME ~ shifted
                 PROVE  /\ i_scroll' + input_x' = I!strlen(instr')
                        /\ field' = I!Filled(instr', i_scroll', input_x')
    BY <1>3, <1>9 DEF I!FieldShowsText, I!Filled
  <2>2. field = I!Filled(instr, i_scroll, input_x) /\ k = len
    BY <1>2, <2>1 DEF InputInv, I!FieldShowsText
  <2>3. CASE input_x = box_width - 1
    <3>1. field[box_width - 1] = I!Space
      BY <2>2, <2>3, InputConstants DEF I!Filled
    <3>2. field' = [I!Filled(instr', i_scroll + 1, box_width - 1)
                             EXCEPT ![box_width - 1] = I!Space]
          /\ i_scroll' = i_scroll + 1 /\ input_x' = box_width - 1
      BY <1>3, <2>3, <3>1
    <3>3. field' = I!Filled(instr', i_scroll + 1, box_width - 1)
      <4> DEFINE F == I!Filled(instr', i_scroll + 1, box_width - 1)
      <4>1. F = [c \in 0 .. box_width - 1 |->
                   IF c < box_width - 1 THEN instr'[i_scroll + 1 + c] ELSE I!Space]
        BY DEF I!Filled
      <4>2. F[box_width - 1] = I!Space
        BY <4>1, InputConstants
      <4> HIDE DEF F
      <4>3. field' = [c \in 0 .. box_width - 1 |->
                        IF c = box_width - 1 THEN I!Space ELSE F[c]]
        BY <3>2, <4>1 DEF F
      <4>4. \A c \in 0 .. box_width - 1 : field'[c] = F[c]
        BY <4>2, <4>3
      <4>5. field' = F
        BY <4>1, <4>3, <4>4
      <4> QED BY <4>5 DEF F
    <3> QED BY <1>4, <1>8, <2>1, <3>2, <3>3
  <2>4. CASE input_x # box_width - 1
    <3>1. /\ field' = [field EXCEPT ![input_x] = key]
          /\ i_scroll' = i_scroll /\ input_x' = input_x + 1
      BY <1>3, <2>4
    <3>2. \A c \in 0 .. box_width - 1 :
            field'[c] = IF c < input_x + 1 THEN instr'[i_scroll + c] ELSE I!Space
      <4> TAKE c \in 0 .. box_width - 1
      <4>0. field[c] = IF c < input_x THEN instr[i_scroll + c] ELSE I!Space
        BY <2>2 DEF I!Filled
      <4>1. CASE c < input_x
        <5>1. i_scroll + c \in 0 .. MAX_LEN /\ i_scroll + c # k /\ i_scroll + c # k + 1
          BY <1>2, <1>4, <4>1, InputConstants DEF k
        <5>2. field'[c] = field[c]
          BY <2>2, <3>1, <4>1, <1>2, InputConstants DEF I!Filled
        <5> QED BY <1>2, <1>5, <4>0, <4>1, <5>1, <5>2, InputConstants
      <4>2. CASE c = input_x
        <5>1. field'[c] = key
          BY <2>2, <3>1, <4>2, InputConstants DEF I!Filled
        <5> QED BY <1>2, <1>5, <4>2, <5>1, InputConstants DEF k
      <4>3. CASE c > input_x
        <5>1. field'[c] = field[c]
          BY <2>2, <3>1, <4>3, <1>2, InputConstants DEF I!Filled
        <5> QED BY <1>2, <4>0, <4>3, <5>1, InputConstants
      <4> QED BY <1>2, <4>1, <4>2, <4>3, InputConstants
    <3>3. field' = [c \in 0 .. box_width - 1 |-> field'[c]]
      BY <1>6 DEF InputTyped
    <3>4. field' = I!Filled(instr', i_scroll', input_x')
      <4>1. field' = [c \in 0 .. box_width - 1 |->
                        IF c < input_x + 1 THEN instr'[i_scroll + c] ELSE I!Space]
        BY <3>2, <3>3
      <4> QED BY <3>1, <4>1 DEF I!Filled
    <3> QED BY <1>4, <1>8, <2>1, <3>4
  <2> QED BY <2>3, <2>4
<1>13. ASSUME ~ shifted
       PROVE  /\ I!strlen(instr') = len + 1 /\ instr'[len] = key
              /\ \A i \in 0 .. len - 1 : instr'[i] = instr[i]
  BY <1>1, <1>2, <1>4, <1>5, <1>8, <1>13, InputConstants
<1> QED BY <1>6, <1>10, <1>11, <1>12, <1>13 DEF InputInv, len

(* In the first column of the field nothing is erased: what is before it   *)
(* is brought back, up to the end of the string.                           *)
LEMMA InputBringsBack ==
  ASSUME InputInv, I!Backspace, input_x = 0
  PROVE  InputInv' /\ instr' = instr
<1> DEFINE len == I!strlen(instr)
           back == IF i_scroll < box_width - 1 THEN 0
                                               ELSE i_scroll - (box_width - 1)
<1>1. /\ len \in 0 .. MAX_LEN /\ instr[len] = I!NUL
      /\ \A i \in 0 .. len - 1 : instr[i] # I!NUL
  BY StrlenFacts DEF InputInv, InputTyped
<1>2. /\ i_scroll \in 0 .. MAX_LEN - box_width + 1 /\ i_scroll > 0
      /\ i_scroll >= len /\ (~ shifted => i_scroll = len)
  <2>1. i_scroll > 0
    BY DEF I!Backspace
  <2> QED BY <2>1, InputConstants DEF InputInv, CursorBehindText
<1>3. /\ i_scroll' = back /\ input_x' = len - back
      /\ field' = [[c \in 0 .. box_width - 1 |->
                      IF instr[back + c] # I!NUL THEN instr[back + c] ELSE I!Space]
                    EXCEPT ![len - back] = I!Space]
      /\ instr' = [instr EXCEPT ![back + (len - back)] = I!NUL]
      /\ UNCHANGED <<i_status, i_button, shifted>>
  BY DEF I!Backspace
<1>4. /\ back \in 0 .. i_scroll /\ i_scroll - back <= box_width - 1
      /\ back + (box_width - 1) >= i_scroll
      /\ back > 0 => back + (box_width - 1) = i_scroll
  BY <1>2, InputConstants
<1> HIDE DEF len, back
<1>5. back + (len - back) = len
  BY <1>1, <1>4
<1>6. instr' = instr
  <2>1. instr' = [instr EXCEPT ![len] = I!NUL]
    BY <1>3, <1>5
  <2> QED BY <1>1, <2>1 DEF InputInv, InputTyped
<1>7. InputTyped'
  <2>1. field' = [c \in 0 .. box_width - 1 |-> field'[c]]
    BY <1>3
  <2> QED BY <1>3, <1>6, <2>1 DEF InputInv, InputTyped
<1>8. I!strlen(instr)' = len
  BY <1>6 DEF I!strlen, len
<1>9. CursorBehindText'
  BY <1>1, <1>2, <1>3, <1>4, <1>5, <1>8, InputConstants DEF CursorBehindText
<1>10. NothingBehind'
  <2>1. SUFFICES ASSUME ~ shifted, back > 0,
                        NEW j \in back + (len - back) .. back + box_width - 1
                 PROVE  instr[j] = I!NUL
    BY <1>3, <1>6 DEF NothingBehind
  <2>2. j = len
    BY <1>1, <1>2, <1>4, <1>5, <2>1, InputConstants
  <2> QED BY <1>1, <2>2
<1>11. I!FieldShowsText'
  <2>1. SUFFICES ASSUME ~ shifted
                 PROVE  field' = I!Filled(instr, back, len - back)
    BY <1>3, <1>5, <1>6, <1>8 DEF I!FieldShowsText, I!Filled
  <2>2. i_scroll = len
    BY <1>2, <2>1
  <2>3. ASSUME NEW c \in 0 .. box_width - 1
        PROVE  field'[c] = IF c < len - back THEN instr[back + c] ELSE I!Space
    <3>1. field'[c] = IF c = len - back THEN I!Space
                      ELSE IF instr[back + c] # I!NUL THEN instr[back + c]
                                                      ELSE I!Space
      BY <1>3
    <3>2. CASE c < len - back
      <4>1. back + c \in 0 .. len - 1
        BY <1>1, <1>4, <3>2, InputConstants
      <4> QED BY <1>1, <1>4, <3>1, <3>2, <4>1, InputConstants
    <3>3. CASE c = len - back
      BY <1>1, <1>4, <3>1, <3>3, InputConstants
    <3>4. CASE c > len - back
      <4>1. back = 0
        BY <1>1, <1>4, <2>2, <3>4, InputConstants
      <4>2. back + c \in i_scroll + input_x .. i_scroll + box_width - 1
        BY <1>2, <1>4, <2>2, <3>4, <4>1, InputConstants
      <4>3. instr[back + c] = I!NUL
        BY <1>2, <2>1, <4>2 DEF InputInv, NothingBehind
      <4> QED BY <1>1, <1>4, <3>1, <3>4, <4>3, InputConstants
    <3> QED BY <1>1, <1>4, <3>2, <3>3, <3>4, InputConstants
  <2>4. field' = [c \in 0 .. box_width - 1 |-> field'[c]]
    BY <1>7 DEF InputTyped
  <2>5. field' = [c \in 0 .. box_width - 1 |->
                    IF c < len - back THEN instr[back + c] ELSE I!Space]
    BY <2>3, <2>4
  <2> QED BY <2>5 DEF I!Filled
<1> QED BY <1>6, <1>7, <1>9, <1>10, <1>11 DEF InputInv

(* Elsewhere the last character is erased.                                 *)
LEMMA InputErases ==
  ASSUME InputInv, I!Backspace, input_x # 0
  PROVE  /\ InputInv'
         /\ ~ shifted =>
              /\ I!strlen(instr) > 0 /\ I!strlen(instr') = I!strlen(instr) - 1
              /\ \A i \in 0 .. I!strlen(instr) - 2 : instr'[i] = instr[i]
<1> DEFINE k == i_scroll + (input_x - 1)
           len == I!strlen(instr)
<1>1. /\ len \in 0 .. MAX_LEN /\ instr[len] = I!NUL
      /\ \A i \in 0 .. len - 1 : instr[i] # I!NUL
  BY StrlenFacts DEF InputInv, InputTyped
<1>2. /\ i_scroll' = i_scroll /\ input_x' = input_x - 1 /\ k >= 0
      /\ instr' = [instr EXCEPT ![k] = I!NUL]
      /\ field' = [field EXCEPT ![input_x - 1] = I!Space]
      /\ UNCHANGED <<i_status, i_button, shifted>>
  BY DEF I!Backspace
<1>3. /\ i_scroll \in 0 .. MAX_LEN - box_width + 1
      /\ input_x \in Int /\ input_x < box_width
      /\ k + 1 = i_scroll + input_x /\ k + 1 >= len
      /\ ~ shifted => k + 1 = len /\ input_x >= 1
      /\ k \in 0 .. MAX_LEN
  <2>1. /\ i_scroll \in 0 .. MAX_LEN - box_width + 1
        /\ input_x \in Int /\ input_x < box_width
        /\ i_scroll + input_x >= len
        /\ ~ shifted => i_scroll + input_x = len /\ input_x >= 0
    BY DEF InputInv, CursorBehindText
  <2> HIDE DEF len
  <2> QED BY <1>2, <2>1, InputConstants
<1> HIDE DEF len, k
<1>4. /\ instr' \in [0 .. MAX_LEN -> Chars \cup {I!NUL}]
      /\ instr'[k] = I!NUL
      /\ \A i \in 0 .. MAX_LEN : i # k => instr'[i] = instr[i]
  BY <1>2, <1>3 DEF InputInv, InputTyped
<1>5. InputTyped'
  <2>1. field' = [c \in 0 .. box_width - 1 |-> field'[c]]
    BY <1>2 DEF InputInv, InputTyped
  <2> QED BY <1>2, <1>3, <1>4, <2>1 DEF InputInv, InputTyped
<1>6. I!strlen(instr') \in 0 .. MAX_LEN /\ I!strlen(instr') <= k
  BY <1>3, <1>4, StrlenFacts
<1>7. ASSUME ~ shifted PROVE I!strlen(instr') = k
  <2>1. \A i \in 0 .. k - 1 : instr'[i] # I!NUL
    BY <1>1, <1>3, <1>4, <1>7, InputConstants
  <2> QED BY <1>3, <1>4, <2>1, StrlenIs
<1>8. I!strlen(instr)' = I!strlen(instr')
  BY DEF I!strlen
<1>9. CursorBehindText'
  <2>1. i_scroll' + input_x' = k
    BY <1>2, <1>3
  <2>2. shifted' = shifted /\ (~ shifted => input_x' >= 0)
    BY <1>2, <1>3
  <2> QED BY <1>2, <1>3, <1>6, <1>7, <1>8, <2>1, <2>2, InputConstants
          DEF CursorBehindText
<1>10. NothingBehind'
  <2>1. SUFFICES ASSUME ~ shifted, i_scroll > 0,
                        NEW j \in i_scroll + (input_x - 1) .. i_scroll + box_width - 1
                 PROVE  instr'[j] = I!NUL
    BY <1>2 DEF NothingBehind
  <2>2. j \in 0 .. MAX_LEN
    BY <1>2, <1>3, InputConstants
  <2>3. CASE j = k
    BY <1>4, <2>3
  <2>4. CASE j # k
    <3>1. j \in i_scroll + input_x .. i_scroll + box_width - 1
      BY <1>3, <2>2, <2>4, InputConstants DEF k
    <3>2. instr[j] = I!NUL
      BY <2>1, <3>1 DEF InputInv, NothingBehind
    <3> QED BY <1>4, <2>2, <2>4, <3>2
  <2> QED BY <2>3, <2>4
<1>11. I!FieldShowsText'
  <2>1. SUFFICES ASSUME ~ shifted
                 PROVE  /\ i_scroll + (input_x - 1) = I!strlen(instr')
                        /\ field' = I!Filled(instr', i_scroll, input_x - 1)
    BY <1>2, <1>8 DEF I!FieldShowsText, I!Filled
  <2>2. i_scroll + (input_x - 1) = I!strlen(instr')
    BY <1>7, <2>1 DEF k
  <2>3. field = I!Filled(instr, i_scroll, input_x)
    BY <2>1 DEF InputInv, I!FieldShowsText
  <2>4. ASSUME NEW c \in 0 .. box_width - 1
        PROVE  field'[c] = IF c < input_x - 1 THEN instr'[i_scroll + c] ELSE I!Space
    <3>1. field'[c] = IF c = input_x - 1 THEN I!Space
                      ELSE IF c < input_x THEN instr[i_scroll + c] ELSE I!Space
      BY <1>2, <2>3 DEF I!Filled
    <3>2. CASE c < input_x - 1
      <4>1. i_scroll + c \in 0 .. MAX_LEN /\ i_scroll + c # k
        BY <1>3, <3>2, InputConstants DEF k
      <4>2. field'[c] = instr[i_scroll + c]
        BY <1>3, <3>1, <3>2
      <4> QED BY <1>4, <3>2, <4>1, <4>2
    <3>3. CASE ~ (c < input_x - 1)
      BY <1>3, <3>1, <3>3, InputConstants
    <3> QED BY <3>2, <3>3
  <2>5. field' = [c \in 0 .. box_width - 1 |-> field'[c]]
    BY <1>5 DEF InputTyped
  <2>6. field' = [c \in 0 .. box_width - 1 |->
                    IF c < input_x - 1 THEN instr'[i_scroll + c] ELSE I!Space]
    BY <2>4, <2>5
  <2> QED BY <2>2, <2>6 DEF I!Filled
<1>12. ASSUME ~ shifted
       PROVE  /\ len > 0 /\ I!strlen(instr') = len - 1
              /\ \A i \in 0 .. len - 2 : instr'[i] = instr[i]
  BY <1>1, <1>3, <1>4, <1>7, <1>12, InputConstants
<1> QED BY <1>5, <1>9, <1>10, <1>11, <1>12 DEF InputInv, len

(* What of an answer is in the buffer after a character more or less.      *)
LEMMA TextAppended ==
  ASSUME NEW b, NEW d, NEW key, I!strlen(b) \in Nat,
         I!strlen(d) = I!strlen(b) + 1, d[I!strlen(b)] = key,
         \A i \in 0 .. I!strlen(b) - 1 : d[i] = b[i]
  PROVE  I!Text(d) = Append(I!Text(b), key)
<1> DEFINE len == I!strlen(b)
           t == [i \in 1 .. len |-> b[i - 1]]
           u == [i \in 1 .. len + 1 |-> d[i - 1]]
<1>1. I!Text(b) = t /\ I!Text(d) = u
  BY DEF I!Text
<1>2. len \in Nat /\ d[len] = key /\ \A i \in 0 .. len - 1 : d[i] = b[i]
  OBVIOUS
<1> HIDE DEF len
<1>3. t \in Seq({b[i - 1] : i \in 1 .. len}) /\ Len(t) = len
  <2> DEFINE S == {b[i - 1] : i \in 1 .. len}
  <2>1. \A i \in 1 .. len : b[i - 1] \in S
    OBVIOUS
  <2> HIDE DEF S
  <2>2. t \in Seq(S) /\ Len(t) = len
    BY <1>2, <2>1
  <2> QED BY <2>2 DEF S
<1>4. Append(t, key) = [i \in 1 .. len + 1 |-> IF i = len + 1 THEN key ELSE t[i]]
  BY <1>2, <1>3
<1>5. ASSUME NEW i \in 1 .. len + 1
      PROVE  u[i] = IF i = len + 1 THEN key ELSE t[i]
  <2>1. CASE i = len + 1
    BY <1>2, <2>1
  <2>2. CASE i # len + 1
    <3>1. i \in 1 .. len /\ i - 1 \in 0 .. len - 1
      BY <1>2, <2>2
    <3> QED BY <1>2, <2>2, <3>1
  <2> QED BY <2>1, <2>2
<1>6. u = Append(t, key)
  BY <1>4, <1>5
<1> QED BY <1>1, <1>6

LEMMA TextShortened ==
  ASSUME NEW b, NEW d, I!strlen(b) \in Nat, I!strlen(b) > 0,
         I!strlen(d) = I!strlen(b) - 1,
         \A i \in 0 .. I!strlen(b) - 2 : d[i] = b[i]
  PROVE  /\ I!Text(b) # << >>
         /\ I!Text(d) = SubSeq(I!Text(b), 1, Len(I!Text(b)) - 1)
<1> DEFINE len == I!strlen(b)
           t == [i \in 1 .. len |-> b[i - 1]]
           u == [i \in 1 .. len - 1 |-> d[i - 1]]
<1>1. I!Text(b) = t /\ I!Text(d) = u
  BY DEF I!Text
<1>2. len \in Nat /\ len > 0 /\ \A i \in 0 .. len - 2 : d[i] = b[i]
  OBVIOUS
<1> HIDE DEF len
<1>3. t \in Seq({b[i - 1] : i \in 1 .. len}) /\ Len(t) = len
  <2> DEFINE S == {b[i - 1] : i \in 1 .. len}
  <2>1. \A i \in 1 .. len : b[i - 1] \in S
    OBVIOUS
  <2> HIDE DEF S
  <2>2. t \in Seq(S) /\ Len(t) = len
    BY <1>2, <2>1
  <2> QED BY <2>2 DEF S
<1>4. t # << >>
  BY <1>2, <1>3
<1>5. SubSeq(t, 1, len - 1) = [i \in 1 .. len - 1 |-> t[i]]
  BY <1>2, <1>3
<1>6. ASSUME NEW i \in 1 .. len - 1 PROVE u[i] = t[i]
  <2>1. i - 1 \in 0 .. len - 2 /\ i \in 1 .. len
    BY <1>2
  <2> QED BY <1>2, <2>1
<1>7. u = SubSeq(t, 1, len - 1)
  BY <1>5, <1>6
<1> QED BY <1>1, <1>3, <1>4, <1>7

LEMMA InputStep ==
  InputInv /\ [I!Next]_input =>
    /\ InputHolds'
    /\ ~ shifted /\ i_status = "open" /\ instr' # instr =>
         \/ \E key \in Chars : I!Text(instr') = Append(I!Text(instr), key)
         \/ /\ I!Text(instr) # << >>
            /\ I!Text(instr') = SubSeq(I!Text(instr), 1, Len(I!Text(instr)) - 1)
<1> DEFINE Edit ==
      \/ \E key \in Chars : I!Text(instr') = Append(I!Text(instr), key)
      \/ /\ I!Text(instr) # << >>
         /\ I!Text(instr') = SubSeq(I!Text(instr), 1, Len(I!Text(instr)) - 1)
<1> SUFFICES ASSUME InputInv, [I!Next]_input
             PROVE  /\ InputHolds'
                    /\ ~ shifted /\ i_status = "open" /\ instr' # instr => Edit
  OBVIOUS
<1> USE DEF InputHolds
<1>0. I!strlen(instr) \in Nat
  <2>1. I!strlen(instr) \in 0 .. MAX_LEN
    BY StrlenFacts DEF InputInv, InputTyped
  <2> QED BY <2>1, InputConstants
<1>1. CASE I!PressButtons \/ I!Close \/ UNCHANGED input
  <2>1. /\ UNCHANGED <<instr, input_x, i_scroll, field, shifted>>
        /\ i_status' \in {"open", "closed"} /\ i_button' \in -1 .. 1
    BY <1>1 DEF I!PressButtons, I!Close, input, InputInv, InputTyped
  <2>2. I!strlen(instr)' = I!strlen(instr)
    BY <2>1 DEF I!strlen
  <2>3. InputTyped' /\ CursorBehindText' /\ NothingBehind'
    BY <2>1, <2>2 DEF InputInv, InputTyped, CursorBehindText, NothingBehind
  <2>4. I!FieldShowsText'
    BY <2>1, <2>2 DEF InputInv, I!FieldShowsText, I!Filled
  <2> QED BY <2>1, <2>3, <2>4 DEF InputInv
<1>2. CASE I!Open
  <2>1. i_status # "open"
    BY <1>2 DEF I!Open
  <2> QED BY <1>2, <2>1, InputOpens
<1>3. CASE I!Resize
  <2>1. instr' = instr
    BY <1>3 DEF I!Resize
  <2> QED BY <1>3, <2>1, InputResizes
<1>4. ASSUME NEW key \in Chars, I!Type(key)
      PROVE  InputInv' /\ (~ shifted => Edit)
  <2>1. ~ shifted => I!Text(instr') = Append(I!Text(instr), key)
    BY <1>0, <1>4, InputTypes, TextAppended
  <2> QED BY <1>4, <2>1, InputTypes
<1>5. CASE I!Backspace
  <2>1. CASE input_x = 0
    BY <1>5, <2>1, InputBringsBack
  <2>2. CASE input_x # 0
    <3>1. ~ shifted => Edit
      BY <1>0, <1>5, <2>2, InputErases, TextShortened
    <3> QED BY <1>5, <2>2, <3>1, InputErases
  <2> QED BY <2>1, <2>2
<1>6. CASE I!OpenTooLong
  <2>1. i_status # "open"
    BY <1>6 DEF I!OpenTooLong
  <2> QED BY <1>6, <2>1, InputOverruns
<1> HIDE DEF Edit
<1> QED BY <1>1, <1>2, <1>3, <1>4, <1>5, <1>6 DEF I!Next

(* No key is read after an overrun.                                        *)
LEMMA OverrunStays == Overrun /\ [I!Next]_input => Overrun'
<1> SUFFICES ASSUME Overrun, [I!Next]_input PROVE Overrun'
  OBVIOUS
<1>1. i_status = "overrun"
  BY DEF Overrun
<1>2. ~ I!Next
  BY <1>1 DEF I!Next, I!Open, I!OpenTooLong, I!Resize, I!Backspace,
     I!PressButtons, I!Close, I!Type
<1> QED BY <1>2 DEF Overrun, I!TypeOK, input

LEMMA InputHoldsStep ==
  InputHolds /\ [I!Next]_input =>
    /\ InputHolds'
    /\ ~ shifted /\ i_status = "open" /\ instr' # instr =>
         \/ \E key \in Chars : I!Text(instr') = Append(I!Text(instr), key)
         \/ /\ I!Text(instr) # << >>
            /\ I!Text(instr') = SubSeq(I!Text(instr), 1, Len(I!Text(instr)) - 1)
<1>1. Overrun => i_status # "open"
  BY DEF Overrun
<1> QED BY <1>1, InputStep, OverrunStays, Zenon DEF InputHolds

LEMMA InputShows == InputInv => I!TypeOK /\ I!InBounds /\ I!FieldShowsText
<1> SUFFICES ASSUME InputInv PROVE I!TypeOK /\ I!InBounds
  BY DEF InputInv
<1>1. I!TypeOK
  BY DEF InputInv, InputTyped, I!TypeOK
<1>2. I!InBounds
  BY InputConstants DEF InputInv, InputTyped, CursorBehindText, I!InBounds
<1> QED BY <1>1, <1>2

-----------------------------------------------------------------------------
(* textbox.c.  A dialog that is open was printed, so it shows some line,   *)
(* and page is where its lines end.  No page of a search result is past    *)
(* the end by more than the line in which the end was found, also not when *)
(* it is shown again, and only search results have keys.                   *)
TextPrinted ==
  t_status = "open" =>
    /\ page > 0 /\ page_length > 0 /\ (begin_reached <=> top = 0)
    /\ text.ended =>
         /\ page = IF top + boxh < text.lines THEN top + boxh ELSE text.lines
         /\ page_length = IF boxh < text.lines - top + 1 THEN boxh
                          ELSE text.lines - top + 1
         /\ end_reached <=> top + boxh > text.lines

ResultFillsPage ==
  text.search /\ text.ended =>
    /\ top = 0 \/ top + boxh <= text.lines + 1
    /\ t_status = "closed" => vscroll = top

OnlyResultsHaveKeys ==
  ~ text.search => targets = {} /\ \A line \in text.jumps : label[line] = 0

TextInv ==
  T!TypeOK /\ TextPrinted /\ ResultFillsPage /\ OnlyResultsHaveKeys /\ T!KeysLead

LEMMA TextConstants ==
  /\ \A t \in Texts : /\ t.lines \in Nat /\ t.lines > 0 /\ t.ended \in BOOLEAN
                      /\ t.jumps \subseteq 0 .. t.lines - 1
  /\ \A h \in Heights : h \in Nat /\ h > 0
  /\ JUMP_NB \in Nat \ {0} /\ MAX_SHIFT \in Nat
<1>1. /\ \A t \in Texts : /\ t.lines \in Nat \ {0} /\ t.ended \in BOOLEAN
                          /\ t.jumps \subseteq 0 .. t.lines - 1
      /\ Heights \subseteq Nat \ {0}
      /\ JUMP_NB \in Nat \ {0} /\ MAX_SHIFT \in Nat
  BY DialogsAssumption DEF T!TextBoxAssumption
<1>2. \A k \in Nat \ {0} : k \in Nat /\ k > 0
  OBVIOUS
<1>3. \A h \in Heights : h \in Nat \ {0}
  BY <1>1, Zenon
<1> QED BY <1>1, <1>2, <1>3, Zenon

(* Where going back and forth in the text leads.                           *)
Places == [page : 0 .. text.lines, begin : BOOLEAN, end : BOOLEAN]

LEMMA PlacesKept ==
  ASSUME text \in Texts, NEW s \in Places, NEW k \in Nat
  PROVE  T!back_lines(s, k) \in Places /\ T!get_lines(s, k) \in Places
<1>0. text.lines \in Nat /\ text.lines > 0
  BY TextConstants
<1>1. /\ s.page \in 0 .. text.lines /\ s.begin \in BOOLEAN /\ s.end \in BOOLEAN
  BY DEF Places
<1>2. T!back_lines(s, k) \in Places
  <2> DEFINE past == s.page = text.lines /\ s.end /\ k > 0
             by == IF past THEN k - 1 ELSE k
             to == IF s.page - by < 0 THEN 0 ELSE s.page - by
             begin == by > 0 /\ s.page <= by
             end == s.end /\ ~ past
  <2>1. T!back_lines(s, k) = [page |-> to, begin |-> begin, end |-> end]
    BY Zenon DEF T!back_lines, T!At, T!Larger
  <2>2. to \in 0 .. text.lines
    BY <1>0, <1>1
  <2>3. begin \in BOOLEAN /\ end \in BOOLEAN
    OBVIOUS
  <2> HIDE DEF to, begin, end
  <2> QED BY <2>1, <2>2, <2>3 DEF Places
<1>3. T!get_lines(s, k) \in Places
  <2> DEFINE to == IF s.page + k < text.lines THEN s.page + k ELSE text.lines
             over == s.page + k >= text.lines + (IF text.ended THEN 1 ELSE 0)
             end == IF k = 0 THEN s.end ELSE over
  <2>1. T!get_lines(s, k) = [page |-> to, begin |-> s.begin, end |-> end]
    BY Zenon DEF T!get_lines, T!At, T!Smaller
  <2>2. to \in 0 .. text.lines
    BY <1>0, <1>1
  <2>3. over \in BOOLEAN
    OBVIOUS
  <2> HIDE DEF over
  <2>4. end \in BOOLEAN
    BY <1>1, <2>3, Zenon
  <2> HIDE DEF to, end
  <2> QED BY <1>1, <2>1, <2>2, <2>4 DEF Places
<1> QED BY <1>2, <1>3

LEMMA GoneBack ==
  ASSUME text \in Texts, NEW s \in Places, NEW k \in Nat,
         NEW r, r = T!back_lines(s, k)
  PROVE  /\ s.page = text.lines /\ s.end /\ k > 0 =>
              /\ r.page = IF s.page > k - 1 THEN s.page - (k - 1) ELSE 0
              /\ ~ r.end
         /\ ~ (s.page = text.lines /\ s.end /\ k > 0) =>
              /\ r.page = IF s.page > k THEN s.page - k ELSE 0
              /\ r.end <=> s.end
         /\ k > 0 => (r.begin <=> r.page = 0)
         /\ k = 0 => ~ r.begin /\ r.page = s.page
<1> DEFINE past == s.page = text.lines /\ s.end /\ k > 0
           by == IF past THEN k - 1 ELSE k
           to == IF s.page - by < 0 THEN 0 ELSE s.page - by
           begin == by > 0 /\ s.page <= by
           end == s.end /\ ~ past
<1>0. /\ text.lines \in Nat /\ text.lines > 0
      /\ s.page \in 0 .. text.lines /\ s.end \in BOOLEAN
  BY TextConstants DEF Places
<1>1. r = [page |-> to, begin |-> begin, end |-> end]
  BY Zenon DEF T!back_lines, T!At, T!Larger
<1>2. /\ past \in BOOLEAN /\ by \in Nat /\ to \in 0 .. text.lines
      /\ past => by = k - 1
      /\ ~ past => by = k
      /\ to = IF s.page > by THEN s.page - by ELSE 0
      /\ k > 0 /\ by = 0 => s.page = text.lines
  BY <1>0
<1> HIDE DEF by, to
<1>3. r.page = to /\ (r.begin <=> begin) /\ (r.end <=> end)
  <2>1. begin \in BOOLEAN /\ end \in BOOLEAN
    OBVIOUS
  <2> HIDE DEF begin, end
  <2>2. r.page = to /\ r.begin = begin /\ r.end = end
    BY <1>1
  <2> QED BY <2>1, <2>2
<1>4. k > 0 => (begin <=> to = 0)
  BY <1>0, <1>2
<1>5. k = 0 => ~ begin /\ to = s.page
  BY <1>0, <1>2
<1> QED BY <1>0, <1>2, <1>3, <1>4, <1>5

LEMMA GoneAhead ==
  ASSUME text \in Texts, NEW s \in Places, NEW k \in Nat,
         NEW r, r = T!get_lines(s, k)
  PROVE  /\ r.begin = s.begin
         /\ r.page = IF s.page + k < text.lines THEN s.page + k ELSE text.lines
         /\ k = 0 => (r.end <=> s.end)
         /\ k > 0 => /\ text.ended => (r.end <=> s.page + k > text.lines)
                     /\ ~ text.ended => (r.end <=> s.page + k >= text.lines)
<1> DEFINE to == IF s.page + k < text.lines THEN s.page + k ELSE text.lines
           over == s.page + k >= text.lines + (IF text.ended THEN 1 ELSE 0)
           end == IF k = 0 THEN s.end ELSE over
<1>0. /\ text.lines \in Nat /\ text.lines > 0 /\ text.ended \in BOOLEAN
      /\ s.page \in 0 .. text.lines /\ s.end \in BOOLEAN
  BY TextConstants DEF Places
<1>1. r = [page |-> to, begin |-> s.begin, end |-> end]
  BY Zenon DEF T!get_lines, T!At, T!Smaller
<1>2. /\ text.ended => (over <=> s.page + k > text.lines)
      /\ ~ text.ended => (over <=> s.page + k >= text.lines)
  BY <1>0
<1>3. r.page = to /\ r.begin = s.begin /\ (r.end <=> end)
  <2>1. end \in BOOLEAN
    <3>1. over \in BOOLEAN
      OBVIOUS
    <3> HIDE DEF over
    <3> QED BY <1>0, <3>1, Zenon
  <2> HIDE DEF end, to
  <2>2. r.page = to /\ r.begin = s.begin /\ r.end = end
    BY <1>1
  <2> QED BY <2>1, <2>2
<1>4. (k = 0 => (end <=> s.end)) /\ (k > 0 => (end <=> over))
  BY <1>0
<1> HIDE DEF over, end
<1> QED BY <1>2, <1>3, <1>4

(* A page of a text that was printed from a place on, or the page of a     *)
(* search result that was read ahead from there and back.                  *)
LEMMA PagePrinted ==
  ASSUME text \in Texts, NEW s \in Places, NEW h \in Nat \ {0}, NEW keys,
         T!print_page(s, h, keys)
  PROVE  /\ top' \in 0 .. text.lines /\ page' \in 0 .. text.lines /\ page' > 0
         /\ page_length' \in 0 .. h /\ page_length' > 0
         /\ begin_reached' \in BOOLEAN /\ end_reached' \in BOOLEAN
         /\ page' = IF top' + h < text.lines THEN top' + h ELSE text.lines
         /\ text.ended =>
              /\ page_length' = IF h < text.lines - top' + 1 THEN h
                                ELSE text.lines - top' + 1
              /\ end_reached' <=> top' + h > text.lines
         /\ ~ text.search =>
              /\ top' = s.page /\ begin_reached' = s.begin
              /\ UNCHANGED <<label, targets>>
         /\ text.search =>
              /\ begin_reached' <=> top' = 0
              /\ text.ended =>
                   /\ s.page + h <= text.lines => top' = s.page
                   /\ s.page + h > text.lines =>
                        top' = IF text.lines > h - 1 THEN text.lines - (h - 1) ELSE 0
              /\ \E until \in 0 .. text.lines :
                   /\ T!update_text(top', until, keys)
                   /\ until = top' + h \/ (until = text.lines /\ top' + h > text.lines)
<1> DEFINE ahead == T!get_lines(s, h)
           start == IF text.search THEN T!back_lines(ahead, h) ELSE s
           end == T!get_lines(start, h)
<1>0. /\ text.lines \in Nat /\ text.lines > 0 /\ text.ended \in BOOLEAN
      /\ h \in Nat /\ h > 0
  BY TextConstants
<1>1. /\ page_length' = T!Length(start.page, h)
      /\ page' = end.page /\ begin_reached' = end.begin
      /\ end_reached' = end.end /\ top' = start.page
      /\ IF text.search THEN T!update_text(start.page, ahead.page, keys)
                        ELSE UNCHANGED <<label, targets>>
  BY Zenon DEF T!print_page, T!search
<1>2. ahead \in Places
  BY <1>0, PlacesKept
<1>3. start \in Places
  BY <1>0, <1>2, PlacesKept
<1>4. end \in Places
  BY <1>0, <1>3, PlacesKept
<1>5. /\ ahead.page = IF s.page + h < text.lines THEN s.page + h ELSE text.lines
      /\ text.ended => (ahead.end <=> s.page + h > text.lines)
      /\ ~ text.ended => (ahead.end <=> s.page + h >= text.lines)
  BY <1>0, GoneAhead
<1> HIDE DEF ahead
<1>6. ASSUME text.search
      PROVE  /\ start.begin <=> start.page = 0
             /\ ahead.page = text.lines /\ ahead.end =>
                  start.page = IF text.lines > h - 1 THEN text.lines - (h - 1) ELSE 0
             /\ ~ (ahead.page = text.lines /\ ahead.end) =>
                  start.page = IF ahead.page > h THEN ahead.page - h ELSE 0
  <2>1. start = T!back_lines(ahead, h)
    BY <1>6
  <2> HIDE DEF start
  <2> QED BY <1>0, <1>2, <2>1, GoneBack
<1>7. ~ text.search => start = s
  OBVIOUS
<1> HIDE DEF start
<1>8. /\ end.begin = start.begin
      /\ end.page = IF start.page + h < text.lines THEN start.page + h ELSE text.lines
      /\ text.ended => (end.end <=> start.page + h > text.lines)
  BY <1>0, <1>3, GoneAhead
<1> HIDE DEF end
<1>9. /\ start.page \in 0 .. text.lines /\ start.begin \in BOOLEAN
      /\ end.page \in 0 .. text.lines /\ end.end \in BOOLEAN
      /\ ahead.page \in 0 .. text.lines /\ ahead.end \in BOOLEAN
      /\ s.page \in 0 .. text.lines
  BY <1>2, <1>3, <1>4 DEF Places
<1>10. /\ page_length' \in 0 .. h /\ page_length' > 0
       /\ text.ended =>
            page_length' = IF h < text.lines - top' + 1 THEN h
                           ELSE text.lines - top' + 1
  BY <1>0, <1>1, <1>9 DEF T!Length, T!Smaller, T!Larger
<1>11. ASSUME text.search
       PROVE  /\ begin_reached' <=> top' = 0
              /\ text.ended =>
                   /\ s.page + h <= text.lines => top' = s.page
                   /\ s.page + h > text.lines =>
                        top' = IF text.lines > h - 1 THEN text.lines - (h - 1) ELSE 0
              /\ T!update_text(top', ahead.page, keys)
              /\ ahead.page = top' + h \/ (ahead.page = text.lines /\ top' + h > text.lines)
  <2>1. (begin_reached' <=> top' = 0) /\ T!update_text(top', ahead.page, keys)
    BY <1>1, <1>6, <1>8, <1>11, Zenon
  <2>2. top' \in 0 .. text.lines /\ top' = start.page
    BY <1>1, <1>9
  <2>3. CASE ahead.page = text.lines /\ ahead.end
    <3>1. top' = IF text.lines > h - 1 THEN text.lines - (h - 1) ELSE 0
      BY <1>6, <1>11, <2>2, <2>3
    <3> QED BY <1>0, <1>5, <1>9, <2>1, <2>3, <3>1
  <2>4. CASE ~ (ahead.page = text.lines /\ ahead.end)
    <3>1. top' = IF ahead.page > h THEN ahead.page - h ELSE 0
      BY <1>6, <1>11, <2>2, <2>4
    <3>2. ahead.page = s.page + h /\ s.page + h <= text.lines
      BY <1>0, <1>5, <1>9, <2>4
    <3> QED BY <1>0, <1>9, <2>1, <3>1, <3>2
  <2> QED BY <2>3, <2>4
<1>12. /\ top' \in 0 .. text.lines /\ page' \in 0 .. text.lines
       /\ end_reached' \in BOOLEAN
       /\ page' = IF top' + h < text.lines THEN top' + h ELSE text.lines
       /\ text.ended => (end_reached' <=> top' + h > text.lines)
  BY <1>1, <1>8, <1>9, Zenon
<1>13. page' > 0
  <2>1. /\ top' \in 0 .. text.lines
        /\ page' = IF top' + h < text.lines THEN top' + h ELSE text.lines
    BY <1>12
  <2>2. /\ text.lines \in Nat /\ text.lines > 0 /\ h \in Nat /\ h > 0
    BY <1>0
  <2>3. CASE top' + h < text.lines
    <3>1. page' = top' + h /\ top' \in Nat
      BY <2>1, <2>2, <2>3
    <3>2. \A a, b \in Nat : b > 0 => a + b > 0
      OBVIOUS
    <3> QED BY <2>2, <3>1, <3>2, Zenon
  <2>4. CASE ~ (top' + h < text.lines)
    BY <2>1, <2>2, <2>4
  <2> QED BY <2>3, <2>4
<1>14. /\ begin_reached' \in BOOLEAN
       /\ ~ text.search =>
            /\ top' = s.page /\ begin_reached' = s.begin
            /\ UNCHANGED <<label, targets>>
  BY <1>1, <1>7, <1>8, <1>9, Zenon
<1>15. text.search =>
         \E until \in 0 .. text.lines :
           /\ T!update_text(top', until, keys)
           /\ until = top' + h \/ (until = text.lines /\ top' + h > text.lines)
  BY <1>9, <1>11, Zenon
<1> QED BY <1>10, <1>11, <1>12, <1>13, <1>14, <1>15, Zenon

(* Numbers closer than B are different modulo B.                           *)
LEMMA ModsDiffer ==
  ASSUME NEW B \in Nat \ {0}, NEW x \in Nat, NEW y \in Nat, x < y, y - x < B
  PROVE  x % B # y % B
<1> DEFINE p == x \div B
           q == y \div B
           d == x % B
           e == y % B
<1>1. /\ p \in Nat /\ d \in 0 .. B - 1 /\ x = B * p + d
      /\ q \in Nat /\ e \in 0 .. B - 1 /\ y = B * q + e
  BY DivMod
<1>2. p < q => B * p + B <= B * q
  BY <1>1, MulStep
<1>3. q < p => B * q + B <= B * p
  BY <1>1, MulStep
<1>4. B * p \in Nat /\ B * q \in Nat
  BY <1>1
<1> DEFINE bp == B * p
           bq == B * q
<1> HIDE DEF p, q, d, e, bp, bq
<1>5. /\ d \in 0 .. B - 1 /\ x = bp + d /\ e \in 0 .. B - 1 /\ y = bq + e
      /\ p \in Nat /\ q \in Nat /\ bp \in Nat /\ bq \in Nat
      /\ p < q => bp + B <= bq
      /\ q < p => bq + B <= bp
      /\ p = q => bp = bq
  BY <1>1, <1>2, <1>3, <1>4 DEF bp, bq
<1>6. d # e
  BY <1>5
<1> QED BY <1>6 DEF d, e

LEMMA TextCardinality ==
  ASSUME NEW S
  PROVE  T!Cardinality(S) = Cardinality(S)
BY Zenon DEF T!Cardinality, Cardinality, T!IsFiniteSet, IsFiniteSet

(* Lines to jump to are numbered in their order, and those of a part of    *)
(* the text without a gap.                                                 *)
LEMMA JumpsNumbered ==
  ASSUME text \in Texts, NEW a \in text.jumps, NEW b \in text.jumps, a < b,
         NEW J, \A line \in text.jumps : line >= a /\ line < b => line \in J,
         J \subseteq text.jumps
  PROVE  /\ T!Index(a) \in Nat /\ T!Index(b) \in Nat /\ T!Index(a) < T!Index(b)
         /\ T!Index(b) - T!Index(a) <= T!Cardinality({other \in J : other < b})
<1> DEFINE A == {other \in text.jumps : other < a}
           B == {other \in text.jumps : other < b}
           C == {other \in J : other < b}
           D == {other \in text.jumps : other >= a /\ other < b}
<1>1. IsFiniteSet(text.jumps) /\ text.jumps \subseteq Nat
  <2>1. text.jumps \subseteq 0 .. text.lines - 1 /\ text.lines \in Nat
    BY TextConstants
  <2>2. IsFiniteSet(0 .. text.lines - 1)
    BY <2>1, FS_Interval
  <2> QED BY <2>1, <2>2, FS_Subset
<1>2. /\ A \subseteq text.jumps /\ B \subseteq text.jumps /\ C \subseteq text.jumps
      /\ D \subseteq C /\ a \in D
      /\ B = A \cup D /\ A \cap D = {}
  <2>1. \A line \in text.jumps : line \in Nat
    BY <1>1
  <2>2. B = A \cup D
    <3>1. \A line \in text.jumps : line < b <=> line < a \/ (line >= a /\ line < b)
      BY <2>1
    <3> QED BY <3>1
  <2>3. A \cap D = {}
    <3>1. \A line \in text.jumps : ~ (line < a /\ line >= a)
      BY <2>1
    <3> QED BY <3>1
  <2>4. a \in D
    BY <2>1
  <2> QED BY <2>2, <2>3, <2>4
<1>3. T!Index(a) = Cardinality(A) /\ T!Index(b) = Cardinality(B)
  BY TextCardinality, Zenon DEF T!Index
<1>4. T!Cardinality(C) = Cardinality(C)
  BY TextCardinality, Zenon
<1> HIDE DEF A, B, C, D
<1>5. IsFiniteSet(A) /\ IsFiniteSet(B) /\ IsFiniteSet(C)
  BY <1>1, <1>2, FS_Subset
<1>6. IsFiniteSet(D) /\ Cardinality(D) <= Cardinality(C)
  BY <1>2, <1>5, FS_Subset
<1>7. /\ Cardinality(A) \in Nat /\ Cardinality(B) \in Nat
      /\ Cardinality(C) \in Nat /\ Cardinality(D) \in Nat
  BY <1>5, <1>6, FS_CardinalityType
<1>8. Cardinality(B) = Cardinality(A) + Cardinality(D)
  <2>1. Cardinality(A \cup D)
          = Cardinality(A) + Cardinality(D) - Cardinality(A \cap D)
    BY <1>5, <1>6, FS_Union
  <2>2. Cardinality(A \cap D) = 0
    BY <1>2, FS_EmptySet, Zenon
  <2>3. Cardinality(B) = Cardinality(A) + Cardinality(D) - 0
    BY <1>2, <2>1, <2>2, Zenon
  <2> QED BY <1>7, <2>3
<1>9. Cardinality(D) # 0
  BY <1>2, <1>6, FS_EmptySet
<1>10. /\ Cardinality(A) < Cardinality(B)
       /\ Cardinality(B) - Cardinality(A) <= Cardinality(C)
  BY <1>6, <1>7, <1>8, <1>9
<1> QED BY <1>3, <1>4, <1>7, <1>10, Zenon DEF C

LEMMA KeyFacts ==
  ASSUME text \in Texts, NEW line \in text.jumps
  PROVE  /\ T!Index(line) \in Nat
         /\ T!Key(line) = (T!Index(line) % JUMP_NB) + 1
         /\ T!Key(line) \in 1 .. JUMP_NB
<1>1. T!Index(line) \in Nat
  <2> DEFINE A == {other \in text.jumps : other < line}
  <2>1. text.jumps \subseteq 0 .. text.lines - 1 /\ text.lines \in Nat
    BY TextConstants
  <2>2. IsFiniteSet(0 .. text.lines - 1)
    BY <2>1, FS_Interval
  <2>3. A \subseteq 0 .. text.lines - 1
    BY <2>1
  <2>4. T!Index(line) = Cardinality(A)
    BY TextCardinality, Zenon DEF T!Index
  <2> HIDE DEF A
  <2>5. Cardinality(A) \in Nat
    BY <2>2, <2>3, FS_Subset, FS_CardinalityType
  <2> QED BY <2>4, <2>5, Zenon
<1>2. JUMP_NB \in Nat \ {0}
  BY TextConstants
<1>3. T!Index(line) % JUMP_NB \in 0 .. JUMP_NB - 1
  BY <1>1, <1>2, DivMod
<1> DEFINE m == T!Index(line) % JUMP_NB
<1>4. T!Key(line) = m + 1
  BY DEF T!Key
<1> HIDE DEF m
<1>5. m + 1 \in 1 .. JUMP_NB
  BY <1>2, <1>3 DEF m
<1> QED BY <1>1, <1>4, <1>5 DEF m

(* The keys of a page: as many as there are, each for a line of its own.   *)
LEMMA KeysPrinted ==
  ASSUME text \in Texts, NEW first \in 0 .. text.lines,
         NEW until \in 0 .. text.lines, NEW h \in Nat,
         until = first + h \/ (until = text.lines /\ first + h > text.lines),
         NEW keys \in [text.jumps -> 0 .. JUMP_NB],
         T!update_text(first, until, keys)
  PROVE  /\ label' \in [text.jumps -> 0 .. JUMP_NB] /\ targets' \subseteq text.jumps
         /\ targets' = {line \in {other \in text.jumps :
                                    other >= first /\ other < first + h} :
                          label'[line] # 0}
         /\ \A line, other \in targets' :
              label'[line] = label'[other] => line = other
<1> DEFINE J == T!Jumps(first, until)
<1>0. /\ text.jumps \subseteq 0 .. text.lines - 1 /\ text.lines \in Nat
      /\ JUMP_NB \in Nat \ {0}
  BY TextConstants
<1>1. J = {line \in text.jumps : line >= first /\ line < first + h}
  <2>1. J = {line \in text.jumps : line >= first /\ line < until}
    BY DEF T!Jumps
  <2>2. \A line \in text.jumps : line < until <=> line < first + h
    BY <1>0
  <2> QED BY <2>1, <2>2
<1>2. /\ targets' = {line \in J : T!Cardinality({other \in J : other < line}) < JUMP_NB}
      /\ label' = [line \in text.jumps |->
                     IF line \in targets' THEN T!Key(line)
                     ELSE IF line \in J THEN 0 ELSE keys[line]]
  BY DEF T!update_text, T!Keyed
<1>3. J \subseteq text.jumps
  BY <1>1
<1>4. targets' \subseteq J
  BY <1>2
<1>5. ASSUME NEW line \in targets'
      PROVE  label'[line] = T!Key(line) /\ T!Key(line) \in 1 .. JUMP_NB
  BY <1>2, <1>3, <1>4, <1>5, KeyFacts
<1>6. label' \in [text.jumps -> 0 .. JUMP_NB]
  <2>1. ASSUME NEW line \in text.jumps PROVE label'[line] \in 0 .. JUMP_NB
    <3>1. CASE line \in targets'
      BY <1>0, <1>5, <3>1
    <3>2. CASE line \notin targets'
      <4>1. label'[line] = IF line \in J THEN 0 ELSE keys[line]
        BY <1>2, <3>2
      <4> QED BY <1>0, <4>1
    <3> QED BY <3>1, <3>2
  <2> QED BY <1>2, <2>1
<1>7. targets' = {line \in J : label'[line] # 0}
  <2>1. ASSUME NEW line \in J PROVE line \in targets' <=> label'[line] # 0
    <3>1. CASE line \in targets'
      BY <1>0, <1>5, <3>1
    <3>2. CASE line \notin targets'
      BY <1>2, <1>3, <3>2
    <3> QED BY <3>1, <3>2
  <2> QED BY <1>4, <2>1
<1>8. ASSUME NEW line \in targets', NEW other \in targets', line < other
      PROVE  label'[line] # label'[other]
  <2>1. /\ line \in text.jumps /\ other \in text.jumps /\ other \in J /\ line \in J
        /\ T!Cardinality({o \in J : o < other}) < JUMP_NB
    BY <1>2, <1>3
  <2>2. \A l \in text.jumps : l >= line /\ l < other => l \in J
    <3>1. /\ line >= first /\ other < first + h /\ line \in Nat /\ other \in Nat
          /\ \A l \in text.jumps : l \in Nat
      BY <1>0, <1>1, <2>1
    <3>2. \A l \in text.jumps : l >= line /\ l < other => l >= first /\ l < first + h
      BY <3>1
    <3> QED BY <1>1, <3>2
  <2> HIDE DEF J
  <2> DEFINE C == T!Cardinality({o \in J : o < other})
             x == T!Index(line)
             y == T!Index(other)
  <2>3. x \in Nat /\ y \in Nat /\ x < y /\ y - x <= C
    BY <1>3, <1>8, <2>1, <2>2, JumpsNumbered
  <2>4. C < JUMP_NB
    BY <2>1
  <2>5. C \in Int
    <3>1. C = Cardinality({o \in J : o < other})
      BY TextCardinality, Zenon
    <3>2. IsFiniteSet({o \in J : o < other})
      <4>0. 0 \in Int /\ text.lines - 1 \in Int
        BY <1>0
      <4>1. IsFiniteSet(0 .. text.lines - 1)
        BY <4>0, FS_Interval
      <4>2. {o \in J : o < other} \subseteq 0 .. text.lines - 1
        BY <1>0, <1>3
      <4> QED BY <4>1, <4>2, FS_Subset
    <3>3. Cardinality({o \in J : o < other}) \in Nat
      BY <3>2, FS_CardinalityType
    <3> QED BY <3>1, <3>3
  <2> HIDE DEF C, x, y
  <2>6. y - x < JUMP_NB
    BY <1>0, <2>3, <2>4, <2>5
  <2>7. x % JUMP_NB # y % JUMP_NB
    BY <1>0, <2>3, <2>6, ModsDiffer
  <2>8. x % JUMP_NB \in Int /\ y % JUMP_NB \in Int
    BY <1>0, <2>3, DivMod
  <2>9. label'[line] = (x % JUMP_NB) + 1 /\ label'[other] = (y % JUMP_NB) + 1
    BY <1>5, <2>1, KeyFacts DEF x, y
  <2> DEFINE d == x % JUMP_NB
             e == y % JUMP_NB
  <2> HIDE DEF d, e
  <2>10. d + 1 # e + 1
    BY <2>7, <2>8 DEF d, e
  <2> QED BY <2>9, <2>10 DEF d, e
<1>9. ASSUME NEW line \in targets', NEW other \in targets', label'[line] = label'[other]
      PROVE  line = other
  <2>1. line \in Nat /\ other \in Nat
    BY <1>0, <1>3, <1>4
  <2>2. ~ (line < other) /\ ~ (other < line)
    BY <1>8, <1>9
  <2> QED BY <2>1, <2>2
<1> QED BY <1>1, <1>3, <1>4, <1>6, <1>7, <1>9

(* A text that is shown from a place on is as it should be, and shown from *)
(* there, if not too near to the end.                                      *)
LEMMA TextShown ==
  ASSUME TextInv, NEW s \in Places, s.begin <=> s.page = 0, NEW h \in Heights,
         NEW keys \in [text.jumps -> 0 .. JUMP_NB], T!print_page(s, h, keys),
         boxh' = h, t_status' = "open", hscroll' \in 0 .. MAX_SHIFT,
         UNCHANGED <<text, vscroll>>
  PROVE  /\ TextInv'
         /\ ~ text.search => top' = s.page
         /\ text.search /\ text.ended =>
              /\ s.page = 0 \/ s.page + h <= text.lines + 1 => top' = s.page
              /\ s.page + h > text.lines =>
                   top' = IF text.lines > h - 1 THEN text.lines - (h - 1) ELSE 0
<1>0. /\ text \in Texts /\ text.lines \in Nat /\ text.lines > 0
      /\ h \in Nat /\ h > 0 /\ h \in Nat \ {0} /\ s.page \in 0 .. text.lines
  BY TextConstants DEF TextInv, T!TypeOK, Places
<1>1. /\ top' \in 0 .. text.lines /\ page' \in 0 .. text.lines /\ page' > 0
      /\ page_length' \in 0 .. h /\ page_length' > 0
      /\ begin_reached' \in BOOLEAN /\ end_reached' \in BOOLEAN
  BY <1>0, PagePrinted
<1>2. /\ page' = IF top' + h < text.lines THEN top' + h ELSE text.lines
      /\ text.ended =>
           /\ page_length' = IF h < text.lines - top' + 1 THEN h
                             ELSE text.lines - top' + 1
           /\ end_reached' <=> top' + h > text.lines
  BY <1>0, PagePrinted
<1>3. ~ text.search =>
        /\ top' = s.page /\ begin_reached' = s.begin
        /\ UNCHANGED <<label, targets>>
  BY <1>0, PagePrinted
<1>4. text.search =>
        /\ begin_reached' <=> top' = 0
        /\ text.ended =>
             /\ s.page + h <= text.lines => top' = s.page
             /\ s.page + h > text.lines =>
                  top' = IF text.lines > h - 1 THEN text.lines - (h - 1) ELSE 0
  BY <1>0, PagePrinted
<1>5. ASSUME text.search, text.ended
      PROVE  /\ s.page = 0 \/ s.page + h <= text.lines + 1 => top' = s.page
             /\ top' = 0 \/ top' + h <= text.lines + 1
  <2>1. CASE s.page + h <= text.lines
    BY <1>0, <1>4, <1>5, <2>1
  <2>2. CASE ~ (s.page + h <= text.lines)
    <3>1. top' = IF text.lines > h - 1 THEN text.lines - (h - 1) ELSE 0
      BY <1>0, <1>4, <1>5, <2>2
    <3> QED BY <1>0, <2>2, <3>1
  <2> QED BY <2>1, <2>2
<1>6. begin_reached' <=> top' = 0
  BY <1>3, <1>4, Zenon
<1>7. /\ label' \in [text.jumps -> 0 .. JUMP_NB] /\ targets' \subseteq text.jumps
      /\ targets' = {line \in {other \in text.jumps :
                                 other >= top' /\ other < top' + h} :
                       label'[line] # 0}
      /\ \A line, other \in targets' :
           label'[line] = label'[other] => line = other
      /\ ~ text.search => targets' = {} /\ \A line \in text.jumps : label'[line] = 0
  <2>1. CASE text.search
    <3>1. PICK until \in 0 .. text.lines :
            /\ T!update_text(top', until, keys)
            /\ until = top' + h \/ (until = text.lines /\ top' + h > text.lines)
      BY <1>0, <2>1, PagePrinted
    <3> QED BY <1>0, <1>1, <2>1, <3>1, KeysPrinted
  <2>2. CASE ~ text.search
    <3>1. /\ UNCHANGED <<label, targets>> /\ targets = {}
          /\ \A line \in text.jumps : label[line] = 0
          /\ label \in [text.jumps -> 0 .. JUMP_NB]
      BY <1>3, <2>2 DEF TextInv, OnlyResultsHaveKeys, T!TypeOK
    <3>2. \A line \in text.jumps : label'[line] = 0
      BY <3>1
    <3> QED BY <3>1, <3>2
  <2> QED BY <2>1, <2>2
<1>8. T!TypeOK'
  <2>1. vscroll \in 0 .. text.lines
    BY DEF TextInv, T!TypeOK
  <2> QED BY <1>0, <1>1, <1>7, <2>1 DEF T!TypeOK
<1>9. TextPrinted'
  BY <1>1, <1>2, <1>6, Zenon DEF TextPrinted
<1>10. ResultFillsPage'
  BY <1>5 DEF ResultFillsPage
<1>11. OnlyResultsHaveKeys' /\ T!KeysLead'
  BY <1>7, Zenon DEF OnlyResultsHaveKeys, T!KeysLead
<1> QED BY <1>3, <1>4, <1>5, <1>8, <1>9, <1>10, <1>11 DEF TextInv

(* From the end of a page one goes back to its beginning, or as many lines *)
(* before or after that as one goes back more or less.                     *)
LEMMA TextGoesBack ==
  ASSUME TextInv, t_status = "open", NEW k \in Nat,
         NEW r, r = T!back_lines(T!Here, k)
  PROVE  /\ r \in Places /\ (r.begin <=> r.page = 0)
         /\ text.ended /\ (k > 0 \/ ~ end_reached) =>
              r.page = IF top + page_length > k THEN top + page_length - k ELSE 0
<1> DEFINE s == T!Here
<1>0. /\ text \in Texts /\ text.lines \in Nat /\ text.lines > 0
      /\ boxh \in Nat /\ boxh > 0
  BY TextConstants DEF TextInv, T!TypeOK
<1>1. /\ s \in Places /\ s.page = page /\ s.end = end_reached
      /\ page \in 0 .. text.lines /\ top \in 0 .. text.lines
      /\ end_reached \in BOOLEAN
  BY DEF T!Here, T!At, Places, TextInv, T!TypeOK
<1>2. /\ page > 0
      /\ text.ended =>
           /\ page = IF top + boxh < text.lines THEN top + boxh ELSE text.lines
           /\ page_length = IF boxh < text.lines - top + 1 THEN boxh
                            ELSE text.lines - top + 1
           /\ end_reached <=> top + boxh > text.lines
  BY DEF TextInv, TextPrinted
<1> HIDE DEF s
<1>3. r = T!back_lines(s, k)
  BY DEF s
<1>4. r \in Places
  BY <1>0, <1>1, <1>3, PlacesKept
<1>5. (k > 0 => (r.begin <=> r.page = 0)) /\ (k = 0 => ~ r.begin /\ r.page = page)
  BY <1>0, <1>1, <1>3, GoneBack
<1>6. /\ page = text.lines /\ end_reached /\ k > 0 =>
           r.page = IF page > k - 1 THEN page - (k - 1) ELSE 0
      /\ ~ (page = text.lines /\ end_reached /\ k > 0) =>
           r.page = IF page > k THEN page - k ELSE 0
  BY <1>0, <1>1, <1>3, GoneBack
<1>7. r.begin <=> r.page = 0
  <2>1. CASE k > 0
    BY <1>5, <2>1
  <2>2. CASE k = 0
    BY <1>0, <1>1, <1>2, <1>5, <2>2
  <2> QED BY <2>1, <2>2
<1>8. ASSUME text.ended, k > 0 \/ ~ end_reached
      PROVE  r.page = IF top + page_length > k THEN top + page_length - k ELSE 0
  <2>1. CASE end_reached
    <3>1. page = text.lines /\ page_length = text.lines - top + 1 /\ k > 0
      BY <1>0, <1>1, <1>2, <1>8, <2>1
    <3>2. r.page = IF page > k - 1 THEN page - (k - 1) ELSE 0
      BY <1>6, <2>1, <3>1
    <3> QED BY <1>0, <1>1, <3>1, <3>2
  <2>2. CASE ~ end_reached
    <3>1. page = top + boxh /\ page_length = boxh
      BY <1>0, <1>1, <1>2, <1>8, <2>2
    <3>2. r.page = IF page > k THEN page - k ELSE 0
      BY <1>6, <2>2
    <3> QED BY <1>0, <1>1, <3>1, <3>2
  <2> QED BY <2>1, <2>2
<1> QED BY <1>4, <1>7, <1>8

LEMMA TextShownAgain ==
  ASSUME TextInv, NEW s \in Places, s.begin <=> s.page = 0, T!Shown(s),
         hscroll' \in 0 .. MAX_SHIFT
  PROVE  /\ TextInv'
         /\ text.ended /\ (s.page = 0 \/ s.page + boxh <= text.lines + 1) =>
              top' = s.page
         /\ ~ text.search => top' = s.page
         /\ text.search /\ text.ended =>
              /\ s.page = 0 \/ s.page + boxh <= text.lines + 1 => top' = s.page
              /\ s.page + boxh > text.lines =>
                   top' = IF text.lines > boxh - 1 THEN text.lines - (boxh - 1) ELSE 0
<1>1. /\ t_status = "open" /\ T!print_page(s, boxh, label)
      /\ UNCHANGED <<t_status, text, boxh, vscroll>>
  BY DEF T!Shown
<1>2. boxh \in Heights /\ label \in [text.jumps -> 0 .. JUMP_NB]
  BY DEF TextInv, T!TypeOK
<1>3. boxh' = boxh /\ t_status' = "open" /\ UNCHANGED <<text, vscroll>>
  BY <1>1
<1>4. /\ TextInv'
      /\ ~ text.search => top' = s.page
      /\ text.search /\ text.ended =>
           /\ s.page = 0 \/ s.page + boxh <= text.lines + 1 => top' = s.page
           /\ s.page + boxh > text.lines =>
                top' = IF text.lines > boxh - 1 THEN text.lines - (boxh - 1) ELSE 0
  BY <1>1, <1>2, <1>3, TextShown
<1> QED BY <1>4, Zenon

LEMMA TextFacts ==
  ASSUME TextInv
  PROVE  /\ text \in Texts /\ text.lines \in Nat /\ text.lines > 0
         /\ boxh \in Nat /\ boxh > 0 /\ boxh \in Heights
         /\ page \in 0 .. text.lines /\ top \in 0 .. text.lines
         /\ page_length \in Nat /\ hscroll \in 0 .. MAX_SHIFT
         /\ vscroll \in 0 .. text.lines
         /\ begin_reached \in BOOLEAN /\ end_reached \in BOOLEAN
         /\ t_status = "open" =>
              /\ page > 0 /\ page_length > 0 /\ (begin_reached <=> top = 0)
              /\ text.ended =>
                   /\ page = IF top + boxh < text.lines THEN top + boxh
                             ELSE text.lines
                   /\ page_length = IF boxh < text.lines - top + 1 THEN boxh
                                    ELSE text.lines - top + 1
                   /\ end_reached <=> top + boxh > text.lines
         /\ text.search /\ text.ended => top = 0 \/ top + boxh <= text.lines + 1
<1>1. page_length \in Nat
  BY TextConstants DEF TextInv, T!TypeOK
<1> QED BY <1>1, TextConstants DEF TextInv, T!TypeOK, TextPrinted, ResultFillsPage

LEMMA TextGoesHome == TextInv /\ T!Home => TextInv'
<1> SUFFICES ASSUME TextInv, T!Home PROVE TextInv'
  OBVIOUS
<1>1. T!Shown(T!At(0, TRUE, end_reached)) /\ hscroll' = hscroll
  BY DEF T!Home
<1> DEFINE s == T!At(0, TRUE, end_reached)
<1>2. s \in Places /\ s.page = 0 /\ s.begin = TRUE
  BY TextFacts DEF T!At, Places
<1> HIDE DEF s
<1>3. s.begin <=> s.page = 0
  BY <1>2
<1> QED BY <1>1, <1>2, <1>3, TextFacts, TextShownAgain DEF s

LEMMA TextGoesToEnd == TextInv /\ T!End => TextInv'
<1> SUFFICES ASSUME TextInv, T!End PROVE TextInv'
  OBVIOUS
<1> DEFINE e == T!At(text.lines, begin_reached, TRUE)
           s == T!back_lines(e, boxh)
<1>1. T!Shown(s) /\ hscroll' = hscroll
  BY DEF T!End
<1>2. e \in Places
  BY TextFacts DEF T!At, Places
<1> HIDE DEF e
<1>3. s \in Places /\ (s.begin <=> s.page = 0)
  BY <1>2, TextFacts, PlacesKept, GoneBack
<1> HIDE DEF s
<1> QED BY <1>1, <1>3, TextFacts, TextShownAgain

LEMMA TextGoesUp ==
  ASSUME TextInv, T!Up
  PROVE  TextInv' /\ (text.ended => top' = top - 1)
<1> DEFINE k == page_length + 1
           s == T!back_lines(T!Here, k)
<1>1. T!Shown(s) /\ hscroll' = hscroll /\ ~ begin_reached /\ t_status = "open"
  BY DEF T!Up, T!Shown
<1>2. k \in Nat /\ k > 0
  BY TextFacts
<1>3. /\ s \in Places /\ (s.begin <=> s.page = 0)
      /\ text.ended =>
           s.page = IF top + page_length > k THEN top + page_length - k ELSE 0
  <2> HIDE DEF k
  <2> QED BY <1>1, <1>2, TextGoesBack
<1>4. ASSUME text.ended
      PROVE  s.page = top - 1 /\ (text.search => s.page + boxh <= text.lines + 1)
  <2>1. top > 0
    BY <1>1, TextFacts
  <2> HIDE DEF s
  <2>2. s.page = top - 1
    BY <1>3, <1>4, <2>1, TextFacts
  <2> QED BY <1>4, <2>1, <2>2, TextFacts
<1> HIDE DEF s
<1>5. TextInv'
  BY <1>1, <1>3, TextFacts, TextShownAgain
<1>6. text.ended => top' = s.page
  BY <1>1, <1>3, <1>4, TextFacts, TextShownAgain
<1> QED BY <1>4, <1>5, <1>6

LEMMA TextGoesDown ==
  ASSUME TextInv, T!Down
  PROVE  TextInv' /\ (text.ended => top' = top + 1)
<1> DEFINE k == page_length - 1
           s == T!back_lines(T!Here, k)
<1>1. T!Shown(s) /\ hscroll' = hscroll /\ ~ end_reached /\ t_status = "open"
  BY DEF T!Down, T!Shown
<1>2. k \in Nat
  BY <1>1, TextFacts
<1>3. /\ s \in Places /\ (s.begin <=> s.page = 0)
      /\ text.ended =>
           s.page = IF top + page_length > k THEN top + page_length - k ELSE 0
  <2> HIDE DEF k
  <2> QED BY <1>1, <1>2, TextGoesBack
<1>4. ASSUME text.ended
      PROVE  s.page = top + 1 /\ s.page + boxh <= text.lines + 1
  <2> HIDE DEF s
  <2>1. top + boxh <= text.lines
    BY <1>1, <1>4, TextFacts
  <2>2. s.page = top + 1
    BY <1>3, <1>4, TextFacts
  <2> QED BY <2>1, <2>2, TextFacts
<1> HIDE DEF s
<1>5. TextInv'
  BY <1>1, <1>3, TextFacts, TextShownAgain
<1>6. text.ended => top' = s.page
  BY <1>1, <1>3, <1>4, TextFacts, TextShownAgain
<1> QED BY <1>4, <1>5, <1>6

LEMMA TextGoesPageUp ==
  ASSUME TextInv, T!PageUp
  PROVE  TextInv' /\ (text.ended => top' = T!Larger(top - boxh, 0))
<1> DEFINE k == page_length + boxh
           s == T!back_lines(T!Here, k)
<1>1. T!Shown(s) /\ hscroll' = hscroll /\ t_status = "open"
  BY DEF T!PageUp, T!Shown
<1>2. k \in Nat /\ k > 0
  BY TextFacts
<1>3. /\ s \in Places /\ (s.begin <=> s.page = 0)
      /\ text.ended =>
           s.page = IF top + page_length > k THEN top + page_length - k ELSE 0
  <2> HIDE DEF k
  <2> QED BY <1>1, <1>2, TextGoesBack
<1>4. ASSUME text.ended
      PROVE  /\ s.page = IF top - boxh < 0 THEN 0 ELSE top - boxh
             /\ s.page = 0 \/ s.page + boxh <= text.lines + 1
  <2> HIDE DEF s
  <2>1. s.page = IF top - boxh < 0 THEN 0 ELSE top - boxh
    BY <1>3, <1>4, TextFacts
  <2> QED BY <2>1, TextFacts
<1> HIDE DEF s
<1>5. TextInv'
  BY <1>1, <1>3, TextFacts, TextShownAgain
<1>6. text.ended => top' = s.page
  BY <1>1, <1>3, <1>4, TextFacts, TextShownAgain
<1> QED BY <1>4, <1>5, <1>6 DEF T!Larger

LEMMA TextGoesPageDown ==
  ASSUME TextInv, T!PageDown
  PROVE  TextInv' /\ (text.ended => top' \in top + 1 .. top + boxh)
<1> DEFINE s == T!At(page, FALSE, FALSE)
<1>1. T!Shown(s) /\ hscroll' = hscroll /\ ~ end_reached /\ t_status = "open"
  BY DEF T!PageDown, T!Shown
<1>2. s \in Places /\ s.page = page /\ s.begin = FALSE
  BY TextFacts DEF T!At, Places
<1> HIDE DEF s
<1>3. s.begin <=> s.page = 0
  BY <1>1, <1>2, TextFacts
<1>4. TextInv'
  BY <1>1, <1>2, <1>3, TextFacts, TextShownAgain
<1>5. ASSUME text.ended PROVE top' \in top + 1 .. top + boxh
  <2>1. page = top + boxh /\ page <= text.lines
    BY <1>1, <1>5, TextFacts
  <2>2. /\ ~ text.search => top' = s.page
        /\ text.search =>
             /\ s.page + boxh <= text.lines + 1 => top' = s.page
             /\ s.page + boxh > text.lines =>
                  top' = IF text.lines > boxh - 1 THEN text.lines - (boxh - 1) ELSE 0
    BY <1>1, <1>2, <1>3, <1>5, TextFacts, TextShownAgain
  <2>3. CASE ~ text.search
    BY <1>2, <2>1, <2>2, <2>3, TextFacts
  <2>4. CASE text.search /\ s.page + boxh <= text.lines + 1
    BY <1>2, <2>1, <2>2, <2>4, TextFacts
  <2>5. CASE text.search /\ ~ (s.page + boxh <= text.lines + 1)
    <3>1. top' = IF text.lines > boxh - 1 THEN text.lines - (boxh - 1) ELSE 0
      BY <1>2, <2>2, <2>5, TextFacts
    <3> QED BY <1>2, <2>1, <2>5, <3>1, TextFacts
  <2> QED BY <2>3, <2>4, <2>5
<1> QED BY <1>4, <1>5

LEMMA TextGoesSideways ==
  ASSUME TextInv, T!Sideways
  PROVE  TextInv' /\ (text.ended => top' = top)
<1> DEFINE s == T!back_lines(T!Here, page_length)
<1>1. T!Shown(s) /\ t_status = "open"
  BY DEF T!Sideways, T!Shown
<1>2. hscroll' \in 0 .. MAX_SHIFT
  <2>1. \/ hscroll > 0 /\ (hscroll' = 0 \/ hscroll' = hscroll - 1)
        \/ hscroll < MAX_SHIFT /\ hscroll' = hscroll + 1
    BY DEF T!Sideways
  <2>2. hscroll \in 0 .. MAX_SHIFT /\ MAX_SHIFT \in Nat
    BY TextFacts, TextConstants
  <2> QED BY <2>1, <2>2
<1>3. /\ s \in Places /\ (s.begin <=> s.page = 0)
      /\ text.ended => s.page = IF top + page_length > page_length
                                THEN top + page_length - page_length ELSE 0
  BY <1>1, TextFacts, TextGoesBack
<1> HIDE DEF s
<1>4. ASSUME text.ended
      PROVE  /\ s.page = top
             /\ text.search => s.page = 0 \/ s.page + boxh <= text.lines + 1
  <2>1. s.page = top
    BY <1>3, <1>4, TextFacts
  <2> QED BY <1>4, <2>1, TextFacts
<1>5. TextInv'
  BY <1>1, <1>2, <1>3, TextShownAgain
<1>6. text.ended => top' = s.page
  BY <1>1, <1>2, <1>3, <1>4, TextShownAgain
<1> QED BY <1>4, <1>5, <1>6

LEMMA TextResizes == TextInv /\ T!Resize => TextInv'
<1> SUFFICES ASSUME TextInv, T!Resize PROVE TextInv'
  OBVIOUS
<1> DEFINE k == boxh + 4
           s == T!back_lines(T!Here, k)
<1>1. /\ t_status = "open" /\ boxh' \in Heights /\ T!print_page(s, boxh', label)
      /\ UNCHANGED <<t_status, text, hscroll, vscroll>>
  BY DEF T!Resize
<1>2. k \in Nat /\ k > 0
  BY TextFacts
<1>3. s \in Places /\ (s.begin <=> s.page = 0)
  <2> HIDE DEF k
  <2> QED BY <1>1, <1>2, TextGoesBack
<1> HIDE DEF s
<1>4. /\ label \in [text.jumps -> 0 .. JUMP_NB] /\ t_status' = "open"
      /\ hscroll' \in 0 .. MAX_SHIFT
  BY <1>1 DEF TextInv, T!TypeOK
<1> QED BY <1>1, <1>3, <1>4, TextShown

LEMMA TextOpens ==
  ASSUME TextInv, T!Open
  PROVE  /\ TextInv'
         /\ text.ended /\ text.search /\ boxh' = boxh => top' = top
<1> DEFINE o == T!At(0, vscroll = 0, FALSE)
           s == T!get_lines(o, vscroll)
<1>1. /\ t_status = "closed" /\ t_status' = "open" /\ boxh' \in Heights
      /\ T!print_page(s, boxh', T!Unlabelled)
      /\ hscroll' = IF text.search THEN hscroll ELSE 0
      /\ UNCHANGED <<text, vscroll>>
  BY DEF T!Open
<1>2. o \in Places /\ o.page = 0 /\ (o.begin <=> vscroll = 0)
  <2> DEFINE b == vscroll = 0
  <2>1. b \in BOOLEAN
    OBVIOUS
  <2>2. o = [page |-> 0, begin |-> b, end |-> FALSE]
    BY Zenon DEF T!At
  <2> HIDE DEF o, b
  <2>3. o.begin = b /\ o.page = 0 /\ o \in Places
    BY <2>1, <2>2, TextFacts DEF Places
  <2> QED BY <2>1, <2>3 DEF b
<1> HIDE DEF o
<1>3. /\ s \in Places /\ s.begin = o.begin
      /\ s.page = IF o.page + vscroll < text.lines THEN o.page + vscroll
                  ELSE text.lines
  <2>1. vscroll \in Nat
    BY TextFacts
  <2> QED BY <1>2, <2>1, TextFacts, PlacesKept, GoneAhead
<1> HIDE DEF s
<1>4. s.page = vscroll
  BY <1>2, <1>3, TextFacts
<1>5. s.begin <=> s.page = 0
  BY <1>2, <1>3, <1>4, Zenon
<1>6. T!Unlabelled \in [text.jumps -> 0 .. JUMP_NB]
  BY TextConstants DEF T!Unlabelled
<1>7. hscroll' \in 0 .. MAX_SHIFT
  BY <1>1, TextFacts, TextConstants
<1>8. TextInv'
  BY <1>1, <1>3, <1>5, <1>6, <1>7, TextShown
<1>9. ASSUME text.ended, text.search, boxh' = boxh PROVE top' = top
  <2>1. vscroll = top /\ (top = 0 \/ top + boxh <= text.lines + 1)
    BY <1>1, <1>9 DEF TextInv, ResultFillsPage
  <2>2. s.page = 0 \/ s.page + boxh' <= text.lines + 1 => top' = s.page
    BY <1>1, <1>3, <1>5, <1>6, <1>7, <1>9, TextShown
  <2> QED BY <1>4, <1>9, <2>1, <2>2
<1> QED BY <1>8, <1>9

LEMMA TextCloses == TextInv /\ T!Close => TextInv'
<1> SUFFICES ASSUME TextInv, T!Close PROVE TextInv'
  OBVIOUS
<1> DEFINE s == T!back_lines(T!Here, page_length)
<1>1. /\ t_status = "open" /\ t_status' = "closed"
      /\ vscroll' = IF text.search THEN s.page ELSE 0
      /\ UNCHANGED <<text, boxh, page, begin_reached, end_reached, page_length,
                     top, hscroll, label, targets>>
  BY DEF T!Close, T!box, T!search
<1>2. /\ s \in Places
      /\ text.ended => s.page = IF top + page_length > page_length
                                THEN top + page_length - page_length ELSE 0
  BY <1>1, TextFacts, TextGoesBack
<1> HIDE DEF s
<1>3. s.page \in 0 .. text.lines /\ (text.ended => s.page = top)
  BY <1>2, TextFacts DEF Places
<1>4. T!TypeOK'
  <2>1. vscroll' \in 0 .. text.lines
    BY <1>1, <1>3, TextFacts
  <2> QED BY <1>1, <2>1 DEF TextInv, T!TypeOK
<1>5. TextPrinted'
  BY <1>1 DEF TextPrinted
<1>6. ResultFillsPage'
  BY <1>1, <1>3 DEF TextInv, ResultFillsPage
<1>7. OnlyResultsHaveKeys'
  BY <1>1 DEF TextInv, OnlyResultsHaveKeys
<1>8. T!KeysLead'
  BY <1>1 DEF T!KeysLead
<1> QED BY <1>4, <1>5, <1>6, <1>7, <1>8 DEF TextInv

LEMMA TextInitially == T!Init => TextInv
<1> SUFFICES ASSUME T!Init PROVE TextInv
  OBVIOUS
<1> USE DEF T!Init
<1>0. /\ text \in Texts /\ text.lines \in Nat /\ boxh \in Heights /\ boxh \in Nat
      /\ JUMP_NB \in Nat /\ MAX_SHIFT \in Nat
  BY TextConstants
<1>1. T!TypeOK
  <2>1. label \in [text.jumps -> 0 .. JUMP_NB]
    BY <1>0 DEF T!Unlabelled
  <2>2. page_length \in 0 .. boxh
    BY <1>0
  <2>3. /\ page \in 0 .. text.lines /\ top \in 0 .. text.lines
        /\ vscroll \in 0 .. text.lines /\ hscroll \in 0 .. MAX_SHIFT
    BY <1>0
  <2>4. /\ t_status \in {"open", "closed"} /\ targets \subseteq text.jumps
        /\ begin_reached \in BOOLEAN /\ end_reached \in BOOLEAN
    OBVIOUS
  <2> QED BY <1>0, <2>1, <2>2, <2>3, <2>4, Zenon DEF T!TypeOK
<1>2. TextPrinted /\ ResultFillsPage /\ T!KeysLead
  BY DEF TextPrinted, ResultFillsPage, T!KeysLead
<1>3. OnlyResultsHaveKeys
  BY DEF OnlyResultsHaveKeys, T!Unlabelled
<1> QED BY <1>1, <1>2, <1>3 DEF TextInv

LEMMA TextInductive == TextInv /\ [T!Next]_textbox => TextInv'
<1> SUFFICES ASSUME TextInv, [T!Next]_textbox PROVE TextInv'
  OBVIOUS
<1>1. CASE UNCHANGED textbox
  BY <1>1 DEF textbox, TextInv, T!TypeOK, TextPrinted, ResultFillsPage,
              OnlyResultsHaveKeys, T!KeysLead
<1>2. CASE T!Next
  BY <1>2, TextOpens, TextGoesHome, TextGoesToEnd, TextGoesUp, TextGoesDown,
     TextGoesPageUp, TextGoesPageDown, TextGoesSideways, TextResizes,
     TextCloses, Zenon DEF T!Next
<1> QED BY <1>1, <1>2

LEMMA TextShows == TextInv => T!TypeOK /\ T!PageKept /\ T!KeysLead
<1> SUFFICES ASSUME TextInv, t_status = "open", text.ended
             PROVE  /\ T!back_lines(T!Here, page_length).page = top
                    /\ begin_reached = (top = 0)
                    /\ end_reached = (top + boxh > text.lines)
  BY DEF TextInv, T!PageKept
<1> DEFINE s == T!back_lines(T!Here, page_length)
<1>1. s.page = IF top + page_length > page_length
               THEN top + page_length - page_length ELSE 0
  BY TextFacts, TextGoesBack
<1> HIDE DEF s
<1>2. s.page = top
  BY <1>1, TextFacts
<1>3. begin_reached = (top = 0) /\ end_reached = (top + boxh > text.lines)
  BY TextFacts
<1> QED BY <1>2, <1>3 DEF s

LEMMA TextStep ==
  TextInv /\ [T!Next]_textbox =>
    [text.ended =>
       /\ T!Up => top' = top - 1
       /\ T!Down => top' = top + 1
       /\ T!PageUp => top' = T!Larger(top - boxh, 0)
       /\ T!PageDown => top' \in top + 1 .. top + boxh
       /\ T!Sideways => top' = top
       /\ T!Open /\ text.search /\ boxh' = boxh => top' = top]_(T!vars)
BY TextGoesUp, TextGoesDown, TextGoesPageUp, TextGoesPageDown,
   TextGoesSideways, TextOpens, Zenon

-----------------------------------------------------------------------------
(* The five together: what one of them does leaves the others as they are. *)
DialogsVars == <<dialog, vars, radio, input, textbox, question>>

LEMMA DialogsSteps ==
  [DialogsNext]_DialogsVars =>
    /\ [Next]_vars /\ [L!Next]_radio /\ [I!Next]_input
    /\ [T!Next]_textbox /\ [Q!Next]_question
BY Zenon DEF DialogsNext, DialogsVars

LEMMA DialogsStart ==
  DialogsInit => Init /\ L!Init /\ I!Init /\ T!Init /\ Q!Init
BY Zenon DEF DialogsInit

(* Whatever the lists, the texts, the length of an answer, the size of the *)
(* screen and the keys: a menu and a list show a part of their items with  *)
(* the cursor, an answer stays in its buffer and the field shows it, a     *)
(* text knows its page, and a question is answered by what was typed.  The *)
(* exceptions are those of WindowShowsItems and AnswerInField: a menu that *)
(* a resize has taken back to its top, an answer that starts with more     *)
(* than the buffer holds, and a resize that keeps a scroll.                *)
THEOREM DialogsAreShown ==
  DialogsSpec => [](TypeOK /\ MenuShown /\ AnswersShown /\ PagesKept)
<1> DEFINE Inv == MenuInv /\ ListInv /\ InputHolds /\ TextInv /\ QuestionInv
<1>1. DialogsInit => Inv
  BY DialogsStart, InitHolds, ListInitially, InputInitially, TextInitially,
     QuestionInitially, Zenon DEF InputHolds
<1>2. Inv /\ [DialogsNext]_DialogsVars => Inv'
  <2> SUFFICES ASSUME Inv, [DialogsNext]_DialogsVars PROVE Inv'
    OBVIOUS
  <2>1. /\ [Next]_vars /\ [L!Next]_radio /\ [I!Next]_input
        /\ [T!Next]_textbox /\ [Q!Next]_question
    BY DialogsSteps
  <2>2. MenuInv' /\ ListInv' /\ InputHolds' /\ TextInv' /\ QuestionInv'
    BY <2>1, StepHolds, ListStep, InputHoldsStep, TextInductive, QuestionInductive,
       Zenon
  <2> QED BY <2>2
<1>3. Inv => TypeOK /\ MenuShown /\ AnswersShown /\ PagesKept
  <2>1. MenuInv => TypeOK /\ MenuShown
    BY DEF MenuInv, MenuShown
  <2>2. ListInv => L!TypeOK /\ L!WindowShowsItems
    BY DEF ListInv
  <2>3. QuestionInv => Q!TwoEscapes /\ Q!AnswerIsTyped
    BY DEF QuestionInv
  <2>4. InputHolds => I!TypeOK /\ I!AnswerInField
    BY InputShows, Zenon DEF InputHolds, Overrun, I!AnswerInField
  <2> QED BY <2>1, <2>2, <2>3, <2>4, TextShows, Zenon
          DEF AnswersShown, PagesKept
<1> QED BY <1>1, <1>2, <1>3, PTL DEF DialogsSpec, DialogsVars

(* A text knows where its page began, and its keys lead where they stand   *)
(* (textbox.c:178-335; mconf.c:319-391).                                   *)
THEOREM PagesAreKept == DialogsSpec => []PagesKept
BY DialogsAreShown, PTL

(* What is taken from a list is the member that is lit, the cursor of the  *)
(* list goes where the keys say, and an answer changes by one character as *)
(* long as no resize has kept a scroll its text is too short for.          *)
THEOREM AnswersAreTaken == DialogsSpec => AnswersTaken
<1>1. DialogsInit => ListInv /\ L!Cursor!Init /\ InputHolds
  BY DialogsStart, ListInitially, InputInitially, Zenon DEF InputHolds
<1>2. ListInv /\ InputHolds /\ [DialogsNext]_DialogsVars =>
        ListInv' /\ InputHolds' /\ [L!Cursor!Next]_(L!Cursor!vars)
  BY DialogsSteps, ListStep, InputHoldsStep, Zenon
<1>3. ListInv /\ [DialogsNext]_DialogsVars =>
        [L!Select \/ L!Help =>
           \A i \in DOMAIN l_rows :
             l_rows[i].lit => L!Taken = l_items[l_rows[i].item + 1]]_(L!vars)
  <2> SUFFICES ASSUME ListInv, L!Select \/ L!Help, NEW i \in DOMAIN l_rows,
                      l_rows[i].lit
               PROVE  L!Taken = l_items[l_rows[i].item + 1]
    BY Zenon
  <2> QED BY ListTakes, Zenon
<1>4. InputHolds /\ [DialogsNext]_DialogsVars =>
        [~ shifted /\ i_status = "open" /\ instr' # instr =>
           \/ \E key \in Chars : I!Text(instr') = Append(I!Text(instr), key)
           \/ /\ I!Text(instr) # << >>
              /\ I!Text(instr')
                   = SubSeq(I!Text(instr), 1, Len(I!Text(instr)) - 1)]_(I!vars)
  BY DialogsSteps, InputHoldsStep, Zenon
<1> QED BY <1>1, <1>2, <1>3, <1>4, PTL
        DEF DialogsSpec, DialogsVars, AnswersTaken, L!TakesLit, L!MovesCursor,
            L!Cursor!Spec, I!EditsKept

(* In a text whose last line is ended the keys move by a line or a page,   *)
(* and sideways and on coming back the lines stay.                         *)
THEOREM LinesAreKept == DialogsSpec => LinesKept
<1>1. DialogsInit => TextInv
  BY DialogsStart, TextInitially, Zenon
<1>2. TextInv /\ [DialogsNext]_DialogsVars => TextInv'
  BY DialogsSteps, TextInductive, Zenon
<1>3. TextInv /\ [DialogsNext]_DialogsVars =>
        [text.ended =>
           /\ T!Up => top' = top - 1
           /\ T!Down => top' = top + 1
           /\ T!PageUp => top' = T!Larger(top - boxh, 0)
           /\ T!PageDown => top' \in top + 1 .. top + boxh
           /\ T!Sideways => top' = top
           /\ T!Open /\ text.search /\ boxh' = boxh => top' = top]_(T!vars)
  BY DialogsSteps, TextStep, Zenon
<1> QED BY <1>1, <1>2, <1>3, PTL DEF DialogsSpec, DialogsVars, LinesKept, T!LinesKept

(* A menu among the other dialogs is the menu alone.                       *)
THEOREM MenuCursorIsKept == DialogsSpec => CursorKept
<1>1. DialogsInit => Init
  BY DialogsStart, Zenon
<1>2. [DialogsNext]_DialogsVars => [Next]_vars
  BY DialogsSteps, Zenon
<1>3. DialogsSpec => Spec
  BY <1>1, <1>2, PTL DEF DialogsSpec, DialogsVars, Spec
<1> QED BY <1>3, CursorIsKept
=============================================================================
