# benchapp in TLA+

benchapp is a C program that measures how fast hashes and ciphers run on a
target. A configuration, edited with the `menuconfig` tool that comes with it,
selects benchmarks, the variations of each (key or digest sizes) and up to
three recipes (run for so long, or so many times). The build turns the
configuration into macros, and `main` drives what was compiled in.

This directory holds a TLA+ model of both programs. Of the benchmark it has the
driver, the plug-ins and the buffering and chaining of the crypto library
underneath. Of the configuration tool it has what happens from the reading of
its files to the writing of a configuration: the scanner's files, the parser's
actions, the simplification of expressions, the tree of menus, the calculation
of values, the two front ends, and the dialogs on the screen. TLC checks all
of it on small instances; TLAPS proves for every value of the constants what the
runs check of the benchmark program and of the dialogs, but for liveness, and
that configurations that were saved are not lost.

Paths below are relative to the repository. `W/` stands for
`external/WjCryptLib/lib/WjCryptLib_` and `K/` for `tools/menuconfig/`.

## 1. The system

### Components

| Component | Code | State it keeps | Operations |
|---|---|---|---|
| driver | `main.c` | loop indices, `info->state/status/cycle/duration`, the recipe tables, a failure counter | `main`, `run_recipes`, `benchapp_test_runner`, `app_exit` |
| port layer | `ba_port.c` | none but the clock of the system | `ba_get_timestamp`, `ba_time_diff`, string and memory functions |
| hash plug-ins | `ba_md5.c`, `ba_sha.c` | test data, a block cursor, a context for each variation | init, runner (`INIT`, `RUN`, `UNINIT`), uninit |
| AES plug-in | `ba_aes.c` | key, CBC context, buffers `data`, `encrypted`, `decrypted` | the same |
| plug-in tables | the three inits, `configs/Config*`, `Makefile` | `info->variations`, `info->recipes` | one block of code for each option |
| SHA-256/512, MD5, SHA-1 | `W/Sha256.c`, `W/Sha512.c`, `W/Md5.c`, `W/Sha1.c` | buffer, fill, length, hash state | initialise, update, finalise |
| AES modes | `W/AesCbc.c`, `W/AesCtr.c`, `W/AesOfb.c` | block or index of the key stream | initialise, seek, XOR, encrypt, decrypt |
| AES, RC4 | `W/Aes.c`, `W/Rc4.c` | key schedule, permutation | |
| scanner and parser | `K/zconf.lex.c`, `K/zconf.tab.c` | open files, the menu and block being read | open, end of file, one action for each rule |
| expressions | `K/expr.c` | the expression, rewritten in place | join, eliminate, transform, compare |
| menus | `K/menu.c` | the tree of entries and their properties | `menu_add_*`, `menu_finalize`, `menu_is_visible` |
| symbols | `K/symbol.c` | values with validity and write flags, the change count | calculate, set, drop all values |
| files | `K/confdata.c` | `.config`, its `.old`, a temporary file, `autoconf.h` | `conf_read`, `conf_write`, `conf_write_defconfig`, `conf_write_autoconf`, `conf_set_all_new_symbols` |
| batch front end | `K/conf.c` | the mode, the menu restarted, whether options were new | `conf`, `check_conf`, a question for each kind of entry |
| menuconfig | `K/mconf.c` | the menu shown, the file name | keys, menus, choices, load, save, exit, signals |
| dialogs | `K/lxdialog/` | window, cursor, page or text of the dialog open | one branch for each key; resize, escape |

### How they interact

The driver calls a plug-in through three function pointers and one shared
structure, `test_info_common_t`: it writes `state` and the indices of variation
and recipe, the plug-in's runner writes `status`, and the driver switches on
that. The plug-ins call the crypto library through contexts they own. Program
and configuration tool meet in the file `.config`, which the Makefile turns
into macros; the tables of the plug-ins are written in `#ifdef` blocks around
these.

Inside the tool the parser asks the scanner for tokens, which goes from file to
file below it, and builds one tree of entries; `menu_finalize` then hands the
conditions of each entry down, simplifies them and puts options that depend on
the one before below it. From there on nothing is added. Either front end reads
values through a cache (a symbol is calculated when it is asked for and not
marked as valid), all of which is dropped when something is set, and
`conf_write` clears a mark on each symbol that only a new calculation sets
again. `mconf.c` calls a dialog for each menu, value and question, and hands it
two variables, the item and the scroll, that outlive the call.

### What is hard in it, and what makes each part correct

There is one thread everywhere, so the difficulties are not of interleaved
threads, but of long sequences of calls over state that outlives them:

- *Driver.* Fields left over by one recipe must not mislead the next; three
  loops with skipped slots and failures must neither lose nor repeat a job; time
  is accumulated from truncated windows, which must add up for a recipe to end;
  one counter is compared, incremented and printed at different points of a
  round. Correct: every job once and in order; a time limit stops it when it is
  used up and not before; durations and failures say what happened; it ends. A
  limit of N calls makes N + 1 of them and N are reported (section 3).
- *Plug-ins.* A block cursor and the output buffer outlive recipes and
  variations. Correct: blocks are read round and round inside the data; only
  contexts that were initialised are used; a key is that of the recipe under
  way; tables say what the options say.
- *Crypto library.* A message may be cut into calls at any byte. Correct: the
  result is that of the message in one piece.
- *Reading of the files.* Pairs of operands are joined by rules that depend on
  their types, in place and until nothing changes; prompts share conditions;
  lists are cut and joined while they are walked. Correct: an expression keeps
  its value; each option has the conditions the files state for it; every
  entry is in the tree once, where it can be found.
- *Values and files.* A cache with two marks, settings that change the
  visibility of others, choices, and a file that is replaced by two renamings.
  Correct: what is cached is what a new calculation would give; what was saved
  reads back; a copy survives; nothing is forgotten without a question.
- *Batch front end.* Answers bring up options in menus already passed.
  Correct: all that is new is asked for, and questions end with the input.
- *Dialogs.* A window scrolled over a list that changes length between calls.
  Correct: what is lit is what a key takes; lines are shown once each.

The hazards, each with its line and the properties that cover it, are listed in
`PROJECT.json`.

## 2. The modules

| Module | Models | Composed of |
|---|---|---|
| `BenchPlan` | abstract: what a user is promised of a run | |
| `RunnerCalls` | abstract: the protocol between driver and plug-in | |
| `BenchRunner` | `main.c`, with the clock of `ba_port.c` | implements both of the above |
| `HashPlugin`, `AesPlugin` | the runners of the plug-ins | `RunnerCalls` as their environment |
| `PluginTables` | the tables of the inits, from the options | |
| `KeyStream` | abstract: a position in a stream of key bytes | |
| `AesCtr`, `AesOfb` | counter and output feedback mode | implement `KeyStream` |
| `AesCbc` | cipher block chaining, sender and receiver | |
| `BlockBuffer`, `MessageHash` | abstract: the padded message a digest is of | |
| `Md5`, `Sha1`, `Sha2` | buffering and padding of the hashes | implement `MessageHash` |
| `SourceFiles` | `zconf.lex.c`: the files and how they are gone through; the blocks that statements begin and end across them (`zconf.tab.c`, `menu.c`) | |
| `ExprRules` | `expr.c`: what becomes of one node of an expression | |
| `KconfigExpr` | `expr.c`: the rewriting of expressions | extends `ExprRules` |
| `KconfigMenus` | the rules for statements, and `menu.c` | extends `KconfigExpr` and `SourceFiles`, is built of the steps of the latter |
| `KconfigSymbols` | `symbol.c`: values, visibility, choices, ranges | |
| `KconfigFile` | `confdata.c`: reading and writing a file; `menu_is_visible` | extends `KconfigSymbols` |
| `SavedFiles` | the files `conf_write` of `confdata.c` leaves and the sessions that save them, without the values in them | |
| `Menuconfig` | `mconf.c`: sessions of the menu tool | extends `KconfigFile` and `SavedFiles`, is built of the steps of the latter and implements it |
| `KconfigConf` | `conf.c` and the files only it writes | extends `KconfigFile` |
| `ListCursor` | abstract: a cursor in a list, without a window | |
| `MenuBox`, `CheckList` | `menubox.c` and `checklist.c` with their callers in `mconf.c` | implement `ListCursor` |
| `InputBox`, `TextBox`, `YesNo` | the dialogs of these names | |
| `MC...` | instances for TLC, most of several components side by side; `MCBenchmarks` is of `MCPlugins` and `MCLibrary`; `MCReading` has the rules of `zconf.tab.c` for expressions, which build those that are checked | |
| `BlockArithmetic`, `..._proofs` | lemmas and theorems | |

`BenchRunner` and the plug-ins are not multiplied out. They meet in
`RunnerCalls`: the driver is shown to make no other calls (property `CallsKept`,
theorem `RunnersAreCalledInOrder`), and the plug-ins are modelled under any
calls it allows. `PluginTables` in the same way delivers the tables that
`BenchRunner` assumes, in use from slot 0 on without a gap.

`KconfigMenus` ends where `KconfigSymbols` begins: the prompts, defaults and
dependencies that the latter has as constants are what the former computes from
statements. `Menuconfig` and `KconfigConf` take them as given, with the tree of
menus beside them.

Definitions whose comment begins with "Mutant" are variants of the definition
below them with a bug such code could have. Nothing refers to them; put in the
place of that definition they violate the property that is there to catch them.

### State and actions against the code

**BenchRunner.** `pc` says in which of the loops of `main`, `run_recipes` and
`benchapp_test_runner` the program is; `bench`, `v`, `r` are their indices.
`state`, `status`, `cycle` and `duration` are the fields of `info`. A round of
`benchapp_test_runner` is two steps: `CallRunner` (or `CallFails`) is the call,
and `OnInitialized`, `OnRunning`, `OnUninitialized` are the branches of its
switch. `OnRunning` takes the length of the timed window from `Windows`, and
what `ba_time_diff` may make of it from `TimeDiffUsec`: the float the
difference is kept in is exact for short windows, off by a bounded amount
(`Blur`) for long ones, and truncated to microseconds. `done`, `lost`, `calls`,
`spent` and `blur` are history: the program does not have them. A plug-in whose
init finds no memory takes the process down (`InitCrashes`), as `main` uses
what it returned without a look.

**HashPlugin, AesPlugin.** `RunInit`, `RunRun` and `RunUninit` are the three
cases of a runner, each tied to a call of `RunnerCalls`. Data is seen by where
it comes from: the offset of a block in the test data, the number of the
encryption or of the random fill a buffer holds. No runner ever answers
`BENCH_TEST_FAILURE`, so their recipes end by `UNINIT` only; the driver is
modelled with runners that may fail.

**PluginTables.** A step is one `#if` block of an init. `Duration` multiplies as
an `int` of `INT_MAX` does before it is stored in an `unsigned long`.

**AesCtr, AesOfb.** A call is one step; `out` has what each byte of the buffer
was XORed with, as a position of a key stream. Cipher blocks go by the counter,
or by the number of encryptions of the IV, that they are the result of.
`Careful` says whether callers of counter mode seek after a call that stops
inside a block (see the finding on `AesCtr.c:210`). Sizes are computed modulo
`SizeModulus`.

**AesCbc.** A step is one block of a call, because in place the order of reads
and writes within a block's turn matters: `EncryptBlock` and `DecryptBlock` set
the context and `OutBuffer`, `Call` and `Return` hand buffers over. A refused
size is a call that changes nothing.

**Md5, Sha1, Sha2.** A byte of the message is its position. `absorbed` is what
the compression function was given, in that order, and the digest is a copy of
it: a hash that is a function of what it absorbs is right when it absorbs the
padded message. Lengths wrap at constants (`LO`, `HI`, `COUNT0`, `COUNT1`) as
words of the code do. The loops of SHA-2's update and SHA-1's padding are
step by step, as their termination is a question.

**SourceFiles.** `buffers` is the stack of open files with the lines read of
each; `parent` is the pointer in a file's record, of which there is one however
often the file is included. A step reads a `source` line or ends a file, and an
inclusion that is refused ends the process, as `exit` does. The walk from a file
to its includers (`zconf_nextfile` loops over `parent`) is the least set of
files that has every parent of its members.

Of what the parser keeps of places, without what statements say, the same module
has the blocks: `places` has for each entry the one it is in and the file it is from,
`current_menu` and `last_entry_ptr` are the variables of `menu.c`, `blocks` is
the parser's stack of kinds of blocks, and `included`, which is history, says
where each open file was included. A statement adds an entry, opens a block or
ends one, which `zconf_endtoken` refuses in another file; which statements stand
between the `source` lines of a file is left open here. `KconfigMenus` has these
steps with the statements of each file in their order, and adds to each what it
does to entries and properties.

**ExprRules, KconfigExpr, MCReading.** An expression is a tree of tuples. Where
a function of `expr.c` only goes down its operands, `ExprRules` has what it makes
of one node, with a parameter for the function that says what it makes of the
operands, and `KconfigExpr` ties it to itself. Other functions go across the
tree. `expr.c` rewrites through pointers into the tree (or two trees, when
operands of one are looked for in the other); a pointer is a path here, and each
function returns the tree it leaves. In `MCReading` the parser's value stack is
`operands`, and a step of `ExprNext` is one reduction.

**KconfigMenus.** An entry and a property are numbers, in the order they were
made; fields that are pointers (`parent`, `list`, `next`, `menu_prop`) hold
such numbers, with 0 for null. A step of the parser is a statement with the
options below it, the end of a block, or what the scanner does meanwhile;
`Finalize` is `menu_finalize` on the whole tree, its recursion and its loops
over the list included. Where an expression is shared, freed ones show.

**KconfigSymbols, KconfigFile.** `tbl` is the symbol table: for each
symbol the user's value (`def`, `has`), the calculated one (`curr`), visibility
and reverse dependency, in `valid` whether the value counts, in `write` the
`SYMBOL_WRITE` mark, and `changed` for the change count. Calculation is
threaded through the table, as in C, where calculating one symbol calculates
others.

**SavedFiles.** The renamings of `conf_write` on `disk` (the files) and `old`
(their `.old` ones), with what can go wrong there: the second renaming fails,
the disk is full without a word, or the process is killed between the
renamings. `faults` remembers which of these there were; `shown` is history, the
values there were when a file was saved. Whether a file has these values is a
constant, `ReadsBack`, for which `Menuconfig` has `FileReadsBack`: what
`conf_read` makes of the file. `SessionsSpec` adds what a session of `mconf.c`
has to do with them: its table with the mark of a change to save, the name it
saves to and how it ended. Of the values it knows only whether they are the
same (`ValuesIn`, for which `Menuconfig` has `Current`); it says which steps
may change them without a mark (none) and which may take the mark away (a save
that comes to its end). `FilesSpec` is about the files alone.

**Menuconfig.** An action is one answer of the user with what it sets off, the
drawing of the next menu included, as drawing calculates values. A save is
the step of `SavedFiles` with what `conf_write` does to the symbols beside it.
`Restart` is the next session on the files that are there.

**KconfigConf.** `main` is split where it calls `conf` and `check_conf`; these
call each other down the tree and stop at each question, so the calls still to
be made are kept in `calls`. A question takes a line; when there are no more
(`MaxLines`) every line is empty, as `conf_askvalue` makes it. `shown` is
history: the values there were when a file was written.

**Dialogs.** A step is a key. `rows` (and `field`, `top`) is what is on the
screen, moved as `wscrl` moves it and drawn where the code draws it, which is
compared with what the variables of the dialog say. A resize makes a dialog
start over within the same call, with the variables it has. `returned` and
`shifted` say that this left a menu drawn from further down than its scroll, or
a field with a scroll that its text is too short for. `OpenTooLong` is the field
opened with a text that its buffer does not hold, where the model of it stops.
Of `YesNo` also the keys typed ahead are there, since `on_key_esc` looks at them.

## 3. What is checked

| Run | Shows | Distinct states |
|---|---|---|
| `driver` | every job once and in order, time limits held and limits of calls to within one call, counters and clock right but for that call; `BenchRunner` implements `BenchPlan`, liveness included, and `RunnerCalls` | 38792 |
| `benchmarks` | what the driver measures: cursor, contexts and buffers of the plug-ins, and tables that follow options; both stream modes implement `KeyStream`; CBC is a chain, is undone by decryption and is joined across calls; the hashes implement `MessageHash`, keep every byte in one place and count lengths across words; loops end | 491517 |
| `reading` | `expr.c` keeps the value of every expression and takes nothing for implied that is not; files that include each other are read to their ends or refused | 115365 |
| `menus` | the tree of `menu_finalize` has every entry once, each option under its conditions and where it can be found; an included file closes no block it did not begin | 430740 |
| `menuconfig` | values, files and questions through sessions of the tool, with saves that fail, are lost or are killed; it implements `SavedFiles` | 45166 |
| `conf` | every mode of the batch tool: what it writes reads back, all that is new is asked for, it ends with its input | 70669 |
| `dialogs` | windows show what they are at, cursors are kept, answers are what was lit or typed, with the exceptions below; menus and lists implement `ListCursor` | 264953 |

The other five runs each show where the program does not do what a comment, a
message or an option of it says:

| Run | Code | What it says | What happens |
|---|---|---|---|
| `exec_limit` | `main.c:73`, `82` | "Exec Limit" (`configs/Config.md5:40`), "Number of %lu test calls" (`main.c:91`) | a recipe limited to N calls makes N + 1 of them, one for the limit 0, as the counter is compared before the call just made is added; and it prints N, as the round that ends a recipe is not counted although it is timed |
| `ctr_chunks` | `W/AesCtr.c:210` | XORs "from its current stream position" (line 170) | after a call that stopped inside a block, the next one uses bytes of the wrong block |
| `save_retry` | `K/confdata.c:796` | "Enter a filename to which this configuration should be saved" (`K/mconf.c:218`) | after a save whose renaming failed, the next one writes a file without the symbols |
| `visibility` | `K/menu.c:151` | "Apply all upper menus' visibilities to actual prompts" (line 144) | the prompts share the condition itself, which is freed when one of them is simplified |
| `header` | `K/confdata.c:989` | "Same as oldconfig, but quietly; write header to <file>" (`K/conf.c:475`) | with a configuration to save and no header yet, the header written is empty |

What the properties are about, beyond these words, is in the comment above each.
Those of the form "the values it leaves are those of a reference" have the
reference in the same module: an expression is evaluated as it was read, without
any simplification; `Needed` and `Declared` take the conditions of an option
from the statements around it; and `Current` of `KconfigFile` calculates a table
anew. `BudgetsHold` and `CountersRight` say of calls what the code does keep: a
limit of N is passed by one call at most, and the counter is behind by that one
at most. `SimplifiesToSame` leaves out the value m where a joined operand has
operators in it, as `expr.c` goes by the rules of two values there (see below).

Three properties of the dialogs have exceptions, each a state that a step marks:

- `WindowShowsItems`, in `MenuShown`, does not speak of a menu that a resize has
  taken back to the top of its list (`returned`): `first_item` stays where the
  window was, so the lines drawn are not those of `scroll`, and may be read past
  the end of the list (`StaysUp` below). That scroll and cursor stay within the
  list (`WithinList`) holds then too.
- `AnswerInField` and `EditsKept` do not speak of a field that a resize has
  started over with a scroll that its text is too short for (`shifted`).
- `AnswerInField` does not speak of a field opened with more than the buffer
  holds (`status = "overrun"`): the initial text is a value of the configuration
  or a name, and `strcpy` does not look at its length
  (`K/lxdialog/inputbox.c:55`). What is overwritten is not followed.

### Seen on the way

These are stated in the modules, do not hold, and are not among the runs:

- `ReportedCallsWereMade` by itself: a recipe with a time limit prints one call
  fewer than it made, too.
- `EnabledRecipesRun` (`ba_aes.c:169`, `ba_sha.c:196`): there is no code for the
  third recipe. `TimeLimitsKept` (`ba_md5.c:95`): an `int` product overflows
  beyond some 36 minutes. `InputIsRefreshed` (`ba_aes.c:66`): the macro is `y`,
  which `#if` takes for 0.
- `AskedAfterMissing` (`K/confdata.c:409`): a session whose file to load was
  missing ends without a question about what was changed before.
- `StaysUp` (`K/lxdialog/menubox.c:45`), `ShownIsEntered`, `LitIsPressed`: a
  resize starts a dialog over with variables of the call that the new drawing
  does not go by; a menu that was scrolled is read past its end when the window
  grows. `CursorInField` (`K/lxdialog/inputbox.c:128-147`): a field started over
  with a scroll no text is behind brings too little back when the text is
  erased, and erasing goes on before the field and the buffer; the model does
  not follow the write there. `SamePage` (`K/lxdialog/textbox.c:229`): where the last line is not
  ended by a newline, scrolling sideways may show another page.
- `DependsShowsIt` (`K/mconf.c:256`): an option put below one without a prompt
  is never shown. `SelectsAsDeclared` (`K/expr.c:302`): for a tristate `FOO`,
  the condition `FOO!=n` becomes `FOO`, which is m where the other was y.

And these have no property:

- `K/expr.c`: an operand that is the contrary of another makes an n of their
  `&&`, also where both are m (577-604); a comparison made of `!a` for a
  tristate `a` is not that of `a` when it is m; the comment at 484 says `a='m'`
  and the code below it `a='y'`.
- `K/menu.c`: the dependency of a symbol forgets an entry that has none (353);
  a member of a tristate choice that is declared twice is not bound to it at
  the second entry (355-387); drawing a menu may mark a symbol as set (463).
- `K/symbol.c`: a number that is entered again after its mark was taken away is
  accepted without a new calculation (662); `K/confdata.c`: a number out of
  range is recalculated alone (456), and random values for a bool may be m
  (1124).
- `K/conf.c`: a number without a default (140), or a choice without a default
  member, is asked for without end once the input is over. `K/mconf.c`: a value
  is asked for without end when the screen is too small (775-813), and an
  interrupt that is answered with two escapes ends the session, which line 877
  says continues it.
- A data size that is no multiple of 16 makes `AesCbcEncrypt` refuse every call,
  and a throughput is reported all the same; `ba_strrchr` never looks at the
  first character.

### Bounds, and why they are enough

- *Driver.* Two plug-ins are the least that have an order. The first has no
  variations, as MD5; the second has 0 and 2, so that one index is skipped. A
  timed recipe and a counted one meet in both orders, and one limit is zero. A
  microsecond is two ticks and windows are 1, 2 and 5 of them: read as nothing,
  exactly, and rounded, as a float is exact below `ExactTicks` = 4. `MaxShort`
  = 2 windows in a row are read as nothing at all.
- *Library, modes.* Blocks of three bytes have a first, an inner and a last one.
  Sizes stop at each of these in the block at hand and in the three that follow,
  and seeks go to each of these in four blocks. Up to `MaxIndex` = 16 and
  `MaxBlock` = 7 contexts pass several blocks. For chaining there are 16 values
  of a block, with a permutation as cipher, two values in messages, and four
  blocks, which two calls on either side cut in every way.
- *Library, hashes.* SHA-2 with blocks of six bytes and a length field of three,
  of which two are written, and MD5 and SHA-1 with blocks of five and fields of
  two: padding that fits, just fits and needs another block all occur. Low words
  overflow every two blocks, high ones after two or four of these, and
  messages (`MaxFed` 16 and 22 bytes) are longer than that. Pieces have 0 to 17
  bytes: less than, exactly and more than one block and two.
- *Plug-ins.* Four blocks of data are read three times round (`MaxReads` = 13)
  over three variations; four AES calls and keys see every order of key, call
  and feedback. Data sizes 32 and 40 are a multiple of 16 and not. `int` has 16
  bits and `long` 24, so that 2 ms fit and 40 ms do not.
- *Reading.* Expressions of up to four leaves (`MaxLeaves`) and one `!`
  (`MaxNots`) over a bool, a tristate, a comparison and a constant: every rule
  of `expr.c` for a pair of operands applies to some of them, on either side,
  and four leaves leave two to be joined after two were. Three files with up to
  two `source` lines each include themselves and each other, directly and not,
  and a fourth is missing.
- *Menus.* Up to three statements (`MaxEntries` = 4 with the root) of twelve,
  in one file or two: an option below another, in a block, in a block within a
  block, and in the file included. Conditions are bools and tristates, one the
  negation of another.
- *menuconfig.* Ten symbols: what each of `configs/Config.*` has of a recipe (a
  choice of two, a limit with a range, a dependent block), and of what these
  do not use, tristates, `select` and `modules`. Four answers (`MaxKeys`) set,
  save, change and leave, or save, fail, save and fail again; they may be those
  of two or more sessions. One kind of failure occurs in a behaviour
  (`MaxFaults`), any number of times but for the full disk. There is no
  configuration at the start, or one, with or without a symbol that is gone.
- *conf.* All twelve modes, over eleven symbols with a choice of tristates, a
  number, and an option in the last menu that brings one up in the first. Seven
  lines of input (`MaxLines`) answer the questions of one pass and those of the
  next; all questions after these have empty answers. Files are missing, whole
  and in part.
- *Dialogs.* Menus of two, three and five items in windows of one to four lines,
  so that they fit, just fit and are scrolled by one and by several; lists of up
  to six members in three lines; a field of three columns for six characters,
  the shortest in which a scroll left over by a resize shows, and a text to
  start with of seven;
  texts of one to seven lines, ended by a newline and not, in boxes of up to
  four, and search results with two keys on a page. Four keys (`MaxKeys`) are
  typed ahead of a question.

`MaxReads`, `MaxCalls`, `MaxIndex`, `MaxBlock`, `MaxBlocks`, `MaxFed`,
`MaxKeys` and `MaxFaults` only cut runs short: behaviours stop there, and safety
up to it is what is checked. `MaxLeaves`, `MaxNots` and `MaxEntries` bound the
input. Where a bound or an end can stop a run, `CHECK_DEADLOCK FALSE` says so;
it is not set for the driver, which ends only in `Ended`.

### Fairness

`BenchRunner` has `WF_vars(Next)`: the program is one thread that waits for
nothing, so it goes on as long as it can. `RecipesEnd` and the liveness in
`PlanKept` need one thing more, that time passes: at most `MaxShort` windows in
a row are read as no time at all. This is an assumption on clock and target, not
a guarantee of the code. Where every call takes less than a microsecond, a
recipe with a time limit does not end: this is the hazard at `main.c:68`.
Runners return, which the plug-ins here do.

`MCBenchmarks` has weak fairness on the steps within a call to update or finalise,
which are loops of one thread; none on calls being made. `MCReading` has it on
the scanner, as the parser asks for tokens until there are no more. All other
specifications have no fairness, as they wait for a user, and no liveness is
claimed of them: that the questions of `conf.c` come to an end is a
safety property (`QuestionsEnd`), of what there is to ask when the input is over.

## 4. What is proved

| Module | Theorems | Inductive invariant |
|---|---|---|
| `BenchRunner_proofs` | `TypeOK`, `JobsInOrder`, `BudgetsHold`, `CountersRight`; the safety of `BenchPlan`; `RunnerCalls` (`CallsKept`) | see below |
| `Plugins_proofs` | `RunnerKept`, `AesRunnerKept`, `TablesKept`, `PluginsTyped` | the cursor stands after the last block read, modulo the blocks there are, and the one open context is that of the recipe under way; a buffer holds the output of the last call of this recipe; tables are the options of the blocks passed, counted |
| `Library_proofs` | `ChainKept`, `CallsJoined`; `ContextsTyped`, `EveryByteKept`, `DigestsKept` (the hashes implement `MessageHash`), `StreamsKept` (the stream modes implement `KeyStream`) | for chaining, what is in the buffers of a call under way, up to block `i` processed and from there on not, in place or not; for the hashes, bytes hashed and bytes in the buffer make up the message, see below; for counter mode, the block at hand is the one its index names, and the position is in it unless a caller was careless; for output feedback, the index is within the block or at its end |
| `Dialogs_proofs` | `TypeOK`, `MenuShown`, `CursorKept`, `AnswersShown`, `AnswersTaken`, `PagesKept`, `LinesKept`: all that `dialogs` checks; with them menus and lists implement `ListCursor` | see below |
| `Kconfig_proofs` | of `SavedFiles`, `LastCopyKept`, `SavesReadBack` and `NothingForgotten`; of `SourceFiles`, that the current file is the one being read (`FileIsRead`), and `IncludedStaysInside` | `FilesInv`, `CurrentUnlessMarked`, `ScanInv` and `NestInv`, see below |
| | of `ExprRules`, that operands made one (`JoinedOr`, `JoinedAnd`), `expr_eliminate_yn` (`YnEliminated`) and `expr_transform` (`Transformed`) keep the value of every expression, and that comparing and depending say what is so (`ComparisonIsTrue`, `DependsIsTrue`) | none, induction by weight |
| `BlockArithmetic` | lemmas on `\div` and `%` | |

The argument for the driver: its safety properties are not inductive one by
one. `JobsInOrder` compares `done` with where the loops stand, and is kept by
`OnUninitialized` only because `state` and `status` agree on which branch of the
switch is next. `StopsOnBudget` and `CallsCounted` are about calls, of which the
program has no count: `CycleLags` says by how much `cycle` is behind at each
place, which needs that a fresh recipe is entered with counters that `INIT`
resets, whatever they were, and `BudgetByCycle` what the code's comparison says
of `cycle`; together they bound the calls (`CallsAgainstLimit`).
`ClockAccounting` needs that `calls` windows were added. So `IInv` is the
conjunction of all of them with `Control` (where the program may be for which
`state` and `status`), `FreshCounters` and `OldWindows`. There is one lemma for
each action. For refinement, an action that ends a job is shown to be `Finish`
of the next job of the plan, the others to leave the plan as it is; and the
state of the last call, as `RunnerCalls` has it, is read off `pc`, `state` and
`calls`.

The argument for the hashes: `EveryByteKept` says of each byte where it is, which
no step of a loop shows by itself. The invariants say it of the text as a whole:
what was absorbed followed by the bytes in use of the buffer (`Contents`) is the
message so far, and how many bytes are in use is the number of bytes so far
modulo the block. A call then appends its piece to `Contents`, wherever the
piece is cut. How many bytes there are is in two words, with a carry found by
comparing a sum with one of its terms: `TwoWords` says that whichever term it is
(MD5 takes the one, SHA-1 the other) the words count on modulo both their
widths. That the low word tells how much of a block is used needs that its
modulus is a multiple of the block, which is assumed (2^29 and 2^32 are, of 64
bytes and 512 bits). At the end, `Pads` says that what MD5 and SHA-2 make of a
buffer, in one block or two, is the one bit, the zeros and the length field that
`MessageHash` asks for. SHA-1 gets there byte by byte: its invariant says while
it pads that the text is the message, the one bit and `j` zeros for a `j` not
beyond `ZerosUpTo`, and `PaddingStops` that the guard of its loop fails at that
number and at none before.

The argument for the stream modes and the library: a part of the library is left
alone by a step of another (`EachStep`), so that the invariants of all of them
are one. `ContextsTyped` holds for careless callers too, and for sizes that
wrap. Counter mode may be in the wrong block then, and the property only gives
the range of that block. That it is the one its index names
(`CipherBlockIsCurrent`) is in the invariants, `CtrTyped` for all callers and
`CtrInv` for careful ones.

The argument for menus: the abstract cursor is `scroll + choice`. That the
rows on the screen are the items from `scroll` on (`WindowShowsItems`) is kept
by a step only if window and cursor stay within the list (`WithinList`), and by
a resize only if it leaves the window where it was or moves it to the cursor; the
one that takes it to the top sets `returned`, and no claim is made of the rows
until the menu is opened again or a resize draws it anew. A page
key goes by the lines one after the other and is one step of `ListCursor` at
its end, so `PagePosition` says for a page under way where it began and how
many lines are left. `Left` says that the caller's `s_scroll` is the window's
when a call has ended, by which the next one opens where this one was left
(`SameLine`). Lists are scrolled by a line at a time and need less: rows that
are those of the scroll, with the cursor lit (`ListInv`).

The argument for answers: a string ends at its first NUL, so that its length is
a least number, which there is by induction on the numbers below
(`LeastNumber`). The field shows the text (`FieldShowsText`) only if the cursor
is where the text ends (`CursorBehindText`) and, since erasing at the left edge
brings back what is behind the scroll without a look at its length, if there is
no old text left behind the cursor (`NothingBehind`). Both need a text that fits
the buffer; otherwise the dialog has stopped (`Overrun`). The argument for texts:
the keys of a search result read the page ahead from its top, so the lines on
the screen are its page only if it is full, or the whole text
(`ResultFillsPage`); that no two lines get the same key is that of numbers
closer together than `JUMP_NB` no two are equal modulo it (`ModsDiffer`). The
question needs what was typed and what of it is read (`KeysInOrder`), with the
escape that came before (`EscapeRead`).

The argument for files that are saved: `LastCopyKept` is not inductive, as it
allows both files of a name to be there and only the `.old` one to be good, and
then the next save that is killed would put the bad one in its place.
`InOnePlace` says that as long as sessions are only killed this is not so: the
file of a name is good if it is there, and the `.old` one if it is not. A full
disk spoils one file, and can do so once; `NoneMissing` says that until then,
if nothing went wrong, no file was away, so the one it spoils goes to `.old` and
was good. All this holds for any names, files and values, and for any front end
that saves good files while it may (the guard of `Save`). The theorems are of
`FilesSpec`, which the sessions of `SessionsSpec` keep to (`SessionsKeepFiles`).

The argument for sessions that end without a question: `NothingForgotten` is
about the end, and what makes it true is about the session before.
`CurrentUnlessMarked` says that a session that runs, is not marked to be saved
and saw nothing go wrong but kills has the values of the file it would save to.
A save makes it so, also under another name; no edit undoes it without a mark;
a load sets the mark; a session killed between the renamings leaves no file, so
that the next one starts marked. A save whose renaming fails or that finds the
disk full is known by `faults`, and so is a name that was not found, after
which the claim is false (`AskedAfterMissing`, section 3).

That `mconf.c` is such a front end is `FilesSaved`, which `menuconfig` checks:
there the guards are about what `conf_write` makes of the symbols, `conf_read`
of that, and the calculation of all of them.

The argument for files that are read: a record has one `parent`, so walking up
the records finds the files that are open only if none is open twice
(`Straight`). The scanner does open a file again that is open, and looks for
that only at the next `source` line. Then `Round` holds: the file at the top has
not been read, it has such a line, since it was opened from one before, and the
walk from it comes round to itself (`ComesRound`, by going down the stack to the
least place the walk reaches). So the next step ends the process, before any end
of file could go back to the wrong parent.

The argument for blocks: the current menu is left at an end statement only if its
entry is from the file being read. `NestInv` says that the entry at which an open
file was included, unless it is `rootmenu`, is from none of the files opened
since (`Before`), so that what is left is below it; and that there are more menus
around the current entry than blocks open, so that `rootmenu` is not left. The first needs that a file opened
now has no entries yet. `SeenInv` says why: of each file opened so far, but for
the first, the `source` line has been read, and if no two lines name one file,
none that is still to be read does (`SourceKeeps`). Hence the
hypothesis `EachFileOnce`. Without it the statement is not one about the parser
alone: a file read a second time ends blocks that its first reading left open, if
it has other statements then. The configuration files here include each file from
one place, and TLC evaluates the hypothesis for those of `menus`.

The argument for expressions: the definitions of `KconfigExpr` are recursive,
and the prover can use neither these nor that recursive functions exist. So the
theorems are about any functions that satisfy the same equations for all trees
(`Valuation`, `EliminatesYn`, `Transforms`, ...), which say of a tree what
`ExprRules` says of it, given the function's values for its operands; and `Trees`
says that the trees are the finite ones, by a weight that operands have less of.
`ByWeight` is induction on it. For `expr_transform` it is not enough that
operands are lighter, as it calls itself for a tree it has just made:
`!(a || b)`, transformed below the `!`, becomes `!a && !b` and is transformed
again. With a `!` that makes its operand twice as heavy the new tree is lighter
than the first, provided that transforming made nothing heavier; so this is
shown together with the rest. A shape, such as that nothing but a symbol is below
a `!`, is a set of trees closed under the rules that build them: what is shown to
be in each such set is in the least one. `ComparisonIsTrue` needs that no
operand of a `!` is m; where one is, the code's answer is another (section 3,
"Seen on the way").

Assumptions, all in `ASSUME`s of the modules that declare the constants or, for
modules that are only instantiated, of the `MC` modules (`PluginsAssumption`,
`HashesAssumption`, `CtrAssumption`, `DialogsAssumption`, `OnceAssumption`), and
all evaluated by TLC for the instances: tables of at most five recipes and 16
variations, some window of a microsecond or more, positive sizes of blocks and
data, words that count whole blocks, files whose names are not the null pointer,
symbols that are bool or tristate and none of `y`, `m` and `n`, lists that are
not empty, a buffer at least as long as the field on the screen, characters that are not the NUL.
Three are hypotheses of theorems: `EachFileOnce` of `IncludedStays`, and for
`StreamsAreKept` `Careful` of the callers of counter mode and `NoWrap`: no size
comes within a block of 2^32. `AesCbc` assumes of the cipher that decryption
undoes encryption, and of XOR what XOR does.

Only model-checked: liveness (`RecipesEnd`, `LoopsEnd`, that of `PlanKept` and of
`FilesRead`), which the prover does not cover; and of the configuration tool
what is recursive over paths in expressions, menus and the dependencies of
symbols. These are `SimplifiesToSame` and `ImpliedIsTrue` for whole expressions:
the theorems above cover the rules for one node, not `expr_eliminate_dups`,
`expr_eliminate_eq` and `expr_extract_eq`, which move operands across the tree;
the tree that `menu_finalize` makes (`ConditionsAsDeclared`, `TreeKept`,
`NothingHidden`); and the values of symbols in `menuconfig` and `conf`. That
`Menuconfig` implements `SavedFiles` (`FilesSaved`) is checked too, as its guard
is about such values; what `SavedFiles` promises is proved.

## 5. What is not modelled

- The compression functions, AES on one block and RC4: arithmetic on words
  without control. The models take any function, or any permutation, instead.
- Drawing and colours, and `ncurses` underneath; the text of the help and the
  regular expressions of the search, of which only the list of results is
  there.
- In `mconf.c`: the show-all and single-menu modes, comments, menus with a
  prompt that is a symbol, and an interrupt in the middle of a save, which runs
  `stdio` and `ncurses` inside themselves.
- The tables of `flex`, `bison` and `gperf`, the parser's recovery from errors,
  and the environment symbols.
- Strings and hexadecimal values: they are handled as numbers are.
- The directory of time stamps of `conf_split_config`, except for whether it
  comes to the line that reads the file again; what the environment overrides.
- The warnings for dependencies that are not met and for recursive ones.
- `fixdep`, printing, and the make and CMake files, but for what they make of an
  option.

## 6. Plan

Done, in this order, the core of the program first: `BenchPlan`, `RunnerCalls`,
`BenchRunner` and its proofs; the stream modes with `KeyStream`; chaining; the
hashes with `MessageHash`; the plug-ins; their tables; symbols, files and
`Menuconfig`; then crashes, full disks and sessions that follow; `KconfigConf`;
expressions, files and menus as they are read; the dialogs with `ListCursor`.

The tables of `PluginTables` are ones `BenchRunner` assumes: this is the typing of
a table that `PluginsTyped` asks for and `PluginsAreKept` proves.

After these, the proofs, for which the blocks of `SourceFiles` were separated
from `KconfigMenus`, `ExprRules` from `KconfigExpr` and `SavedFiles` from
`Menuconfig`: these parts have no recursion.

Left, to extend the model:

1. A second tree of symbols for `MCMenuconfig`, for the numbers of
   `K/symbol.c:662` and `K/confdata.c:456`.
2. `sym_check_deps` of `symbol.c`: a configuration without recursive
   dependencies is accepted, one with them refused, and calculation ends on
   those accepted.
3. `Rc4`, against `KeyStream`.
