# acsh, verified

acsh is a small POSIX-style shell in C (`src/`, 4,700 lines in `src/src/*.c`).
This directory models its control in TLA+, checks the models with TLC and
proves theorems about them with TLAPS. `PROJECT.json` holds the runs, the
mutants, the map from definitions to source lines, the findings and the
hazards. All line numbers are those of the files under `src/src/`, unless a
path is given.

To run: `tlc -config job_control.cfg MCJobControl.tla` and so on, with the
module that section 4 names; `tlapm JobControlProofs.tla` and so on.

## 1. Inventory

| part | source | state it keeps | operations |
|---|---|---|---|
| main loop | `main.c` | the input source | `run_line`, `run_script_file`, `load_rc_file`, `main` |
| parser | `parser.c` | none | `tokenize`, `parse_line`, `parse_chain` |
| executor | `executor.c` | none of its own; forks, pipes, redirects | `execute_chain`, `execute_pipeline`, redirection |
| job table | `jobs.c` | 32 slots, `next_job_id` | add, mark, cleanup, find |
| signals, traps | `signals.c` | `foreground_pgid`, trap commands, pending flag | three handlers, mask, trap runners |
| builtins | `builtins.c`, `test_builtin.c` | none | 30 builtins and the `test` evaluator |
| control flow | `control_flow.c` | `loop_signal`, its level, `active_loop_depth` | `if`, `while`, `until`, `for`, `case`, `break`, `continue` |
| functions | `functions.c` | 64 names and bodies | define, find, call |
| environment | `env.c` | `$?`, positional stack, local frames, call depth | push, pop, shift, declare local, expand |
| substitution | `subst.c` | none | fork a subshell, read its pipe, wait |
| globbing | `glob.c` | none | pattern expansion |
| aliases | `alias.c` | 32 names | set, unset, expand a line |
| history | `history.c` | 200 lines, a file | load, add, append to the file |

How they interact: `main` reads a line and gives it to `history`, then to
`control_flow` (by its first word), `functions` (a definition) or
`execute_chain`. A chain expands aliases, parses and expands one segment at a
time, and hands the pipeline to `execute_pipeline`, which runs an assignment, a
builtin or a function in the shell itself and forks everything else. Builtins,
functions, sourced files, traps and substitutions re-enter the same functions,
so the global state above is shared by every nesting level. The only real
concurrency is between the shell's one thread, its signal handlers, and its
children: the main thread and `sigchld_handler` share `job_table`; the
keyboard's handlers read `foreground_pgid`. Several shells share a history file.

What is hard: the handler interrupts the main thread between any two of its
system calls; children exit and stop before, during and after the shell's
bookkeeping; global signals (`loop_signal`), stacks (locals, positional
parameters) and file descriptors must be restored on every path out of nested
constructs; stdio's buffer is copied by every fork; tables have fixed sizes.

What makes each part correct, in the order of importance:

1. jobs and signals: no report of a child is lost; a foreground pipeline's
   status is its last stage's; the table shows what the children do; the mask
   and the foreground group are right on every path; the prompt comes back.
2. control flow: `break n` and `continue n` reach the loops they are for and no
   other, through any nesting, and nothing stays pending.
3. scopes: every call sees its own variables and parameters, and a return
   restores the caller's.
4. streams: what is printed goes where stdout was, once; descriptors are put
   back; nobody holds the pipe end that would keep another from its end of file.
5. main loop and traps: every way out runs the EXIT trap once and keeps the exit
   code; a line is lost only for a Ctrl+C.
6. text: what runs is what was written, item by item: four scanners cut a line,
   six more cut a block, and each has its own idea of quotes and nesting.
7. names: an alias or a function stands for its last definition, and what `type`
   says of a name is what runs.
8. history: the ring lists the last lines; a crash loses at most the line being
   recorded.

## 2. Plan

Done, in this order: `JobTable` and `JobControl`; `LoopControl` with `LoopNest`;
`FunctionScope` with `DynamicScope`; `HistoryRing` with `BoundedHistory`;
`StdStreams`; `Repl`; then the text: `Scanning`, `Words`, `Blocks`, `TestExpr`,
`NameTables` with `NameMap`, composed by `Session`. Proof modules: one for each of
`JobControl`, `LoopControl`, `FunctionScope`, `HistoryRing`, `Repl`, `StdStreams`,
`Session` and `TestExpr`. Every invariant that a run checks, but
`EachStatementAsWritten`, is a theorem now, and so are the refinements of the
abstract specifications.

To come:

* theorems that hold with less: `JobAccuracy` with `fg` and `bg` for the jobs they
  were not given, `StopRegistered` with pids that are used again after their job
  has left the table;
* `DescriptorsRestored` when forks may fail, for every process that did not meet
  the failure;
* properties for the three hazards that have none: `fg` and `bg` against the
  handler (now in deviations only), `waitpid` that fails in `command`, the rest of
  a chain after `break`;
* shorter proofs where two modules have lemmas on the same thing (first and last
  positions, lowest elements).

## 3. Modules and the code

Each module begins with what it models; variables carry the names of the C
variables where there is one. Definitions called "a mutant" change one mapped
definition the way a plausible slip would, and are used by nothing here: they
show that the property they are listed with in `PROJECT.json` can fail.

**JobTable** (`jobs.c`) has the table as a sequence of slots and the functions
on it as operators: `jobs_add` (first free slot, -1 when full), `SetState`
(`find_by_pgid` and the three `jobs_mark_*`), `jobs_cleanup_done`.

**JobControl** (`execute_pipeline`, `fg`, `bg`, `jobs`, `command`,
`sigchld_handler`) cuts the main program into one step per point at which the
handler, a child or the keyboard can act, with the label in `pc`:

| pc | code |
|---|---|
| `fork`, `setpgid` | the loop of `execute_pipeline` over the stages, fork and the parent's `setpgid` |
| `background` | `jobs_add` and the message of `&` |
| `setfg`, `wait`, `unblock`, `clearfg` | `set_foreground_pgid`, the `waitpid` loop, `unblock_sigchld`, `clear_foreground_pgid` |
| `bgmark`, `fgmark`, `fgset`, `fgcall`, `fgwait`, `fgclear` | `builtin_bg`, `builtin_fg` after `kill(SIGCONT)`, one label per write or call |
| `cmdcall`, `cmdwait` | `builtin_command` after its fork |

`sigchld_handler` may interrupt at every label while SIGCHLD is pending and not
blocked; then only the handler runs. The kernel is external: `proc` holds each
child's state, group and status; a blocked `waitpid` takes a status before the
handler can (`fgcall` is the window before the call, `fgwait` the call), as
Linux does. `status_to_exit_code` is as in the code; an uninitialised status is
any status.

**LoopControl** (`control_flow.c`, `execute_chain`, `builtin_break`) has the C
stack as a sequence of frames; a step starts a statement, runs a segment of a
chain, or ends an activation. The text of a script is arbitrary: each statement
is chosen when it is reached. `Constructs` limits which statements a run uses,
`Habits` which unusual uses of `break` it makes. Programs run atomically.

**LoopNest** is what break and continue promise: a nest of loops, of which
`break n` leaves n in one step. LoopControl maps to it by leaving out of the
nest the loops that a pending signal is still going to leave.

**FunctionScope** (`env.c`, `functions.c`, `run_for_block`, `local`, `set`,
`shift`, `export`, `unset`) has the one environment, the two stacks and the
saved values of for loops. **DynamicScope** is the promise: a scope per call,
lookup from the innermost outwards. A value that DynamicScope keeps in an outer
scope is, in the code, in the locals frame that shadowed it.

**HistoryRing** (`history.c`) has the ring of each shell with its modular
indices, the file that several shells share, sessions that load, type, save, are
killed at any point and start again. **BoundedHistory** is the list of the last
lines. `tie` is a history variable: it says how the memory of a shell and its
file are related (the whole end of the file, part of it, or not at all).

**StdStreams** (`executor.c`, `subst.c`) has the descriptors of the shell and of
every process it forks, `RedirectSave`, the pipes (`infile`, `outfile` and
`errfile` of a command are `files` for descriptors 0, 1 and 2), and stdio's buffer of stdout,
which a fork copies and a flush writes to wherever descriptor 1 then points.
A child sets up its descriptors before anything another process could notice, so
the fork and the set-up are one step.

**Repl** (`main.c`, `execute_chain`, the traps, `exit`, `exec`) has the chains
being executed as a stack: a line, an INT trap, an EXIT trap, a forked stage or
a substitution. A child is a frame with its copy of the traps, and the parent's
are kept beside it; the parent waits, so only one of them runs. Ctrl+C may come
between any two steps and reaches the shell and the substitutions it reads from.
What a program, a loop or a function does is a status (`run`).

**Scanning**, **Words**, **Blocks** and **TestExpr** are the functions on text.
A text is a sequence of `Symbols`: the characters that some scanner knows, `nl`,
and one symbol for each keyword and for a word of no interest. *Scanning* has what
the others share: positions, quotes, and the marks of `read_word` that two of
them know. *Words* goes from a line to the commands that run: `parse_chain`,
`tokenize`, `read_word`, `parse_line`, `env_expand`, `glob_expand`, with the marks
(`SQ_START`, `QUOTED_FIRST` and so on) that they leave in words for each other.
*Blocks* has the scanners of `control_flow.c`, which know keywords and quotes in
their own way and look for what closes a block, and `Tree`, which says what the
`run_*_block` functions make of it: clauses, patterns, words of a `for`, nested
statements. *TestExpr* is `builtin_test`; `Meaning` reads an expression as the
comments describe it, and `TestCommand` writes one down as the words of a command.
Words and Blocks have RECURSIVE operators; Scanning and TestExpr have none, so
that TestExpr can be proved about.

**NameTables** (`alias_set`, `alias_unset`, `alias_get`, `alias_expand_line`,
`store_function`, `function_is_defined`) has slots that are searched from the first
one, and may have holes; `Apply` and `ApplyAll` are an operation and several.
**NameMap** is the promise: a map with room for so many names, which is always what
the operations so far make of it in their order.

**Session** (`run_script_file`, `run_line`, `read_more_line_from_current_source`,
`run_function_definition`, `execute_chain`, `execute_pipeline`, `run_statements`
in a function, `alias`, `unalias`, `type`, `source`) is a script that is read
line by line. `frames` is the C stack of files, chains and function bodies,
`rest` the unread lines of every open file, `block` the block or function that
is being collected, `ran` a history variable: what ran or was defined, in order.
A block is cut here and run in LoopControl, so here it is one item of `ran` with
its `Tree`, and with either status. How a text is cut and parsed is left to
constant operators (`FirstOf`, `Segments`, `Pipeline`, `CloserIn`, `TreeIn` and so
on), to which `session.cfg` gives `FirstWord`, `parse_chain`, `parse_line`,
`CloseOf`, `Tree` and so on of Words and Blocks: the runs use the real scanners, and
the proofs hold for every scanner of which `GoodOn` is true, that is, whose
segments, pipelines and positions are such and lie in the text.

`MC*` modules extend these with sets for TLC. MCSession writes scripts down as
what they mean and renders them to text in several layouts. `*Proofs` modules
hold proofs.

## 4. Runs

Times are for two workers. Every property of a passing run has a mutant.

| run | module | what it shows | states |
|---|---|---|---|
| `job_control` | MCJobControl | three children; pipelines of up to two, `&`, `fg`, `bg`, `jobs`, `command`, Ctrl+C, Ctrl+Z, SIGCONT and failing forks: signal state, no lost SIGCHLD, stages held until waited for, the foreground status, stopped pipelines registered, done only after the leader is reaped | 900k |
| `job_liveness` | MCJobControl | two children, stops and kills from outside: the prompt comes back, zombies are reaped, one-process jobs are shown as they are | 36k |
| `job_fg_hangs` | MCJobControl | a violation: `fg` may wait for ever for a stopped job | |
| `loop_control` | MCLoopControl | every construct and habit: the depth counts the loops, every statement comes to an end | 1.1M |
| `loop_refinement` | MCLoopControl | without the habits, the interpreter implements LoopNest, and a pending signal is always inside the loops it is for | 330k |
| `loop_break_excess` | MCLoopControl | a violation: `break 2` in one loop stays pending | |
| `scope_control` | MCFunctionScope | all statements: frames match calls, and FunctionScope implements DynamicScope | 16k |
| `history_ring` | MCHistoryRing | two shells on one file, crashes, repeated lines, changes of HOME, failing writes: the ring implements BoundedHistory; what a crash leaves | 277k |
| `streams_terminal` | MCStdStreams | stdout a terminal; redirections in each other, builtins as stages, substitutions, exec: descriptors are restored and no superfluous pipe end is held | 141k |
| `streams_script` | MCStdStreams | stdout a file or pipe, so lines wait in buffers; forks and pipes that fail: lines go where they belong, once, and none is lost | 90k |
| `repl` | MCRepl | seven kinds of line, traps that exit and change traps, children, Ctrl+C at any point: a line is lost only for a Ctrl+C, the EXIT trap runs once, the exit code is kept, the prompt comes back | 133k |
| `session` | MCSession | 9,900 scripts: what runs is what was written, a block is read from the file it began in, `type` tells what runs, `test` has the status its comments give, the tables of names implement NameMap | 87k |

The bounds, and why they are enough:

* *JobControl.* Three pids (`PidSymmetry` in `job_control`; no symmetry where
  liveness is checked) give a two-stage pipeline beside another job, or three
  jobs in the table's three slots. The races are between one pipeline, one other
  job and the handler; a third stage adds a second stage that is not last.
  `MaxJobId` caps `next_job_id` by ending the input. A table smaller than the
  jobs, and pids that are used again, are deviations (section 6).
* *LoopControl.* Four frames hold two loops with something between them or a
  chain on top, `MaxLevel = 2` a `break 2` that leaves both; two iterations
  reach the cap; spans of two statements have a statement after the break. Lists
  with a raw word of two words and one of none are there.
* *FunctionScope.* Two names, one value beside the unset one, two nested calls
  and one more that is refused, a loop around, in and between them; one
  parameter and one local, so both arrays overflow.
* *HistoryRing.* A ring of two under a file of four lines fills and wraps twice;
  two shells interleave every step.
* *StdStreams.* Three processes are a pipeline with its shell, or a substitution
  in a stage; `MaxFd` leaves room for what one command and one pipe need, though
  not for the worst case of section 7 (`Roomy`), which begins at 18: the run
  passes with that as well. Two
  lines tell the order of a buffer. `Habits` switches off what the deviations
  below show to break the properties of a run.
* *Repl.* Three lines let a trap be set, changed and used; two Ctrl+C let one
  come while another is pending; five chains are a line, two children in each
  other, and the EXIT trap of the innermost.

* *Session.* A word is two pieces of every kind (plain, quoted, escaped,
  substituted, globbed) apart or beside each other, so every pair of scanner
  states meets; chains have three commands under every two operators; blocks of
  every kind hold lines whose quotes hide keywords, and each other, in three
  layouts; three statements define, use and remove names over tables of two
  slots, so they fill, have holes and refuse; `test` has every primary, negated
  and joined. A chain of four or a block of depth three meets no state of a
  scanner that these do not. `MaxCallDepth = 3` stops functions that call
  themselves. Deadlock is checked: only a script that has ended stutters.
  The run also evaluates what the proofs of section 7 suppose: `TextsAreGood`
  (`GoodOn` for some 10,000 short texts and for the lines of the scripts) and
  `TestScriptsAreRead` (`TestsAreRead`, for every script that tests).

`CHECK_DEADLOCK FALSE` is said where the system may stop: a shell that has
ended, children and lines that are used up.

## 5. Fairness

* `JobControl!Fairness`: weak fairness of the shell's own steps, of the handler
  and of each child's set-up and exit. The kernel runs runnable processes and
  delivers unblocked signals; that programs end is an assumption on them. What
  the user types and the keyboard have no fairness. `WF_vars(ShellStep)` does not
  assume that a `waitpid` returns: the step is enabled only when there is a
  status to return.
* `LoopControl!FairSpec`: the one thread goes on, and programs end. Iteration
  caps are what makes `PromptComesBack` true.
* `Repl!FairSpec`: the shell goes on when it has read a line. Lines and Ctrl+C
  have no fairness.

## 6. Where the code and what is said of it disagree

Each row is a configuration in this directory, or one with the change that the
row names, that TLC refutes; the property
states what a comment or document says. The first two are runs of
`PROJECT.json`, with a finding that quotes the text; the others are kept to be
rerun when the code changes. The runs of section 4 leave out what a row needs
(in the last column), because their properties do not hold with it.

| configuration | property | what happens | what it needs |
|---|---|---|---|
| `job_fg_hangs` | `FgReturns` | `fg` waits with SIGCHLD open; the handler takes the report of a Ctrl+Z before `waitpid` is called, which then blocks for ever (`builtins.c:149`; "like any foreground pipeline", 140-141) | `FgReturns` |
| `loop_break_excess` | `NothingPendingOutside` | `break 2` in one loop leaves a level pending, and later blocks are swallowed (`control_flow.c:758`; "matching POSIX", 19-21) | habit `excess` |
| `repl_script_status` | `ScriptStatusKept` | a script's status is that of its EXIT trap (`main.c:182`; 158-160) | `ScriptStatusKept` |
| `job_done_early` | `DoneMeansFinished` | `getpgid` is called after the child is reaped, so only the leader's exit marks a job, while other stages run (`signals.c:113`; 104-106) | two-stage jobs |
| `job_fg_stays_running` | `NothingRunning` | `fg` reaps a job and never marks it done; its slot is never freed (`builtins.c:148`; `include/acsh.h:161-163`) | `fg` |
| `job_bg_lost_done` | `NothingRunning` | `bg` writes Running over a Done that the handler wrote in between (`builtins.c:168`; `include/acsh.h:168`) | `bg` |
| `job_command_status` | `CommandStatus` | the handler reaps the child of `command`, and an uninitialised status is decoded (`builtins.c:440`; 369-371) | `command` |
| `job_table_full` | `StopRegistered` | a pipeline stopped when the table is full is in no slot (`executor.c:491`; 486-487) | fewer slots than jobs |
| `job_control` with `PidReuse = TRUE` and this one invariant | `StopRegistered` | a Done job still listed shadows a new one with the same pid (`jobs.c:31`) | `PidReuse` |
| `loop_until_break` | `NothingPendingOutside` | `break` in the condition of `until` ends the loop by its status and stays pending (`control_flow.c:729`; 22-25) | habit `condition` |
| `loop_chain_break` | `NoCommandWhilePending` | `break; echo x` runs the echo (`executor.c:518`; `control_flow.c:461-464`) | habit `after` |
| `loop_for_continue` | `ContinueSkipsNothing` | `continue` in `for i in $LIST` drops the rest of LIST (`control_flow.c:1018`; 968-971) | a raw word of two words |
| `scope_for_local` | `NothingLeaks` | `for x ...; do local x; done` in a function leaves x set after the return (`control_flow.c:1045`; `env.c:74-76`) | `LocalInLoop` |
| `scope_long_name` | `NothingLeaks` | `local` of a name of more than 63 characters restores another variable (`env.c:136`; 73) | `LongNames` |
| `history_repeats` | `NoRepeats` | a repeated line is not pushed but written to the file, so the next session has it twice (`main.c:56`; `include/acsh.h:458-459`) | habit `repeat` |
| `streams_script` with `MaxProcs = 3`, `Redirections <- Few`, `Habits = {"subst"}` and this one invariant | `WrittenWhereItBelongs` | a substitution inherits unwritten lines and flushes them into its pipe (`subst.c:94`; `executor.c:107-111`) | habit `subst`, stdout not a terminal |
| `streams_script` with `MaxProcs = 3`, `Redirections <- Few`, `Habits = {"stage"}` and this one invariant | `AtMostOnce` | a builtin as a stage writes the shell's unwritten lines a second time (`executor.c:397`; 389-391) | habit `stage`, stdout not a terminal |
| `streams_stdin_dup` | `DescriptorsRestored` | `0>&1` on a builtin replaces stdin for good (`executor.c:152`; 150-151) | `N>&M` with N = 0 |
| `streams_terminal` with `MaxFd = 4`, `MaxFrames = 2`, `Redirections <- Few` | `DescriptorsRestored` | when `dup` fails the stream is replaced and not put back (`executor.c:132`; 82-83) | `MaxFd` too small |
| `repl_line_lost` | `NoLineLost` | SA_RESTART makes `fgets` go on after Ctrl+C: the line dropped as "stale/empty" is the next one typed (`main.c:216`) | an INT trap and a Ctrl+C |
| `repl` with `ExitLines <- ExitingCommands` and this one invariant | `ExitTrapOnce` | the EXIT trap is not cleared, so `exit` in it runs it again, without end (`signals.c:66`; `include/acsh.h:205`) | `exit` in an EXIT trap |
| `session` with habit `quoted glob` | `EachStatementAsWritten` | the marks of quotes are gone before the glob runs, so `'*'` and `"*"` match files (`env.c:305`; `glob.c:16-18`) | the habit |
| `session` with `escaped operator` | the same | `\|` by itself is a word that is taken for the operator (`parser.c`, `tokenize`) | the habit |
| `session` with `quote in substitution in quotes` | the same | `"$(e "a;")"` is cut at the `;` by `parse_chain`, whose quote ended early | the habit |
| `session` with `keyword as argument` | the same | `echo done` in a block closes it: a keyword is one wherever it stands | the habit |
| `session` with `quote inside a word` | the same | the block scanners pass over a word whole, quotes in it included, and meet `fi` in `a"b fi c"` | the habit |
| `session` with `indented block` | the same | an indented block is recognised, and its keyword then not found ("buf now starts with "if"", `control_flow.c:1398`) | the habit |
| `session` with `text behind a block` | the same | `fi; true` drops the `; true` (`control_flow.c:569`) | the habit |

These were found while the text was modelled, and confirmed with the built
program; the scripts of MCSession do not have them:

* a comment is known to `tokenize` only: `echo a # b ; c` runs `c`, and an
  apostrophe in a comment opens a quote for every other scanner;
* a plain statement followed by a block on the same line of a body is one line;
  `case case in` and the pattern `case)` are taken for a nested case;
* `eval 'if ...'` goes to `execute_chain`, which has no keywords
  (`builtins.c:466-473` says "even control-flow keywords");
* an alias whose value has a `;` passes it on as text, because lines are cut
  before aliases are expanded;
* `>&2` writes to the file `&`; `\$x` outside quotes is expanded; `\;`, `\'` and
  an odd `\"` are not known to `parse_chain`; `$( (a;b) ; c)` is cut;
* after `false`, `x='$(a)'` leaves `$?` as it was, because the raw text has a
  `$(` (`executor.c:260`);
* `type cd` says function where `cd > f` runs the builtin (`builtins.c:327-332`;
  `executor.c:289-305`): `TypeTellsTruth` is about a bare name;
* `> f` without a command compares a null name when a function is defined
  (`executor.c:289`);
* `test x -a y -o z w` is 0: arguments behind an expression are ignored.

Two more that no property states, because nothing is said of them: a segment
that does not parse leaves `$?` as it was (`executor.c:539`; `Bad` in Repl), and
`command` hangs when its child is stopped (`builtins.c:440`).

## 7. Proofs

The theorems are of the form `Spec => []Inv` or a refinement, and one is about an
operator (`TestCorrect`), for every value of
the constants that the named ASSUME of the module allows; TLC checks those ASSUMEs
on every run. Where a theorem needs more, its hypotheses are named and stand in
the theorem. Each is satisfied by a run that checks the property. What a
hypothesis excludes the code can do; the last column has the row of section 6, or
the hazard, that shows what goes wrong then.

| theorem | hypothesis | run that has it | what goes wrong without it |
|---|---|---|---|
| `DoneMeansLeaderReapedCorrect`, `StopRegisteredCorrect`, `JobAccuracyCorrect` | no pid is handed out twice (`~PidReuse`) | `job_control`, `job_liveness` | `job_control` with `PidReuse` |
| `StopRegisteredCorrect` | its conclusion allows `FullOfOthers`, a table full of other jobs | `job_control` (never full) | `job_table_full` |
| `JobAccuracyCorrect` | `NeverContinued`: no `fg`, `bg`, SIGCONT | `job_liveness` | `job_bg_lost_done`, `job_fg_stays_running` |
| `LevelsCorrect` | no habits `excess`, `condition` | `loop_refinement` | `loop_break_excess`, `loop_until_break` |
| `NestIsRefined` | `PlainScripts`: no habits, and no two equal raw words in a list | `loop_refinement` | `loop_for_continue`, `loop_chain_break` |
| `ScopesRefinedCorrect` | `ShortNames` | `scope_control` | `scope_long_name` |
| `ExitTrapOnceCorrect`, `ExitCodeKeptCorrect` | `ExitLinesQuiet`: no EXIT trap exits | `repl` | `repl` with `ExitingCommands` |
| `WrittenWhereItBelongsCorrect`, `AtMostOnceCorrect`, `NothingLostCorrect` | `Unshared`: stdout a terminal, or no habits `stage`, `subst` | `streams_script` | `streams_script` with these habits |
| `NothingLostCorrect` | `Flushed`: stdout a terminal, or no habit `exec` | `streams_script` | the hazard at `builtins.c:450` |
| `OwnPipesClosedCorrect`, `DescriptorsRestoredCorrect`, `RoomIsEnough` | `NoFailure`: forks succeed | `streams_terminal` | the hazard at `executor.c:344` |
| `DescriptorsRestoredCorrect` | `NoInputDup`: no `0>&M` | `streams_terminal` | `streams_stdin_dup` |
| `OwnPipesClosedCorrect`, `DescriptorsRestoredCorrect` | `[]PipesFit`, `[]SavesFit`: a pipe and a copy find a free descriptor | `streams_terminal` | `streams_terminal` with `MaxFd = 4` |
| the five theorems of Session | `GoodOn(Texts, Environments)`: cutting and parsing give texts, segments, pipelines, and positions in the text | `session` (`TextsAreGood`, a finite sample of the texts) | nothing known: it says what the scanners return, not what they should |
| `TestAsDocumentedCorrect` | `TestsAreRead`: each script that tests is one line that parses to the words of its expression | `session` (`TestScriptsAreRead`, all of its scripts) | a script that tests nothing |
| `TestCorrect` | `IsExpression`: no operand is `==`, and a string or a left operand is no operator that stands in front | `session` | `test "=" = "=="` is true, because the code writes `=` for every word `==` |

* **JobControlProofs.** The type invariant is strengthened
  with `PipelineShape`: at which labels a pipeline has how many pids.
  `NoLostSigchld` is inductive by itself over the types: whatever makes a child
  reportable raises SIGCHLD, only entering the handler clears it, and the handler
  returns only when nothing is left to report. `StagesHeld` needs `StagesInv`,
  which says of each stage of the pipeline being built that it is unreaped, that
  the group it will move itself to is the pipeline's, and that it is in it once
  the shell's `setpgid` has run. With SIGCHLD blocked the handler cannot reap,
  so the group keeps its first process until the last stage has joined: the
  comment at `executor.c:321-336` as a theorem.

  `ForegroundStatusCorrect` (whatever pids are reused) says that `$?` is the last
  stage's. The wait loop asks for the group, so this needs that nobody else is in
  it (`Groups`: every child is in the group it was forked for; `OwnGroup`: that of
  a pipeline holds its stages only), that the loop's counter is the number of
  stages still unreaped, the code that of the last stage once it is reaped
  (`Counted`, `Awaited`), and that with SIGCHLD blocked only the loop reaps.
  `DoneMeansLeaderReapedCorrect` is inductive over the types and `StagesInv`: only
  the handler writes Done, after it has reaped the leader, and a pid that was
  reaped is not forked again.
  `StopRegisteredCorrect` rests on `TableInv`: one entry per group, each owned by
  the processes that the pipeline forked, and no entry yet for the pipeline under
  way; so `jobs_add` of a stopped pipeline, and the search by group in
  `jobs_mark_stopped`, reach the same slot.
  `JobAccuracyCorrect` adds `Accurate`: outside of `fg` and `bg` the state of a job
  differs from its process only by a report not yet taken.
* **LoopControlProofs.** Each step has one of seven effects on the set of loops, the
  depth and the signal (`Effect`); `NestingCorrect`, `SignalCorrect` and
  `LevelsCorrect` are preserved by each effect.
  `NestIsRefined`: LoopControl implements LoopNest. The k-th
  loop of the nest is the k-th loop on the stack (`Nth`, `Rank`, with the lemma that
  each undoes the other), without those that a pending signal will leave;
  each action is shown to push, pop or move one loop or none
  (`NestEffect`), and then each effect is a step of LoopNest or a stutter. The
  strengthening is `PendingInBodies`: with a signal pending every loop is in its
  body, never in a condition, so the loops to leave are the innermost ones; and
  `Shapes`, what a frame of each kind has at each phase.
* **FunctionScopeProofs.** Neither `TypeOK` nor `FramesMatchCalls` is
  inductive alone: a return is well typed only if its frame is there, which
  `FramesMatchCalls` says, and that needs the types. That a return restores
  stored values needs the last entry of a name to exist, `LastPosition`, which
  comes from the well-foundedness of finite sets under strict inclusion.
  `ScopesRefinedCorrect` is the refinement of DynamicScope. The value that the k-th
  scope holds of a name is the environment's, or that saved in the first frame
  further in which declares the name (`ScopeAt`); a return takes one frame away,
  so for each name either this frame was the first, and the value it puts back is
  the one the scope had, or it was not, and nothing changes. It needs `Distinct`:
  no frame has a name twice, which the search of `env_declare_local` guarantees only
  for names that it stores whole.
* **HistoryRingProofs.** `RingIsListCorrect` is the refinement of BoundedHistory, from two
  lemmas on what a push does to the listed sequence before and after the ring is
  full, with the arithmetic of the modular indices. `Ready` adds that a shell in
  `save` has a last line. `SurvivesCrashCorrect` and `AllInFileCorrect` have no
  hypotheses: with any number of shells, crashes and failing writes, a
  shell's memory and the file it has read and written are related as `tie` says.
  The strengthening `TiedInv` says this for every label: while loading, the ring
  is the end of what was read so far; when idle, the listed lines end the file or
  are some of its lines in order; between the push and the write the typed line
  does not count; and a write of another shell takes away that they end it.
* **ReplProofs.** Each step is first described by what it does to the stack of
  chains (`Cut`): it cuts the stack to some length and moves the new top on, puts
  one chain on it, or ends the shell. `Nested` is the strengthening: a line or an
  INT trap is outermost, a child has a parent, and a chain under another still has
  the segment that the other belongs to, so a return always finds where to go on.
  `LostForACtrlCCorrect`: each step keeps the pending flag and the counts, drops
  a line and clears the flag, or counts a Ctrl+C; with a child on the stack the flag
  is that of the traps kept by the first one (`ShellOf`).
  `ExitTrapOnceCorrect` and `ExitCodeKeptCorrect` are about the shell among
  its children: `OneExit` says that an EXIT trap of its own is that of its only
  exit, with the code of that exit, and that nothing but its children runs above it.
* **StdStreamsProofs.** `Sound` is what everything rests on: in every process 0, 1
  and 2 are open, and the copies that redirected commands keep are open, above 2,
  one per stream, and shared with no other frame nor with the end of a pipe. So
  `dup2` onto a standard descriptor never closes a copy. `InOrder` and `Shapes` add
  which processes exist and what they hold at each label.
  `WrittenWhereItBelongsCorrect`, `AtMostOnceCorrect` and `NothingLostCorrect`
  follow from `Buffered` (each line was written once where it belongs or not yet, and
  those in the shell's buffer belong where its descriptor 1 points) and `Pending`
  (what is not written is in the buffer of a shell that still runs), whatever pipes, redirections and
  forks fail. `OwnPipesClosedCorrect` follows from `PipesOwned`: who has which
  end of a pipe while its stages are forked. `DescriptorsRestoredCorrect` is
  `Unwinds`: from the descriptors a process has now, undoing its frames from
  the innermost outwards leads to those it began with; a command adds a step that
  its `redirect_restore` undoes (`RedirectionsUndoable`, `RestoreUndoes`).
  The last two assume that descriptors do not run out. `RoomIsEnough` says when:
  every open descriptor of a process is one it inherited, a saved copy or a read
  end (`Accounted`), so a process adds at most `Share = 3 * MaxFrames + 1` to those
  of its parent, and `MaxFd >= MaxProcs * Share + 6` is enough (`Roomy`).
  `StreamsKept` puts these together, without a hypothesis about behaviours.

* **SessionProofs.** `TypeCorrect` and `ReadsOwnFileCorrect` rest on `Stacked`:
  the stack has one loop for each open file, the innermost file's loop is the last
  of them, and each gives back to the file below it; so however files, chains
  and functions are nested, `current_input_source` is the innermost file whenever a
  line of a block is read. `TypeTellsTruthCorrect` compares the search of
  `builtin_type` (`builtins.c:340-361`) with that of `execute_pipeline` case by case, behind the expansion
  of aliases.
  `NamesRefinedCorrect`: each table implements NameMap over whole sessions. One
  half is about the operations, on every table that they can make, of any
  size and over any names: a store is `With` of NameMap and a removal
  `Without`. The strengthening is `NamesApart`, no name in two slots, which a
  store keeps because it looks for the name before it looks for room. That a table
  has a free slot exactly when its map has room needs a bijection from the used
  slots to the defined names (`RoomIsFreeSlot`); that the search finds the least
  such slot comes from well-foundedness (`FirstIsLeast`). The other half is
  `Recorded`: what a step does to a table is what the item that it appends to `ran`
  asks for, and a step that appends none leaves both tables alone.
  `TestAsDocumentedCorrect` takes such a script through five stages (`Unread`,
  `LineIsRead`, `CommandRan`, `ChainIsOver`, `FileIsOver`) and uses `TestCorrect` for
  the command.
* **TestExprProofs.** `TestCorrect`: `builtin_test` gives every expression, with
  any number of `!`s before its terms, the status that `Meaning` has for it. The
  words of the expression are located in `argv` (`WordsOf`, `TermWords`), the parser
  is followed over them (`TermEvaluates`), and the `!`s, over which the evaluator is
  a recursive function, are taken by induction on the position (`BehindNots`). The
  induction is that of well-founded sets, on the set of the positions for which the
  claim holds (`HasLeast`, `Upwards`), because the library's takes an operator.

What the proofs found in the model of Session, and changed: the words of
`x=a alias g=h` were not shifted past the assignment before `alias` took them, as
`execute_pipeline` does; and `CASE`s had arms that overlap, which TLC takes in their
order and a proof cannot.

Model-checked only: all liveness (TLAPS has no ENABLED), and
`EachStatementAsWritten`, because what Words and Blocks make of a text is recursion
over data, which these provers cannot reach. The text is also where section 6 has
most of its rows. `SignalCorrect` (a pending signal has a
level) is no property of a run: the other invariants of LoopControl rest on it.

## 8. Not modelled

* Limits on lengths and counts in the text (`ACSH_MAX_LINE`, `_ARGS`, `_CMDS`,
  `_CHAIN`, alias values cut at 255 characters); the reading of directories
  (which files a pattern matches is a constant). `builtin_test` copies at most 64
  words, but a command has at most 63.
* Numerals beyond `long` in `test`: `atol` is modelled on unbounded integers.
* Memory: the text of a function's body that is freed while it runs
  (`functions.c:226`, 102) and a pointer kept over `realloc`
  (`functions.c:171-185`). A file that sources itself (`main.c:112`) has no
  bound but the stack's.
* `exec` without a flush (`builtins.c:450`), what a failed `pipe` or `fork` leaves
  open in a pipeline (`executor.c:344`), the child of `command` that stops
  (`builtins.c:440`), and names of 64 and more characters other than in
  `scope_long_name` (`env.c:136`): listed as hazards.
* `cd`, `pwd`, `umask`, `read` and the text that any builtin prints.
* Failures of `malloc`; signals that end the shell.
* Interleaving of Repl with loops and functions: their control is in modules of
  their own, and what they share (`$?`, traps) is changed by the same steps.
* The controlling terminal: the code never calls `tcsetpgrp`, so the keyboard's
  signals go to the shell's group and are passed on, which is modelled.
