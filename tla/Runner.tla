------------------------------- MODULE Runner -------------------------------
(***************************************************************************)
(* The experiment harness, runner/src/main.rs.  For each experiment of a    *)
(* configuration it builds the application's libraries, creates a CodeQL    *)
(* database, runs the policy on it and compares what the policy prints with *)
(* the expected file, or writes that file.  The commands (cmake, codeql)    *)
(* and the file system are external: a command succeeds or fails, and the   *)
(* sources of the applications may change at any time.  A failed command,   *)
(* or a file that is not there, is a panic: the files stay as they are.     *)
(*                                                                         *)
(* An invocation has a results directory of its own (its name is the second *)
(* it started in), and no two run at once.                                 *)
(***************************************************************************)
EXTENDS Naturals, FiniteSets, Sequences

CONSTANTS
  Configs,         \* the [[experiment]] tables of a configuration, in order:
                   \* their applications; versions of it with as many tables
  Application,     \* the [application] tables: the number of libs of each
  Output,           \* what experiment i prints of an application's version v
  Nothing,         \* an empty file
  Absent,          \* no file, no database
  MaxVersion,      \* bound on the changes of the sources
  MaxInvocations   \* bound on the invocations

Size     == Len(CHOOSE c \in Configs : TRUE)
Ids      == 1 .. Size
Apps     == DOMAIN Application
Versions == 1 .. MaxVersion
Libs     == {l \in Apps \X (1 .. 9) : l[2] <= Application[l[1]]}

ASSUME ConfigAssumption ==
  /\ Size \in Nat /\ Configs \subseteq [Ids -> STRING]
  /\ Application \in [Apps -> 0 .. 9]
  /\ MaxVersion \in Nat \ {0} /\ MaxInvocations \in Nat
  /\ Nothing # Absent
  /\ \A i \in Ids, v \in Versions : Output[i][v] # Absent

VARIABLES
  \* What outlives an invocation.
  source,     \* the version of each application's sources
  built,      \* the version a library was last built from
  qdb,        \* the version a database was created from
  expected,   \* the expected file of each experiment
  \* The invocation.
  pc,         \* the next command
  args,       \* the configuration, create_expected and keep_intermediates
  cur,        \* the experiment being executed
  lib,        \* the library being built
  tmp,        \* the files of <results_dir>/tmp
  pos, len,   \* the progress bar
  failures,
  invocations,
  \* History, of the invocation.
  since,      \* the sources as they were when it started
  queried     \* the version each experiment ran its policy on

disk    == <<source, built, qdb, expected>>
bar     == <<pos, len>>
history == <<invocations, since, queried>>
vars    == <<disk, pc, args, cur, lib, tmp, bar, failures, history>>

Arguments == [config : Configs, create_expected : BOOLEAN, keep_intermediates : BOOLEAN]
Contents  == {Nothing} \cup {Output[i][v] : i \in Ids, v \in Versions}

TypeOK ==
  /\ source \in [Apps -> Versions]
  /\ built \in [Libs -> Versions \cup {Absent}]
  /\ qdb \in [Apps -> Versions \cup {Absent}]
  /\ expected \in [Ids -> Contents \cup {Absent}]
  /\ pc \in {"exit", "panic", "next", "lib", "database", "open", "query", "compare"}
  /\ args \in Arguments
  /\ cur \in 0 .. Size
  /\ lib \in Nat
  /\ tmp \in [Ids -> Contents \cup {Absent}]
  /\ pos \in Nat /\ len \in Nat
  /\ failures \in 0 .. cur
  /\ invocations \in 0 .. MaxInvocations
  /\ since \in [Apps -> Versions]
  /\ queried \in [Ids -> Versions \cup {Absent}]

Experiment == args.config
App        == Experiment[cur]
libs(a) == IF a \in Apps THEN Application[a] ELSE 0

\* Mutant of steps: the database is not counted.
stepsWithoutDatabase(a) == 1 + libs(a)

steps(a) == 2 + libs(a)

\* The steps of the first i runs; of all of them, for set_length.
StepsBefore(c) ==
  LET sum[i \in 0 .. Size] == IF i = 0 THEN 0 ELSE sum[i - 1] + steps(c[i]) IN sum
Total(c) == StepsBefore(c)[Size]

NoFiles == [i \in Ids |-> Absent]

Init ==
  /\ source = [a \in Apps |-> 1]
  /\ built = [l \in Libs |-> Absent]
  /\ qdb = [a \in Apps |-> Absent]
  /\ expected \in [Ids -> {Absent, Nothing}]
  /\ pc = "exit"
  /\ args \in {a \in Arguments : ~ a.create_expected /\ ~ a.keep_intermediates}
  /\ cur = 0 /\ lib = 1
  /\ tmp = NoFiles
  /\ pos = 0 /\ len = 0
  /\ failures = 0
  /\ invocations = 0
  /\ since = source
  /\ queried = NoFiles

-----------------------------------------------------------------------------
\* Someone works on an application.
Edit(a) ==
  /\ source[a] < MaxVersion
  /\ source' = [source EXCEPT ![a] = @ + 1]
  /\ UNCHANGED <<built, qdb, expected, pc, args, cur, lib, tmp, bar, failures, history>>

\* Mutant of Configured: each application is looked up when its turn comes.
ConfiguredLazily(c) == c[1] \in Apps

\* main up to set_length.  iter_runs panics on an application that is not in
\* the configuration, and every run is collected before the first is executed.
Configured(c) == \A i \in Ids : c[i] \in Apps

Start ==
  /\ pc \in {"exit", "panic"}
  /\ invocations < MaxInvocations
  /\ invocations' = invocations + 1
  /\ args' \in Arguments
  /\ tmp' = NoFiles
  /\ cur' = 0 /\ lib' = 1 /\ failures' = 0 /\ pos' = 0
  /\ since' = source
  /\ queried' = NoFiles
  /\ IF Configured(args'.config) THEN pc' = "next" /\ len' = Total(args'.config)
                                 ELSE pc' = "panic" /\ len' = 0
  /\ UNCHANGED disk

\* The loop of main: the next run, or the message and the exit.
NextRun ==
  /\ pc = "next"
  /\ IF cur = Size
       THEN pc' = "exit" /\ UNCHANGED <<cur, lib>>
       ELSE /\ cur' = cur + 1
            /\ lib' = 1
            /\ pc' = "lib"
  /\ UNCHANGED <<disk, args, tmp, bar, failures, history>>

\* A command that fails: run_command asserts its status.
Panic == pc' = "panic" /\ UNCHANGED <<args, cur, lib, bar, failures, history>>

\* build_lib, both cmake commands, for the libs in order.
BuildLib ==
  /\ pc = "lib"
  /\ lib <= libs(App)
  /\ \/ /\ built' = [built EXCEPT ![<<App, lib>>] = source[App]]
        /\ lib' = lib + 1
        /\ pos' = pos + 1
        /\ UNCHANGED <<pc, args, cur, len, failures, history>>
     \/ Panic /\ UNCHANGED built
  /\ UNCHANGED <<source, qdb, expected, tmp>>

LibsDone ==
  /\ pc = "lib"
  /\ lib > libs(App)
  /\ pc' = "database"
  /\ UNCHANGED <<disk, args, cur, lib, tmp, bar, failures, history>>

\* Mutant of BuildApplication: a database that is there is used again.
BuildApplicationOnce ==
  /\ pc = "database"
  /\ qdb' = IF qdb[App] = Absent THEN [qdb EXCEPT ![App] = source[App]] ELSE qdb
  /\ pc' = "open"
  /\ pos' = pos + 1
  /\ UNCHANGED <<args, cur, lib, len, failures, history>>
  /\ UNCHANGED <<source, built, expected, tmp>>

\* build_application: the build directory is removed and the database created
\* anew.  With --overwrite a failed creation may leave no database.
BuildApplication ==
  /\ pc = "database"
  /\ \/ /\ qdb' = [qdb EXCEPT ![App] = source[App]]
        /\ pc' = "open"
        /\ pos' = pos + 1
        /\ UNCHANGED <<args, cur, lib, len, failures, history>>
     \/ /\ qdb' \in {qdb, [qdb EXCEPT ![App] = Absent]}
        /\ Panic
  /\ UNCHANGED <<source, built, expected, tmp>>

\* The file that takes what the policy prints.
Write(content) ==
  IF args.create_expected
    THEN expected' = [expected EXCEPT ![cur] = content] /\ UNCHANGED tmp
    ELSE tmp' = [tmp EXCEPT ![cur] = content] /\ UNCHANGED expected

\* File::create empties the file before the command runs.
OpenOutput ==
  /\ pc = "open"
  /\ Write(Nothing)
  /\ pc' = "query"
  /\ UNCHANGED <<source, built, qdb, args, cur, lib, bar, failures, history>>

RunQuery ==
  /\ pc = "query"
  /\ \/ /\ Write(Output[cur][qdb[App]])
        /\ queried' = [queried EXCEPT ![cur] = qdb[App]]
        /\ IF args.create_expected
             THEN pc' = "next" /\ pos' = pos + 1
             ELSE pc' = "compare" /\ UNCHANGED pos
        /\ UNCHANGED <<args, cur, lib, len, failures, invocations, since>>
     \/ Panic /\ UNCHANGED <<expected, tmp>>
  /\ UNCHANGED <<source, built, qdb>>

\* Mutants of Compare: failures only says that there was one; a matching output
\* stays; a failure counts twice; the query is run again until it matches.
CompareFlag ==
  /\ pc = "compare"
  /\ pc' = "next"
  /\ pos' = pos + 1
  /\ IF expected[cur] # tmp[cur] THEN failures' = 1 ELSE UNCHANGED failures
  /\ UNCHANGED <<args, cur, lib, len, history, tmp, disk>>
CompareKeeps ==
  /\ pc = "compare"
  /\ pc' = "next"
  /\ pos' = pos + 1
  /\ IF expected[cur] # tmp[cur] THEN failures' = failures + 1 ELSE UNCHANGED failures
  /\ UNCHANGED <<args, cur, lib, len, history, tmp, disk>>
CompareTwice ==
  /\ pc = "compare"
  /\ pc' = "next"
  /\ pos' = pos + 1
  /\ IF expected[cur] # tmp[cur] THEN failures' = failures + 2 ELSE UNCHANGED failures
  /\ UNCHANGED <<args, cur, lib, len, history, tmp, disk>>
CompareRetries ==
  /\ pc = "compare"
  /\ IF expected[cur] # tmp[cur] THEN pc' = "open" /\ UNCHANGED pos
                                 ELSE pc' = "next" /\ pos' = pos + 1
  /\ UNCHANGED <<args, cur, lib, len, failures, history, tmp, disk>>

\* The rest of run_codeql: a mismatch is counted and its output kept.
Compare ==
  /\ pc = "compare"
  /\ IF expected[cur] = Absent THEN Panic /\ UNCHANGED tmp
     ELSE /\ pc' = "next"
          /\ pos' = pos + 1
          /\ IF expected[cur] # tmp[cur]
               THEN failures' = failures + 1 /\ UNCHANGED tmp
               ELSE /\ tmp' = IF args.keep_intermediates THEN tmp
                              ELSE [tmp EXCEPT ![cur] = Absent]
                    /\ UNCHANGED failures
          /\ UNCHANGED <<args, cur, lib, len, history>>
  /\ UNCHANGED disk

Execute ==
  NextRun \/ BuildLib \/ LibsDone \/ BuildApplication \/ OpenOutput \/ RunQuery \/ Compare

\* The harness is interrupted, or a file operation fails.
Interrupt ==
  /\ pc \notin {"exit", "panic"}
  /\ Panic
  /\ UNCHANGED <<disk, tmp>>

Next == Start \/ Execute \/ Interrupt \/ \E a \in Apps : Edit(a)

Spec == Init /\ [][Next]_vars

\* Commands end, and the harness is a sequential program.
FairSpec == Spec /\ WF_vars(Execute)

-----------------------------------------------------------------------------
Finished == pc = "exit" /\ invocations > 0

\* The verdict is right: an invocation that gets to its end has counted just
\* the experiments whose expected file is not what their policy prints of the
\* database it was given, one that a broken --create_expected emptied included.
\* One with --create_expected has replaced every expected file.
VerdictRight ==
  Finished =>
    LET wrong == {i \in Ids : Output[i][queried[i]] # expected[i]}
    IN  IF args.create_expected THEN wrong = {} ELSE failures = Cardinality(wrong)

\* The outputs left behind are those of the failures, for whoever looks at
\* them; with --keep_intermediates, those of all experiments so far (main.rs:27).
\* No more, and no fewer: not after a panic of an earlier invocation, and not
\* when this one panics in the middle of an experiment (main.rs:259), but that
\* the experiment it was at may have been counted already.
OutputsOfFailures ==
  ~ args.create_expected =>
    LET done == IF pc \in {"next", "exit"} THEN 1 .. cur ELSE 1 .. cur - 1
        left == {i \in done : tmp[i] # Absent}
    IN  IF args.keep_intermediates THEN left = done
        ELSE /\ \A i \in left : tmp[i] # expected[i]
             /\ \/ failures = Cardinality(left)
                \/ /\ pc = "panic" /\ failures = Cardinality(left) + 1
                   /\ tmp[cur] \notin {Absent, expected[cur]}

\* README: the database must be recreated on every code change, and a library
\* is built before the application that links it.  A policy never runs on a
\* database, nor on libraries, older than the sources the invocation met.
FreshDatabase ==
  /\ pc = "query" => qdb[App] \in Versions /\ qdb[App] >= since[App]
  /\ pc \in {"database", "open", "query"} =>
       \A l \in 1 .. Application[App] :
         built[<<App, l>>] \in Versions /\ built[<<App, l>>] >= since[App]

\* The bar is full when the work is done, and not before.
BarFull ==
  /\ pos <= len
  /\ pc = "exit" => pos = len
  /\ pos = len /\ pc \notin {"exit", "panic"} => pc = "next" /\ cur = Size

\* A configuration with an unknown application runs no command at all.
NothingOnBadConfig ==
  [][\A i \in Ids : Experiment[i] \in Apps]_<<built, qdb, expected>>

\* An invocation ends.
Terminates == pc # "exit" ~> pc \in {"exit", "panic"}
=============================================================================
