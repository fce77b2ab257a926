---------------------------- MODULE RunnerProofs ----------------------------
(***************************************************************************)
(* What an invocation of the harness runs on, what it counts and what it    *)
(* leaves behind, for any configurations, applications and outputs, and     *)
(* whatever is edited, fails or is interrupted meanwhile.                   *)
(***************************************************************************)
EXTENDS Runner, FiniteSetTheorems, WellFoundedInduction, TLAPS

\* The points within a run.
Inside == {"lib", "database", "open", "query", "compare"}

\* Types, but for the bar, whose length is the value of a recursive function.
Typed ==
  /\ source \in [Apps -> Versions] /\ since \in [Apps -> Versions]
  /\ built \in [Libs -> Versions \cup {Absent}]
  /\ qdb \in [Apps -> Versions \cup {Absent}]
  /\ DOMAIN expected = Ids /\ DOMAIN tmp = Ids /\ DOMAIN queried = Ids
  /\ pc \in {"exit", "panic", "next"} \cup Inside
  /\ args \in Arguments
  /\ cur \in 0 .. Size /\ (pc \in Inside => cur \in Ids)
  /\ lib \in Nat \ {0}

\* What runs has all its applications in the configuration.
Known == pc \notin {"exit", "panic"} => Configured(Experiment)

\* A run that is under way keeps its application and what it is for.
LEMMA AppKnown == ASSUME Typed, Known, pc \in Inside PROVE App \in Apps
BY DEF Typed, Known, Inside, Configured, App


\* Every variable but the bar keeps its type, and nothing runs under a
\* configuration with an application that is not there.
LEMMA TypesStay == Spec => [](Typed /\ Known)
<1>1. Init => Typed /\ Known
  BY ConfigAssumption DEF Init, Typed, Known, NoFiles, Versions, Arguments, Ids, Inside
<1>2. Typed /\ Known /\ [Next]_vars => (Typed /\ Known)'
  <2> SUFFICES ASSUME Typed, Known, [Next]_vars PROVE (Typed /\ Known)'
    OBVIOUS
  <2> USE DEF Inside
  <2>1. CASE Start
    BY <2>1, ConfigAssumption DEF Typed, Known, Start, disk, NoFiles, Experiment, Ids
  <2>2. CASE NextRun
    <3>1. cur # Size => cur + 1 \in Ids /\ cur + 1 \in 0 .. Size
      BY ConfigAssumption DEF Typed, Ids
    <3> QED BY <2>2, <3>1 DEF Typed, Known, NextRun, disk, bar, history, Experiment
  <2>3. CASE BuildLib
    <3>1. App \in Apps
      BY <2>3, AppKnown DEF BuildLib
    <3>2. built' \in [Libs -> Versions \cup {Absent}]
      BY <2>3, <3>1 DEF Typed, BuildLib, Panic
    <3> QED BY <2>3, <3>2 DEF Typed, Known, BuildLib, Panic, bar, history, Experiment
  <2>4. CASE LibsDone
    BY <2>4 DEF Typed, Known, LibsDone, disk, bar, history, Experiment
  <2>5. CASE BuildApplication
    <3>1. App \in Apps
      BY <2>5, AppKnown DEF BuildApplication
    <3>2. qdb' \in [Apps -> Versions \cup {Absent}]
      BY <2>5, <3>1 DEF Typed, BuildApplication, Panic
    <3> QED BY <2>5, <3>2 DEF Typed, Known, BuildApplication, Panic, bar, history, Experiment
  <2>6. CASE OpenOutput
    BY <2>6 DEF Typed, Known, OpenOutput, Write, bar, history, Experiment
  <2>7. CASE RunQuery
    BY <2>7 DEF Typed, Known, RunQuery, Write, Panic, bar, history, Experiment
  <2>8. CASE Compare
    BY <2>8 DEF Typed, Known, Compare, Panic, disk, bar, history, Experiment
  <2>9. CASE Interrupt
    BY <2>9 DEF Typed, Known, Interrupt, Panic, disk, bar, history, Experiment
  <2>10. ASSUME NEW a \in Apps, Edit(a) PROVE (Typed /\ Known)'
    <3>1. source' \in [Apps -> Versions]
      BY <2>10, ConfigAssumption DEF Typed, Edit, Versions
    <3> QED BY <2>10, <3>1 DEF Typed, Known, Edit, bar, history, Experiment
  <2>11. CASE UNCHANGED vars
    BY <2>11 DEF Typed, Known, vars, disk, bar, history, Experiment
  <2> QED
    BY <2>1, <2>2, <2>3, <2>4, <2>5, <2>6, <2>7, <2>8, <2>9, <2>10, <2>11 DEF Next, Execute
<1> QED BY <1>1, <1>2, PTL DEF Spec

\* A configuration with an unknown application runs no command: each command
\* that changes a file belongs to a run, and the runs are collected first.
THEOREM BadConfigRunsNothing == Spec => NothingOnBadConfig
<1> DEFINE AllKnown == \A i \in Ids : Experiment[i] \in Apps
<1>1. Typed /\ Known /\ [Next]_vars => [AllKnown]_<<built, qdb, expected>>
  <2> SUFFICES ASSUME Typed, Known, [Next]_vars, ~ UNCHANGED <<built, qdb, expected>>
               PROVE  AllKnown
    OBVIOUS
  <2>1. pc \in Inside
    BY DEF Next, Execute, Start, NextRun, BuildLib, LibsDone, BuildApplication, OpenOutput,
       RunQuery, Compare, Interrupt, Edit, Panic, vars, disk, Inside
  <2> QED BY <2>1 DEF Known, Configured, Inside
<1>2. Spec => [][AllKnown]_<<built, qdb, expected>>
  BY <1>1, TypesStay, PTL DEF Spec
<1> QED BY <1>2 DEF NothingOnBadConfig

-----------------------------------------------------------------------------
\* Sources only get newer; what a run has built and created so far is no older
\* than the sources were at the start.
FreshInv ==
  /\ \A a \in Apps : since[a] <= source[a]
  /\ pc \in {"open", "query", "compare"} => qdb[App] \in Versions /\ qdb[App] >= since[App]
  /\ pc \in Inside =>
       \A l \in 1 .. Application[App] :
         (pc = "lib" => l < lib) =>
           built[<<App, l>>] \in Versions /\ built[<<App, l>>] >= since[App]

LEMMA FreshStays == Spec => []FreshInv
<1>1. Init => FreshInv
  BY ConfigAssumption DEF Init, FreshInv, Inside, Versions
<1>2. Typed /\ Known /\ FreshInv /\ [Next]_vars => FreshInv'
  <2> SUFFICES ASSUME Typed, Known, FreshInv, [Next]_vars PROVE FreshInv'
    OBVIOUS
  <2> USE DEF Inside
  <2>0. Versions \subseteq Nat /\ \A a \in Apps : Application[a] \in 0 .. 9
    BY ConfigAssumption DEF Versions
  <2>1. CASE Start
    <3>1. since' = source /\ source' = source /\ pc' \in {"next", "panic"}
      BY <2>1 DEF Start, disk
    <3>2. \A a \in Apps : source[a] \in Nat
      BY <2>0 DEF Typed
    <3> QED BY <3>1, <3>2 DEF FreshInv
  <2>2. CASE NextRun
    <3>1. App' = Experiment[cur'] /\ (pc' = "lib" => cur' \in Ids)
      BY <2>2, ConfigAssumption DEF NextRun, App, Experiment, Typed, Ids
    <3>2. pc' = "lib" => App' \in Apps
      BY <3>1, <2>2 DEF NextRun, Known, Configured, Experiment
    <3> QED BY <2>2, <3>2, <2>0 DEF NextRun, disk, bar, history, FreshInv
  <2>3. CASE BuildLib
    <3>1. App \in Apps /\ App' = App
      BY <2>3, AppKnown DEF BuildLib, Panic, App, Experiment
    <3>2. CASE pc' = "panic"
      BY <2>3, <3>2 DEF BuildLib, Panic, FreshInv, history
    <3>3. CASE pc' # "panic"
      <4>1. /\ pc = "lib" /\ pc' = "lib" /\ lib <= Application[App]
            /\ built' = [built EXCEPT ![<<App, lib>>] = source[App]]
            /\ lib' = lib + 1 /\ UNCHANGED <<source, since>>
        BY <2>3, <3>1, <3>3 DEF BuildLib, Panic, history, libs
      <4>2. source[App] \in Versions /\ source[App] >= since[App]
        BY <3>1, <2>0 DEF Typed, FreshInv
      <4>3. <<App, lib>> \in Libs
        BY <4>1, <3>1, <2>0 DEF Libs, Typed
      <4>4. ASSUME NEW l \in 1 .. Application[App], l < lib'
            PROVE  built'[<<App, l>>] \in Versions /\ built'[<<App, l>>] >= since[App]
        <5>1. <<App, l>> \in Libs
          BY <4>4, <3>1, <2>0 DEF Libs
        <5>2. CASE l = lib
          BY <5>1, <5>2, <4>1, <4>2 DEF Typed
        <5>3. CASE l # lib
          <6>1. l < lib
            BY <5>3, <4>1, <4>4, <2>0, <3>1 DEF Typed
          <6>2. built'[<<App, l>>] = built[<<App, l>>]
            BY <5>1, <5>3, <4>1 DEF Typed
          <6> QED BY <6>1, <6>2, <4>1 DEF FreshInv
        <5> QED BY <5>2, <5>3
      <4> QED BY <4>1, <4>4, <3>1 DEF FreshInv
    <3> QED BY <3>2, <3>3
  <2>4. CASE LibsDone
    <3>1. App \in Apps /\ App' = App
      BY <2>4, AppKnown DEF LibsDone, App, Experiment
    <3>2. \A l \in 1 .. Application[App] : l < lib
      BY <2>4, <3>1, <2>0 DEF LibsDone, libs, Typed
    <3> QED BY <2>4, <3>1, <3>2 DEF LibsDone, disk, history, FreshInv
  <2>5. CASE BuildApplication
    <3>1. App \in Apps /\ App' = App
      BY <2>5, AppKnown DEF BuildApplication, Panic, App, Experiment
    <3>2. source[App] \in Versions /\ source[App] >= since[App]
      BY <3>1, <2>0 DEF Typed, FreshInv
    <3>3. CASE pc' = "panic"
      BY <2>5, <3>3 DEF BuildApplication, Panic, FreshInv, history
    <3>4. CASE pc' # "panic"
      <4>1. pc' = "open" /\ qdb'[App] = source[App] /\ UNCHANGED <<source, built, since>>
        BY <2>5, <3>1, <3>4 DEF BuildApplication, Panic, history, Typed
      <4> QED BY <4>1, <2>5, <3>1, <3>2 DEF BuildApplication, FreshInv
    <3> QED BY <3>3, <3>4
  <2>6. CASE OpenOutput
    BY <2>6 DEF OpenOutput, FreshInv, history, App, Experiment
  <2>7. CASE RunQuery
    BY <2>7 DEF RunQuery, Panic, FreshInv, history, App, Experiment
  <2>8. CASE Compare
    BY <2>8 DEF Compare, Panic, FreshInv, disk, history, App, Experiment
  <2>9. CASE Interrupt
    BY <2>9 DEF Interrupt, Panic, FreshInv, disk, history
  <2>10. ASSUME NEW a \in Apps, Edit(a) PROVE FreshInv'
    <3>1. \A b \in Apps : source[b] \in Nat /\ since[b] \in Nat
      BY <2>0 DEF Typed
    <3>2. \A b \in Apps : since[b] <= source'[b]
      <4>1. source' = [source EXCEPT ![a] = source[a] + 1] /\ since' = since
        BY <2>10 DEF Edit, history
      <4> QED BY <4>1, <3>1 DEF FreshInv, Typed
    <3> QED BY <2>10, <3>2, <2>0 DEF Edit, FreshInv, history, App, Experiment
  <2>11. CASE UNCHANGED vars
    BY <2>11 DEF vars, disk, history, FreshInv, App, Experiment
  <2> QED
    BY <2>1, <2>2, <2>3, <2>4, <2>5, <2>6, <2>7, <2>8, <2>9, <2>10, <2>11 DEF Next, Execute
<1> QED BY <1>1, <1>2, TypesStay, PTL DEF Spec

\* No policy runs on a database, or on libraries, of sources older than those
\* the invocation met, whatever databases and libraries were there before.
THEOREM DatabasesAreFresh == Spec => []FreshDatabase
<1>1. Typed /\ Known /\ FreshInv => FreshDatabase
  BY AppKnown DEF FreshInv, FreshDatabase, Inside
<1> QED BY <1>1, FreshStays, TypesStay, PTL

-----------------------------------------------------------------------------
\* The experiments that are dealt with, and those of them that failed.
Done  == IF pc \in {"next", "exit"} THEN cur ELSE cur - 1
Wrong == {i \in 1 .. Done : Output[i][queried[i]] # expected[i]}

\* What the experiments before the current one have left: the version they
\* were queried on, with --create_expected the expected file, otherwise one
\* failure for each mismatch and the outputs to be kept, and no others.
Queried == \A i \in 1 .. Done : queried[i] \in Versions
Created == \A i \in 1 .. Done : expected[i] = Output[i][queried[i]]
Left    == \A i \in Ids :
             IF i \in 1 .. Done
               THEN tmp[i] = IF args.keep_intermediates \/ i \in Wrong
                             THEN Output[i][queried[i]] ELSE Absent
               ELSE i # cur => tmp[i] = Absent
Judged  == failures = Cardinality(Wrong) /\ Left

VerdictInv ==
  pc # "panic" =>
    /\ pc = "exit" => cur = Size \/ invocations = 0
    /\ Queried
    /\ IF args.create_expected THEN Created ELSE Judged
    /\ pc = "compare" => /\ ~ args.create_expected
                         /\ queried[cur] \in Versions
                         /\ tmp[cur] = Output[cur][queried[cur]]
    /\ pc \in {"lib", "database", "open"} /\ ~ args.create_expected => tmp[cur] = Absent

\* An action that deals with no experiment and touches no file of another one.
LEMMA SameVerdict ==
  ASSUME Typed, Typed', VerdictInv, pc # "panic", Done' = Done,
         UNCHANGED <<args, failures, invocations>>,
         \A i \in Ids : i \in 1 .. Done \/ i # cur' =>
           queried'[i] = queried[i] /\ expected'[i] = expected[i],
         \A i \in Ids : i \in 1 .. Done => tmp'[i] = tmp[i],
         \A i \in Ids : i \notin 1 .. Done /\ i # cur' => i # cur /\ tmp'[i] = tmp[i]
  PROVE  Queried' /\ (IF args.create_expected THEN Created ELSE Judged)'
<1>1. \A i \in 1 .. Done : i \in Ids
  BY ConfigAssumption DEF Done, Typed, Ids, Inside
<1>2. Wrong' = Wrong
  BY <1>1 DEF Wrong
<1>3. Queried' /\ (args.create_expected => Created')
  BY <1>1 DEF VerdictInv, Queried, Created
<1>4. ~ args.create_expected => Judged'
  BY <1>1, <1>2 DEF VerdictInv, Judged, Left
<1> QED BY <1>3, <1>4

LEMMA WrongCounted ==
  ASSUME Typed, pc # "panic" PROVE IsFiniteSet(Wrong) /\ Cardinality(Wrong) \in Nat
<1>1. Done \in Int
  BY ConfigAssumption DEF Done, Typed, Ids
<1>2. IsFiniteSet(1 .. Done)
  BY <1>1, FS_Interval
<1>3. IsFiniteSet(Wrong)
  BY <1>2, FS_Subset DEF Wrong
<1> QED BY <1>3, FS_CardinalityType

\* The step to the next experiment, or to the end.
LEMMA NextRunJudged ==
  ASSUME Typed, VerdictInv, NextRun PROVE VerdictInv'
<1>1. Done = cur /\ Done' = cur /\ cur \in 0 .. Size /\ 1 .. cur \subseteq Ids
  BY ConfigAssumption DEF NextRun, Done, Typed, Ids
<1>2. UNCHANGED <<expected, args, tmp, failures, invocations, queried>>
  BY DEF NextRun, disk, history
<1>3. Wrong' = Wrong
  BY <1>1, <1>2 DEF Wrong
<1>4. Queried' /\ (args.create_expected => Created')
  BY <1>1, <1>2 DEF NextRun, VerdictInv, Queried, Created
<1>5. ~ args.create_expected => \A i \in Ids : i \notin 1 .. cur => tmp[i] = Absent
  <2>1. \A i \in Ids : i \notin 1 .. cur => i # cur
    BY ConfigAssumption DEF Typed, Ids
  <2> QED BY <1>1, <2>1 DEF NextRun, VerdictInv, Judged, Left
<1>6. ~ args.create_expected => Judged'
  BY <1>1, <1>2, <1>3, <1>5 DEF NextRun, VerdictInv, Judged, Left
<1>7. pc' = "lib" => cur' \in Ids /\ cur' \notin 1 .. cur
  BY ConfigAssumption DEF NextRun, Typed, Ids
<1>8. pc' = "exit" => cur' = Size
  BY DEF NextRun
<1> QED BY <1>2, <1>4, <1>5, <1>6, <1>7, <1>8 DEF NextRun, VerdictInv

\* The policy has printed what it prints of the database.
LEMMA QueryJudged ==
  ASSUME Typed, Known, Typed', FreshInv, VerdictInv, RunQuery PROVE VerdictInv'
<1>1. CASE pc' = "panic"
  BY <1>1 DEF VerdictInv
<1>2. CASE pc' # "panic"
  <2>1. /\ pc = "query" /\ Write(Output[cur][qdb[App]])
        /\ queried' = [queried EXCEPT ![cur] = qdb[App]]
        /\ UNCHANGED <<args, cur, failures, invocations>>
        /\ pc' = IF args.create_expected THEN "next" ELSE "compare"
    BY <1>2 DEF RunQuery, Panic
  <2>2. cur \in Ids /\ 1 .. cur \subseteq Ids /\ Done = cur - 1 /\ cur \notin 1 .. cur - 1
    BY <2>1, ConfigAssumption DEF Typed, Inside, Ids, Done
  <2>3. queried'[cur] = qdb[App] /\ qdb[App] \in Versions
    BY <2>1, <2>2 DEF Typed, FreshInv
  <2>4. \A i \in 1 .. cur - 1 : i \in Ids /\ queried'[i] = queried[i] /\ queried'[i] \in Versions
    BY <2>1, <2>2, ConfigAssumption DEF Typed, VerdictInv, Queried, Ids
  <2>5. CASE args.create_expected
    <3>1. Done' = cur /\ expected' = [expected EXCEPT ![cur] = Output[cur][qdb[App]]]
      BY <2>1, <2>5 DEF Done, Write
    <3>2. expected'[cur] = Output[cur][queried'[cur]]
      BY <3>1, <2>2, <2>3 DEF Typed
    <3>3. \A i \in 1 .. cur - 1 : expected'[i] = Output[i][queried'[i]]
      BY <3>1, <2>1, <2>2, <2>4, <2>5 DEF VerdictInv, Created, Typed
    <3>4. \A i \in 1 .. cur : i = cur \/ i \in 1 .. cur - 1
      BY <2>2, ConfigAssumption DEF Ids
    <3> QED BY <2>1, <2>3, <2>4, <2>5, <3>1, <3>2, <3>3, <3>4 DEF VerdictInv, Queried, Created
  <2>6. CASE ~ args.create_expected
    <3>1. Done' = Done /\ tmp' = [tmp EXCEPT ![cur] = Output[cur][qdb[App]]] /\ expected' = expected
      BY <2>1, <2>6 DEF Done, Write
    <3>2. tmp'[cur] = Output[cur][queried'[cur]]
      BY <3>1, <2>2, <2>3 DEF Typed
    <3>3. \A i \in Ids : i # cur => tmp'[i] = tmp[i]
      BY <3>1, <2>2 DEF Typed
    <3>4. Queried' /\ (IF args.create_expected THEN Created ELSE Judged)'
      BY <2>1, <2>2, <2>4, <3>1, <3>3, SameVerdict
    <3> QED BY <2>1, <2>3, <2>6, <3>2, <3>4 DEF VerdictInv
  <2> QED BY <2>5, <2>6
<1> QED BY <1>1, <1>2

\* A mismatch is counted and its output stays; a match is neither.
LEMMA CompareJudged ==
  ASSUME Typed, VerdictInv, Compare PROVE VerdictInv'
<1>1. CASE pc' = "panic"
  BY <1>1 DEF VerdictInv
<1>2. CASE pc' # "panic"
  <2>1. /\ pc = "compare" /\ pc' = "next"
        /\ UNCHANGED <<args, cur, expected, queried, invocations>>
        /\ IF expected[cur] # tmp[cur]
             THEN failures' = failures + 1 /\ UNCHANGED tmp
             ELSE /\ tmp' = IF args.keep_intermediates THEN tmp ELSE [tmp EXCEPT ![cur] = Absent]
                  /\ UNCHANGED failures
    BY <1>2 DEF Compare, Panic, disk, history
  <2>2. /\ ~ args.create_expected /\ queried[cur] \in Versions
        /\ tmp[cur] = Output[cur][queried[cur]] /\ Queried /\ Judged
    BY <2>1 DEF VerdictInv
  <2>3. /\ cur \in Ids /\ Done = cur - 1 /\ Done' = cur /\ cur \notin 1 .. cur - 1
        /\ 1 .. cur = (1 .. cur - 1) \cup {cur} /\ 1 .. cur \subseteq Ids
    BY <2>1, ConfigAssumption DEF Typed, Inside, Ids, Done
  <2>4. Wrong' = IF expected[cur] # tmp[cur] THEN Wrong \cup {cur} ELSE Wrong
    BY <2>1, <2>2, <2>3 DEF Wrong
  <2>5. cur \notin Wrong
    BY <2>3 DEF Wrong
  <2>6. failures' = Cardinality(Wrong')
    <3>1. IsFiniteSet(Wrong) /\ Cardinality(Wrong) \in Nat
      BY <2>1, WrongCounted
    <3>2. Cardinality(Wrong \cup {cur}) = Cardinality(Wrong) + 1
      BY <3>1, <2>5, FS_AddElement
    <3> QED BY <2>1, <2>2, <2>4, <3>2 DEF Judged
  <2>7. Left'
    <3> SUFFICES ASSUME NEW i \in Ids
                 PROVE  IF i \in 1 .. cur
                          THEN tmp'[i] = IF args.keep_intermediates \/ i \in Wrong'
                                         THEN Output[i][queried[i]] ELSE Absent
                          ELSE tmp'[i] = Absent
      BY <2>1, <2>3 DEF Left
    <3>1. CASE i = cur
      BY <3>1, <2>1, <2>2, <2>3, <2>4, <2>5 DEF Typed
    <3>2. CASE i # cur
      <4>1. tmp'[i] = tmp[i]
        BY <2>1, <3>2, <2>3 DEF Typed
      <4>2. i \in Wrong' <=> i \in Wrong
        BY <2>4, <3>2
      <4>3. i \in 1 .. cur <=> i \in 1 .. Done
        BY <2>3, <3>2
      <4> QED BY <4>1, <4>2, <4>3, <3>2, <2>2 DEF Judged, Left
    <3> QED BY <3>1, <3>2
  <2>8. Queried'
    BY <2>1, <2>2, <2>3 DEF Queried
  <2> QED BY <2>1, <2>2, <2>6, <2>7, <2>8 DEF VerdictInv, Judged
<1> QED BY <1>1, <1>2

LEMMA VerdictStays == Spec => []VerdictInv
<1>1. Init => VerdictInv
  <2> SUFFICES ASSUME Init PROVE VerdictInv
    OBVIOUS
  <2>1. Done = 0 /\ 1 .. Done = {} /\ Wrong = {} /\ failures = 0
    BY DEF Init, Done, Wrong
  <2>2. \A i \in Ids : tmp[i] = Absent
    BY DEF Init, NoFiles
  <2> QED BY <2>1, <2>2, FS_EmptySet DEF Init, VerdictInv, Queried, Created, Judged, Left
<1>2. Typed /\ Known /\ Typed' /\ FreshInv /\ VerdictInv /\ [Next]_vars => VerdictInv'
  <2> SUFFICES ASSUME Typed, Known, Typed', FreshInv, VerdictInv, [Next]_vars PROVE VerdictInv'
    OBVIOUS
  <2>1. CASE Start
    <3>1. CASE pc' = "panic"
      BY <3>1 DEF VerdictInv
    <3>2. CASE pc' # "panic"
      <4>1. pc' = "next" /\ cur' = 0 /\ failures' = 0 /\ tmp' = NoFiles
        BY <2>1, <3>2 DEF Start
      <4>2. Done' = 0 /\ (1 .. Done)' = {} /\ Wrong' = {}
        BY <4>1 DEF Done, Wrong
      <4>3. Judged' /\ Queried' /\ Created'
        BY <4>1, <4>2, FS_EmptySet DEF Judged, Left, Queried, Created, NoFiles
      <4> QED BY <4>1, <4>3 DEF VerdictInv
    <3> QED BY <3>1, <3>2
  <2>2. CASE NextRun
    BY <2>2, NextRunJudged
  <2>3. CASE BuildLib \/ LibsDone \/ BuildApplication
    <3>1. CASE pc' = "panic"
      BY <3>1 DEF VerdictInv
    <3>2. CASE pc' # "panic"
      <4>1. /\ pc \in {"lib", "database"} /\ pc' \in {"lib", "database", "open"}
            /\ UNCHANGED <<expected, tmp, args, cur, failures, invocations, queried>>
        BY <2>3, <3>2 DEF BuildLib, LibsDone, BuildApplication, Panic, disk, history
      <4>2. Done' = Done
        BY <4>1 DEF Done
      <4>3. Queried' /\ (IF args.create_expected THEN Created ELSE Judged)'
        BY <4>1, <4>2, SameVerdict
      <4> QED BY <4>1, <4>3 DEF VerdictInv
    <3> QED BY <3>1, <3>2
  <2>4. CASE OpenOutput
    <3>1. /\ pc = "open" /\ pc' = "query" /\ Write(Nothing)
          /\ UNCHANGED <<args, cur, failures, invocations, queried>>
      BY <2>4 DEF OpenOutput, history
    <3>2. cur \in Ids /\ Done = cur - 1 /\ Done' = Done /\ cur \notin 1 .. cur - 1
      BY <3>1, ConfigAssumption DEF Typed, Inside, Ids, Done
    <3>3. \A i \in Ids : i # cur => expected'[i] = expected[i] /\ tmp'[i] = tmp[i]
      BY <3>1 DEF Write, Typed
    <3>4. Queried' /\ (IF args.create_expected THEN Created ELSE Judged)'
      BY <3>1, <3>2, <3>3, SameVerdict
    <3> QED BY <3>1, <3>4 DEF VerdictInv
  <2>5. CASE RunQuery
    BY <2>5, QueryJudged
  <2>6. CASE Compare
    BY <2>6, CompareJudged
  <2>7. CASE Interrupt
    BY <2>7 DEF Interrupt, Panic, VerdictInv
  <2>8. CASE (\E a \in Apps : Edit(a)) \/ UNCHANGED vars
    <3>1. UNCHANGED <<expected, pc, args, cur, tmp, failures, invocations, queried>>
      BY <2>8 DEF Edit, vars, disk, history
    <3>2. Done' = Done
      BY <3>1 DEF Done
    <3>3. Wrong' = Wrong /\ (Queried <=> Queried') /\ (Created <=> Created')
      BY <3>1, <3>2 DEF Wrong, Queried, Created
    <3>4. Judged <=> Judged'
      BY <3>1, <3>2, <3>3 DEF Judged, Left
    <3> QED BY <3>1, <3>3, <3>4 DEF VerdictInv
  <2> QED BY <2>1, <2>2, <2>3, <2>4, <2>5, <2>6, <2>7, <2>8 DEF Next, Execute
<1> QED BY <1>1, <1>2, TypesStay, FreshStays, PTL DEF Spec

\* What an invocation that gets to its end has counted is the experiments whose
\* expected file is not what their policy prints of its database.
THEOREM VerdictIsRight == Spec => []VerdictRight
<1>1. Typed /\ VerdictInv => VerdictRight
  <2> SUFFICES ASSUME Typed, VerdictInv, Finished PROVE VerdictRight
    BY DEF VerdictRight
  <2>1. cur = Size /\ Done = Size /\ 1 .. Done = Ids
    BY ConfigAssumption DEF Finished, VerdictInv, Done, Ids, Typed
  <2>2. Wrong = {i \in Ids : Output[i][queried[i]] # expected[i]}
    BY <2>1 DEF Wrong
  <2> QED BY <2>1, <2>2 DEF Finished, VerdictInv, VerdictRight, Created, Judged
<1> QED BY <1>1, VerdictStays, TypesStay, PTL

\* The outputs, while the invocation has not panicked.
LEMMA OutputsAtWork ==
  ASSUME Typed, VerdictInv, pc # "panic" PROVE OutputsOfFailures
<1> SUFFICES ASSUME ~ args.create_expected
             PROVE  LET left == {i \in 1 .. Done : tmp[i] # Absent}
                    IN  IF args.keep_intermediates THEN left = 1 .. Done
                        ELSE /\ \A i \in left : tmp[i] # expected[i]
                             /\ failures = Cardinality(left)
  BY DEF OutputsOfFailures, Done
<1> DEFINE left == {i \in 1 .. Done : tmp[i] # Absent}
<1>1. 1 .. Done \subseteq Ids /\ Judged /\ Queried
  BY ConfigAssumption DEF Done, Typed, Ids, Inside, VerdictInv
<1>2. \A i \in 1 .. Done : Output[i][queried[i]] # Absent
  BY <1>1, ConfigAssumption DEF Queried
<1>3. args.keep_intermediates => left = 1 .. Done
  BY <1>1, <1>2 DEF Judged, Left
<1>4. ~ args.keep_intermediates => left = Wrong
  BY <1>1, <1>2 DEF Judged, Left, Wrong
<1>5. ~ args.keep_intermediates => \A i \in left : tmp[i] # expected[i]
  BY <1>1, <1>4 DEF Judged, Left, Wrong
<1> QED BY <1>1, <1>3, <1>4, <1>5 DEF Judged

\* A panic leaves them as they are.
LEMMA OutputsPanic ==
  ASSUME Typed, OutputsOfFailures, pc # "panic", pc' = "panic",
         UNCHANGED <<args, tmp, expected, cur, failures>>
  PROVE  OutputsOfFailures'
<1> SUFFICES ASSUME ~ args.create_expected PROVE OutputsOfFailures'
  BY DEF OutputsOfFailures
<1> DEFINE left == {i \in 1 .. cur - 1 : tmp[i] # Absent}
<1>1. CASE pc \notin {"next", "exit"}
  BY <1>1 DEF OutputsOfFailures
<1>2. CASE pc \in {"next", "exit"}
  <2> DEFINE all == {i \in 1 .. cur : tmp[i] # Absent}
  <2>1. cur \in 0 .. Size /\ Size \in Nat
    BY ConfigAssumption DEF Typed
  <2>2. /\ args.keep_intermediates => all = 1 .. cur
        /\ ~ args.keep_intermediates =>
              (\A i \in all : tmp[i] # expected[i]) /\ failures = Cardinality(all)
    BY <1>2 DEF OutputsOfFailures
  <2>3. left = all \ {cur} /\ cur \notin left
    BY <2>1
  <2>4. args.keep_intermediates => left = 1 .. cur - 1
    BY <2>1, <2>2, <2>3
  <2>5. ~ args.keep_intermediates => \A i \in left : tmp[i] # expected[i]
    BY <2>2, <2>3
  <2>6. ASSUME ~ args.keep_intermediates
        PROVE  \/ failures = Cardinality(left)
               \/ failures = Cardinality(left) + 1 /\ tmp[cur] \notin {Absent, expected[cur]}
    <3>1. CASE cur \notin all
      <4>1. left = all
        BY <2>3, <3>1
      <4> QED BY <2>2, <2>6, <4>1
    <3>2. CASE cur \in all
      <4>1. IsFiniteSet(1 .. cur - 1)
        BY <2>1, FS_Interval
      <4>2. IsFiniteSet(left)
        BY <4>1, FS_Subset
      <4>3. all = left \cup {cur}
        BY <2>3, <3>2
      <4>4. Cardinality(all) = Cardinality(left) + 1
        BY <2>3, <4>2, <4>3, FS_AddElement
      <4> QED BY <2>2, <2>6, <3>2, <4>4
    <3> QED BY <3>1, <3>2
  <2> QED BY <2>4, <2>5, <2>6 DEF OutputsOfFailures
<1> QED BY <1>1, <1>2

\* The outputs left behind are those of the failures, one for each, or with
\* --keep_intermediates those of all experiments so far, after a panic too.
THEOREM OutputsAreOfFailures == Spec => []OutputsOfFailures
<1>1. Typed /\ VerdictInv /\ Typed' /\ VerdictInv' /\ OutputsOfFailures /\ [Next]_vars
        => OutputsOfFailures'
  <2> SUFFICES ASSUME Typed, VerdictInv, Typed', VerdictInv', OutputsOfFailures, [Next]_vars
               PROVE  OutputsOfFailures'
    OBVIOUS
  <2>1. CASE pc' # "panic"
    <3>1. (Typed /\ VerdictInv /\ pc # "panic" => OutputsOfFailures)'
      BY OutputsAtWork, PTL
    <3> QED BY <2>1, <3>1
  <2>2. CASE pc' = "panic" /\ pc = "panic"
    <3>1. CASE Start
      <4>1. cur' = 0 /\ failures' = 0
        BY <3>1 DEF Start
      <4> QED BY <2>2, <4>1, FS_EmptySet DEF OutputsOfFailures
    <3>2. CASE UNCHANGED <<pc, args, tmp, expected, cur, failures>>
      BY <3>2 DEF OutputsOfFailures
    <3> QED BY <2>2, <3>1, <3>2
         DEF Next, Execute, NextRun, BuildLib, LibsDone, BuildApplication, OpenOutput, RunQuery,
             Compare, Interrupt, Edit, vars, disk
  <2>3. CASE pc' = "panic" /\ pc # "panic"
    <3>1. CASE Start
      <4>1. cur' = 0 /\ failures' = 0
        BY <3>1 DEF Start
      <4> QED BY <2>3, <4>1, FS_EmptySet DEF OutputsOfFailures
    <3>2. CASE UNCHANGED <<args, tmp, expected, cur, failures>>
      BY <2>3, <3>2, OutputsPanic
    <3> QED BY <2>3, <3>1, <3>2
         DEF Next, Execute, NextRun, BuildLib, LibsDone, BuildApplication, OpenOutput, RunQuery,
             Compare, Interrupt, Edit, Panic, vars, disk
  <2> QED BY <2>1, <2>2, <2>3
<1>2. Init => OutputsOfFailures
  <2> SUFFICES ASSUME Init PROVE OutputsOfFailures
    OBVIOUS
  <2>1. pc = "exit" /\ cur = 0 /\ failures = 0
    BY DEF Init
  <2> QED BY <2>1, FS_EmptySet DEF OutputsOfFailures
<1> QED BY <1>1, <1>2, VerdictStays, TypesStay, PTL DEF Spec

-----------------------------------------------------------------------------
(* The length of the bar is the value of a recursive function.  What such a *)
(* function is for every number of experiments follows by induction, which  *)
(* is here the fact that no number is the least without a property.         *)

LEMMA Least ==
  ASSUME NEW S, S \subseteq Nat, S # {}
  PROVE  \E n \in S : \A m \in S : n <= m
<1> DEFINE less == OpToRel(<, Nat)
<1>1. \A m, n \in Nat : m < n => <<m, n>> \in less
  BY DEF OpToRel
<1> HIDE DEF less
<1>2. IsWellFoundedOn(less, Nat)
  BY NatLessThanWellFounded DEF less
<1>3. PICK n \in S : \A m \in S : ~ (<<m, n>> \in less)
  BY <1>2, WFMin
<1>4. ASSUME NEW m \in S PROVE n <= m
  <2>1. m \in Nat /\ n \in Nat /\ ~ (m < n)
    BY <1>1, <1>3
  <2> QED BY <2>1
<1> QED BY <1>4

LEMMA Induct ==
  ASSUME NEW S, 0 \in S, \A n \in Nat : n \in S => n + 1 \in S
  PROVE  Nat \subseteq S
<1> SUFFICES ASSUME ~ (Nat \subseteq S) PROVE FALSE
  OBVIOUS
<1>1. PICK n \in Nat \ S : \A m \in Nat \ S : n <= m
  BY Least
<1>2. n # 0 /\ n - 1 \in Nat /\ n - 1 \in S
  BY <1>1
<1> QED BY <1>1, <1>2

\* Whatever names an experiment has, it takes at least two steps.
LEMMA StepsType == ASSUME NEW a PROVE steps(a) \in Nat /\ steps(a) >= 2 /\ steps(a) = 2 + libs(a)
BY ConfigAssumption DEF steps, libs

\* There is a function that satisfies the recursive definition.
LEMMA SumExists ==
  ASSUME NEW c
  PROVE  \E f : f = [i \in 0 .. Size |-> IF i = 0 THEN 0 ELSE f[i - 1] + steps(c[i])]
<1> DEFINE Sums(n) == {f \in [0 .. n -> Nat] :
                         f[0] = 0 /\ \A i \in 1 .. n : f[i] = f[i - 1] + steps(c[i])}
           S == {n \in Nat : Sums(n) # {}}
<1>1. 0 \in S
  <2> DEFINE f == [i \in 0 .. 0 |-> 0]
  <2>1. f \in [0 .. 0 -> Nat] /\ f[0] = 0 /\ \A i \in 1 .. 0 : f[i] = f[i - 1] + steps(c[i])
    OBVIOUS
  <2> QED BY <2>1
<1>2. ASSUME NEW n \in Nat, n \in S PROVE n + 1 \in S
  <2>1. PICK f \in Sums(n) : TRUE
    BY <1>2
  <2> DEFINE g == [i \in 0 .. n + 1 |-> IF i = n + 1 THEN f[n] + steps(c[n + 1]) ELSE f[i]]
  <2>2. \A i \in 0 .. n : f[i] \in Nat /\ g[i] = f[i] /\ i \in 0 .. n + 1
    BY <2>1
  <2>3. g[n + 1] = f[n] + steps(c[n + 1]) /\ g[n + 1] \in Nat
    BY <2>2, StepsType
  <2>4. g \in [0 .. n + 1 -> Nat]
    BY <2>2, <2>3
  <2>5. ASSUME NEW i \in 1 .. n + 1 PROVE g[i] = g[i - 1] + steps(c[i])
    <3>1. CASE i = n + 1
      BY <3>1, <2>2, <2>3
    <3>2. CASE i # n + 1
      <4>1. i \in 1 .. n /\ i \in 0 .. n /\ i - 1 \in 0 .. n
        BY <3>2
      <4>2. f[i] = f[i - 1] + steps(c[i])
        BY <2>1, <4>1
      <4> HIDE DEF g
      <4> QED BY <2>2, <4>1, <4>2
    <3> QED BY <3>1, <3>2
  <2>6. g[0] = 0
    BY <2>1, <2>2
  <2> HIDE DEF g
  <2>7. g \in Sums(n + 1)
    BY <2>4, <2>5, <2>6
  <2> HIDE DEF Sums
  <2> QED BY <2>7
<1> HIDE DEF S
<1>3. Nat \subseteq S
  BY <1>1, <1>2, Induct
<1>4. PICK f \in Sums(Size) : TRUE
  BY <1>3, ConfigAssumption DEF S
<1>5. \A i \in 0 .. Size : f[i] = IF i = 0 THEN 0 ELSE f[i - 1] + steps(c[i])
  BY <1>4, ConfigAssumption
<1>6. f = [i \in 0 .. Size |-> IF i = 0 THEN 0 ELSE f[i - 1] + steps(c[i])]
  BY <1>4, <1>5
<1> QED BY <1>6

\* What StepsBefore computes.
LEMMA StepsBeforeSums ==
  ASSUME NEW c
  PROVE  /\ StepsBefore(c) \in [0 .. Size -> Nat]
         /\ StepsBefore(c)[0] = 0
         /\ \A i \in Ids : StepsBefore(c)[i] = StepsBefore(c)[i - 1] + steps(c[i])
<1> DEFINE sum == StepsBefore(c)
<1>1. sum = [i \in 0 .. Size |-> IF i = 0 THEN 0 ELSE sum[i - 1] + steps(c[i])]
  BY SumExists DEF StepsBefore
<1> HIDE DEF sum
<1>2. sum[0] = 0 /\ \A i \in Ids : sum[i] = sum[i - 1] + steps(c[i])
  BY <1>1, ConfigAssumption DEF Ids
<1> DEFINE S == {n \in Nat : n <= Size => sum[n] \in Nat}
<1>3. 0 \in S
  BY <1>2
<1>4. ASSUME NEW n \in Nat, n \in S PROVE n + 1 \in S
  <2>1. n + 1 <= Size => sum[n] \in Nat /\ sum[n + 1] = sum[n] + steps(c[n + 1])
    BY <1>2, <1>4, ConfigAssumption DEF Ids
  <2> QED BY <2>1, StepsType
<1>5. Nat \subseteq S
  <2> HIDE DEF S
  <2> QED BY <1>3, <1>4, Induct
<1>6. \A i \in 0 .. Size : sum[i] \in Nat
  BY <1>5, ConfigAssumption
<1>7. sum \in [0 .. Size -> Nat]
  BY <1>1, <1>6
<1> QED BY <1>2, <1>7 DEF sum

\* The more runs, the more steps.
LEMMA StepsGrow ==
  ASSUME NEW c, NEW i \in 0 .. Size
  PROVE  StepsBefore(c)[i] <= Total(c) /\ Total(c) \in Nat /\ StepsBefore(c)[i] \in Nat
<1> DEFINE sum == StepsBefore(c)
           S == {n \in Nat : i + n <= Size => sum[i] <= sum[i + n]}
<1>1. sum \in [0 .. Size -> Nat] /\ \A j \in Ids : sum[j] = sum[j - 1] + steps(c[j])
  BY StepsBeforeSums
<1> HIDE DEF sum
<1>2. 0 \in S
  BY <1>1
<1>3. ASSUME NEW n \in Nat, n \in S PROVE n + 1 \in S
  <2> SUFFICES ASSUME i + n + 1 <= Size PROVE sum[i] <= sum[i + (n + 1)]
    OBVIOUS
  <2>1. i + (n + 1) \in Ids /\ (i + (n + 1)) - 1 = i + n /\ i + n \in 0 .. Size
    BY ConfigAssumption DEF Ids
  <2>2. sum[i + (n + 1)] = sum[i + n] + steps(c[i + (n + 1)])
    BY <1>1, <2>1
  <2>3. sum[i] <= sum[i + n] /\ sum[i] \in Nat /\ sum[i + n] \in Nat
    BY <1>1, <1>3, <2>1
  <2> QED BY <2>2, <2>3, StepsType
<1>4. Nat \subseteq S
  <2> HIDE DEF S
  <2> QED BY <1>2, <1>3, Induct
<1>5. Size - i \in Nat /\ i + (Size - i) = Size /\ Size \in 0 .. Size
  BY ConfigAssumption
<1>6. sum[i] <= sum[Size]
  <2>1. Size - i \in S
    BY <1>4, <1>5
  <2> QED BY <2>1, <1>5
<1> QED BY <1>1, <1>5, <1>6 DEF sum, Total

-----------------------------------------------------------------------------
(* The bar.                                                                 *)

\* The steps of the current run that are done.
InRun == CASE pc = "lib" -> lib - 1
           [] pc = "database" -> libs(App)
           [] pc \in {"open", "query", "compare"} -> libs(App) + 1

\* The bar stands at the runs before this one and what is done of this one;
\* a panic leaves it where it was.
BarInv ==
  /\ pos \in Nat /\ len \in Nat /\ pos <= len
  /\ pc \notin {"exit", "panic"} => len = Total(args.config)
  /\ pc = "exit" => pos = len
  /\ pc = "next" => pos = StepsBefore(args.config)[cur]
  /\ pc \in Inside => pos = StepsBefore(args.config)[cur - 1] + InRun
  /\ pc = "lib" => lib <= libs(App) + 1
  /\ pc = "compare" => ~ args.create_expected

\* Within a run the bar is not full.
LEMMA RoomInTheBar ==
  ASSUME Typed, BarInv, pc \in Inside
  PROVE  /\ StepsBefore(args.config)[cur - 1] \in Nat
         /\ StepsBefore(args.config)[cur] = StepsBefore(args.config)[cur - 1] + 2 + libs(App)
         /\ StepsBefore(args.config)[cur] <= len
         /\ pos + 1 <= len
         /\ InRun \in Nat /\ InRun <= libs(App) + 1 /\ libs(App) \in Nat
<1>1. cur \in Ids /\ cur \in 0 .. Size /\ cur - 1 \in 0 .. Size
  BY ConfigAssumption DEF Typed, Ids
<1>2. StepsBefore(args.config)[cur] = StepsBefore(args.config)[cur - 1] + steps(args.config[cur])
  BY <1>1, StepsBeforeSums
<1>3. StepsBefore(args.config)[cur - 1] \in Nat /\ StepsBefore(args.config)[cur] <= Total(args.config)
  BY <1>1, StepsGrow
<1>4. steps(args.config[cur]) = 2 + libs(App) /\ libs(App) \in Nat
  BY StepsType, ConfigAssumption DEF steps, libs, App, Experiment
<1>5. InRun \in Nat /\ InRun <= libs(App) + 1
  BY <1>4 DEF InRun, Inside, BarInv, Typed
<1>6. len = Total(args.config) /\ len \in Nat /\ pos = StepsBefore(args.config)[cur - 1] + InRun
  BY DEF BarInv, Inside
<1>7. StepsBefore(args.config)[cur] = StepsBefore(args.config)[cur - 1] + 2 + libs(App)
  BY <1>2, <1>3, <1>4
<1> HIDE DEF InRun
<1> QED BY <1>3, <1>4, <1>5, <1>6, <1>7

LEMMA BarStays == Spec => []BarInv
<1>1. Init => BarInv
  BY DEF Init, BarInv, Inside
<1>2. Typed /\ Typed' /\ BarInv /\ [Next]_vars => BarInv'
  <2> SUFFICES ASSUME Typed, Typed', BarInv, [Next]_vars PROVE BarInv'
    OBVIOUS
  <2>1. CASE pc' = "panic"
    <3>1. CASE Start
      BY <2>1, <3>1 DEF Start, BarInv, Inside
    <3>2. CASE UNCHANGED <<pos, len>>
      BY <2>1, <3>2 DEF BarInv, Inside
    <3> QED
      BY <2>1, <3>1, <3>2 DEF Next, Execute, NextRun, BuildLib, LibsDone, BuildApplication,
         OpenOutput, RunQuery, Compare, Interrupt, Edit, Panic, vars, bar
  <2>2. CASE pc' # "panic" /\ pc \in Inside
    <3> DEFINE before == StepsBefore(args.config)
    <3>1. /\ before[cur - 1] \in Nat /\ before[cur] = before[cur - 1] + 2 + libs(App)
          /\ before[cur] <= len /\ pos + 1 <= len /\ libs(App) \in Nat
      BY <2>2, RoomInTheBar
    <3>2. /\ pos = before[cur - 1] + InRun /\ len = Total(args.config)
          /\ pos \in Nat /\ len \in Nat /\ pos <= len
      BY <2>2 DEF BarInv, Inside
    <3>3. UNCHANGED <<args, cur, len>> /\ App' = App /\ libs(App)' = libs(App)
      BY <2>2 DEF Next, Execute, Start, NextRun, BuildLib, LibsDone, BuildApplication,
         OpenOutput, RunQuery, Compare, Interrupt, Edit, Panic, vars, bar, Inside, App,
         Experiment, libs
    <3>4. before' = before
      BY <3>3
    <3> HIDE DEF before
    <3>5. CASE BuildLib
      <4>1. /\ pc = "lib" /\ pc' = "lib" /\ lib <= libs(App) /\ lib' = lib + 1 /\ pos' = pos + 1
        BY <2>2, <3>5 DEF BuildLib, Panic
      <4>2. lib \in Nat /\ InRun = lib - 1 /\ InRun' = lib' - 1
        BY <4>1 DEF InRun, Typed
      <4> QED BY <3>1, <3>2, <3>3, <3>4, <4>1, <4>2 DEF BarInv, Inside, before
    <3>6. CASE LibsDone
      <4>1. /\ pc = "lib" /\ pc' = "database" /\ lib > libs(App) /\ pos' = pos
            /\ lib <= libs(App) + 1
        BY <3>6 DEF LibsDone, bar, BarInv
      <4>2. lib \in Nat /\ InRun = lib - 1 /\ InRun' = libs(App)
        BY <3>3, <4>1 DEF InRun, Typed
      <4> QED BY <3>1, <3>2, <3>3, <3>4, <4>1, <4>2 DEF BarInv, Inside, before
    <3>7. CASE BuildApplication
      <4>1. pc = "database" /\ pc' = "open" /\ pos' = pos + 1
        BY <2>2, <3>7 DEF BuildApplication, Panic
      <4>2. InRun = libs(App) /\ InRun' = libs(App) + 1
        BY <3>3, <4>1 DEF InRun
      <4> QED BY <3>1, <3>2, <3>3, <3>4, <4>1, <4>2 DEF BarInv, Inside, before
    <3>8. CASE OpenOutput \/ RunQuery \/ Compare
      <4>1. pc \in {"open", "query", "compare"} /\ InRun = libs(App) + 1
        BY <3>8 DEF OpenOutput, RunQuery, Compare, InRun
      <4>2. \/ pc' = "next" /\ pos' = pos + 1
            \/ pc' = "query" /\ pos' = pos
            \/ pc' = "compare" /\ pos' = pos /\ ~ args.create_expected
        BY <2>2, <3>8 DEF OpenOutput, RunQuery, Compare, Panic, bar
      <4>3. pc' # "next" => InRun' = libs(App) + 1
        BY <3>3, <4>2 DEF InRun
      <4> QED BY <3>1, <3>2, <3>3, <3>4, <4>1, <4>2, <4>3 DEF BarInv, Inside, before
    <3>9. CASE UNCHANGED <<pc, args, cur, lib, bar>>
      <4>1. InRun' = InRun
        BY <3>9, <3>3 DEF InRun
      <4> QED BY <3>9, <3>3, <4>1 DEF BarInv, bar, Inside
    <3> QED
      BY <2>2, <3>5, <3>6, <3>7, <3>8, <3>9 DEF Next, Execute, Start, NextRun, Interrupt,
         Edit, Panic, vars, Inside
  <2>3. CASE pc' # "panic" /\ pc \notin Inside
    <3>1. CASE Start
      <4>1. pc' = "next" /\ pos' = 0 /\ cur' = 0 /\ len' = Total(args'.config)
        BY <2>3, <3>1 DEF Start
      <4>2. StepsBefore(args'.config)[0] = 0 /\ Total(args'.config) \in Nat
        BY StepsBeforeSums, StepsGrow, ConfigAssumption
      <4>3. StepsBefore(args'.config)[0] = 0 /\ 0 <= Total(args'.config)
        BY <4>2
      <4> QED BY <4>1, <4>2, <4>3 DEF BarInv, Inside
    <3>2. CASE NextRun
      <4>1. /\ pc = "next" /\ UNCHANGED <<args, pos, len>>
            /\ \/ cur = Size /\ pc' = "exit"
               \/ cur' = cur + 1 /\ lib' = 1 /\ pc' = "lib"
        BY <3>2 DEF NextRun, bar
      <4>2. cur \in Nat /\ (cur + 1) - 1 = cur
        BY ConfigAssumption DEF Typed
      <4>3. pc' = "lib" => InRun' = 0 /\ libs(App)' \in Nat
        BY <4>1, ConfigAssumption DEF InRun, libs
      <4>4. pos \in Nat /\ pos = StepsBefore(args.config)[cur] /\ len = Total(args.config)
            /\ pos <= len /\ len \in Nat
        BY <4>1 DEF BarInv
      <4> QED BY <4>1, <4>2, <4>3, <4>4 DEF BarInv, Inside, Total
    <3>3. CASE UNCHANGED <<pc, args, cur, lib, bar>>
      BY <2>3, <3>3 DEF BarInv, bar, Inside
    <3> QED
      BY <2>3, <3>1, <3>2, <3>3 DEF Next, Execute, BuildLib, LibsDone, BuildApplication,
         OpenOutput, RunQuery, Compare, Interrupt, Edit, Panic, vars, Inside
  <2> QED BY <2>1, <2>2, <2>3
<1> QED BY <1>1, <1>2, TypesStay, PTL DEF Spec

\* The bar is full when the work is done, and not before, for any number of
\* experiments and libraries.
THEOREM BarIsFull == Spec => []BarFull
<1>1. Typed /\ BarInv => BarFull
  <2> SUFFICES ASSUME Typed, BarInv PROVE BarFull
    OBVIOUS
  <2>1. pos <= len /\ (pc = "exit" => pos = len)
    BY DEF BarInv
  <2>2. pc \in Inside => pos # len
    BY RoomInTheBar DEF BarInv
  <2>3. ASSUME pc = "next", cur # Size PROVE pos # len
    <3>1. cur \in 0 .. Size /\ cur + 1 \in Ids /\ cur + 1 \in 0 .. Size /\ (cur + 1) - 1 = cur
      BY <2>3, ConfigAssumption DEF Typed, Ids
    <3>2. StepsBefore(args.config)[cur + 1] = StepsBefore(args.config)[cur] + steps(args.config[cur + 1])
      BY <3>1, StepsBeforeSums
    <3>3. StepsBefore(args.config)[cur + 1] <= Total(args.config) /\ Total(args.config) \in Nat
      BY <3>1, StepsGrow
    <3>4. pos = StepsBefore(args.config)[cur] /\ len = Total(args.config) /\ pos \in Nat
      BY <2>3 DEF BarInv
    <3> QED BY <3>2, <3>3, <3>4, StepsType
  <2> QED BY <2>1, <2>2, <2>3 DEF BarFull, Typed
<1> QED BY <1>1, BarStays, TypesStay, PTL

-----------------------------------------------------------------------------
(* Types, and how long an invocation takes.                                 *)

\* What Typed and the bar leave: files hold outputs of a policy, versions are
\* versions, and no experiment fails twice.
Files == [Ids -> Contents \cup {Absent}]
RestTyped ==
  /\ expected \in Files /\ tmp \in Files
  /\ queried \in [Ids -> Versions \cup {Absent}]
  /\ invocations \in 0 .. MaxInvocations
  /\ failures \in Nat /\ failures <= cur
  /\ pc \in Inside => failures <= cur - 1

LEMMA RestStays == Spec => []RestTyped
<1>0. /\ NoFiles \in Files /\ NoFiles \in [Ids -> Versions \cup {Absent}]
      /\ [Ids -> {Absent, Nothing}] \subseteq Files /\ Nothing \in Contents
      /\ \A i \in Ids, v \in Versions : Output[i][v] \in Contents
  BY DEF NoFiles, Files, Contents
<1>1. Init => RestTyped
  BY <1>0, ConfigAssumption DEF Init, RestTyped, Inside
<1>2. Typed /\ Typed' /\ FreshInv /\ RestTyped /\ [Next]_vars => RestTyped'
  <2> SUFFICES ASSUME Typed, Typed', FreshInv, RestTyped, [Next]_vars PROVE RestTyped'
    OBVIOUS
  <2>1. CASE Start
    <3>1. /\ expected' = expected /\ tmp' = NoFiles /\ queried' = NoFiles /\ failures' = 0
          /\ cur' = 0 /\ invocations' = invocations + 1 /\ pc' \in {"next", "panic"}
          /\ invocations < MaxInvocations
      BY <2>1 DEF Start, disk
    <3> QED BY <3>1, <1>0, ConfigAssumption DEF RestTyped, Inside
  <2>2. CASE NextRun
    <3>1. /\ UNCHANGED <<expected, tmp, queried, invocations, failures>>
          /\ \/ pc' = "exit" /\ cur' = cur
             \/ pc' = "lib" /\ cur' = cur + 1
      BY <2>2 DEF NextRun, disk, history
    <3>2. cur \in Nat
      BY ConfigAssumption DEF Typed
    <3> QED BY <3>1, <3>2 DEF RestTyped, Inside
  <2>3. CASE BuildLib \/ LibsDone \/ BuildApplication \/ Interrupt
    <3>1. /\ UNCHANGED <<expected, tmp, queried, invocations, failures, cur>>
          /\ pc' = "panic" \/ pc \in Inside
      BY <2>3 DEF BuildLib, LibsDone, BuildApplication, Interrupt, Panic, disk, history, Inside
    <3> QED BY <3>1 DEF RestTyped, Inside
  <2>4. CASE OpenOutput
    <3>1. expected' \in Files /\ tmp' \in Files
      BY <2>4, <1>0 DEF OpenOutput, Write, RestTyped, Files
    <3> QED BY <2>4, <3>1 DEF OpenOutput, RestTyped, history, Inside
  <2>5. CASE RunQuery
    <3>1. qdb[App] \in Versions
      BY <2>5 DEF RunQuery, FreshInv
    <3>2. cur \in Ids
      BY <2>5 DEF RunQuery, Typed, Inside
    <3>3. expected' \in Files /\ tmp' \in Files
      BY <2>5, <3>1, <3>2, <1>0 DEF RunQuery, Write, RestTyped, Files
    <3>4. queried' \in [Ids -> Versions \cup {Absent}]
      BY <2>5, <3>1 DEF RunQuery, Panic, history, RestTyped
    <3> QED BY <2>5, <3>3, <3>4 DEF RunQuery, Panic, RestTyped, history, Inside
  <2>6. CASE Compare
    <3>1. expected' \in Files /\ tmp' \in Files
      BY <2>6 DEF Compare, RestTyped, Files, disk
    <3>2. /\ UNCHANGED <<queried, invocations, cur>> /\ pc' \in {"next", "panic"}
          /\ failures' \in {failures, failures + 1} /\ pc = "compare"
      BY <2>6 DEF Compare, Panic, history
    <3>3. cur \in Nat /\ failures <= cur - 1
      BY <3>2, ConfigAssumption DEF Typed, RestTyped, Inside
    <3> QED BY <3>1, <3>2, <3>3 DEF RestTyped, Inside
  <2>7. CASE (\E a \in Apps : Edit(a)) \/ UNCHANGED vars
    BY <2>7 DEF Edit, RestTyped, vars, disk, history
  <2> QED BY <2>1, <2>2, <2>3, <2>4, <2>5, <2>6, <2>7 DEF Next, Execute
<1> QED BY <1>1, <1>2, TypesStay, FreshStays, PTL DEF Spec

\* Every variable keeps its type, the failures at most one for each experiment
\* so far and the bar a number, whatever fails.
THEOREM TypeCorrect == Spec => []TypeOK
<1>1. Typed /\ RestTyped /\ BarInv => TypeOK
  BY ConfigAssumption DEF Typed, RestTyped, Files, BarInv, TypeOK, Inside
<1> QED BY <1>1, TypesStay, RestStays, BarStays, PTL

\* What is left to do of an invocation: 20 for each run that has not begun and,
\* of the run it is in, the commands that are left.
LeftOfRun == CASE pc = "next"     -> 1
               [] pc = "lib"      -> 16 - lib
               [] pc = "database" -> 5
               [] pc = "open"     -> 4
               [] pc = "query"    -> 3
               [] pc = "compare"  -> 2
ToDo == IF pc \in {"exit", "panic"} THEN 0 ELSE 20 * (Size - cur) + LeftOfRun

\* An invocation ends: each of its commands, and each failure, leaves less to
\* do, and nothing that others do meanwhile adds to it.  No command is retried.
THEOREM InvocationsGetDone ==
  Spec => /\ [](ToDo \in Nat)
          /\ [][(Execute \/ Interrupt => ToDo' < ToDo) /\ (ToDo' > ToDo => Start)]_vars
<1> DEFINE Less == (Execute \/ Interrupt => ToDo' < ToDo) /\ (ToDo' > ToDo => Start)
<1>1. Typed /\ BarInv => ToDo \in Nat /\ (pc \notin {"exit", "panic"} => ToDo > 0)
  <2> SUFFICES ASSUME Typed, BarInv, pc \notin {"exit", "panic"} PROVE ToDo \in Nat /\ ToDo > 0
    BY DEF ToDo
  <2>1. libs(App) <= 9 /\ libs(App) \in Nat
    BY ConfigAssumption DEF libs
  <2>2. LeftOfRun \in Nat /\ LeftOfRun > 0
    BY <2>1 DEF LeftOfRun, Typed, BarInv, Inside
  <2>3. Size - cur \in Nat
    BY ConfigAssumption DEF Typed
  <2> HIDE DEF LeftOfRun
  <2> QED BY <2>2, <2>3 DEF ToDo
<1>2. (Typed /\ BarInv => ToDo \in Nat /\ (pc \notin {"exit", "panic"} => ToDo > 0))'
  BY <1>1, PTL
<1>3. Typed /\ Typed' /\ BarInv /\ BarInv' /\ [Next]_vars => [Less]_vars
  <2> SUFFICES ASSUME Typed, Typed', BarInv, BarInv', [Next]_vars PROVE Less
    OBVIOUS
  <2>0. ToDo \in Nat /\ ToDo' \in Nat /\ Size \in Nat /\ cur \in Nat /\ lib \in Nat
    BY <1>1, <1>2, ConfigAssumption DEF Typed
  <2>1. CASE Start
    <3>1. ~ (Execute \/ Interrupt)
      BY <2>1 DEF Start, Execute, NextRun, BuildLib, LibsDone, BuildApplication, OpenOutput,
         RunQuery, Compare, Interrupt
    <3> QED BY <2>1, <3>1
  <2>2. CASE (\E a \in Apps : Edit(a)) \/ UNCHANGED vars
    <3>1. UNCHANGED <<pc, cur, lib>>
      BY <2>2 DEF Edit, vars
    <3>2. ToDo' = ToDo
      BY <3>1 DEF ToDo, LeftOfRun
    <3>3. ~ (Execute \/ Interrupt)
      <4>1. \A a \in Apps : Edit(a) => source' # source
        BY ConfigAssumption DEF Edit, Typed, Versions
      <4> QED
        BY <2>2, <3>1, <4>1 DEF Execute, NextRun, BuildLib, LibsDone, BuildApplication, OpenOutput,
           RunQuery, Compare, Interrupt, Panic, vars, disk, bar, Typed
    <3> QED BY <2>0, <3>2, <3>3
  <2>3. CASE pc \notin {"exit", "panic"} /\ pc' \in {"exit", "panic"}
    <3>1. ToDo' = 0
      BY <2>3 DEF ToDo
    <3>2. ToDo > 0
      BY <2>3, <1>1
    <3>3. ToDo' < ToDo /\ ~ (ToDo' > ToDo)
      BY <2>0, <3>1, <3>2
    <3> QED BY <3>3
  <2>4. CASE NextRun /\ pc' \notin {"exit", "panic"}
    <3>1. ToDo = 20 * (Size - cur) + 1 /\ ToDo' = 20 * (Size - (cur + 1)) + 15
      BY <2>4 DEF NextRun, ToDo, LeftOfRun
    <3> QED BY <2>0, <3>1
  <2>5. CASE (Execute \/ Interrupt) /\ ~ NextRun /\ pc' \notin {"exit", "panic"}
    <3>1. cur' = cur /\ pc \notin {"exit", "panic"}
      BY <2>5 DEF Execute, BuildLib, LibsDone, BuildApplication, OpenOutput, RunQuery, Compare,
         Interrupt, Panic
    <3>2. libs(App) <= 9 /\ libs(App) \in Nat
      BY ConfigAssumption DEF libs
    <3>3. LeftOfRun \in Int /\ LeftOfRun' \in Int /\ LeftOfRun' < LeftOfRun
      BY <2>0, <2>5, <3>2 DEF Execute, BuildLib, LibsDone, BuildApplication, OpenOutput, RunQuery,
         Compare, Interrupt, Panic, LeftOfRun, BarInv
    <3>4. ToDo = 20 * (Size - cur) + LeftOfRun /\ ToDo' = 20 * (Size - cur) + LeftOfRun'
      BY <2>5, <3>1 DEF ToDo
    <3>5. ToDo' < ToDo /\ ~ (ToDo' > ToDo)
      <4> DEFINE rest == 20 * (Size - cur)
                 left == LeftOfRun
                 then == LeftOfRun'
      <4>1. rest \in Int /\ left \in Int /\ then \in Int /\ then < left
        BY <2>0, <3>3
      <4>2. ToDo = rest + left /\ ToDo' = rest + then
        BY <3>4
      <4> HIDE DEF rest, left, then
      <4> QED BY <4>1, <4>2
    <3> QED BY <3>5
  <2> QED
    BY <2>1, <2>2, <2>3, <2>4, <2>5 DEF Next, Execute, NextRun, BuildLib, LibsDone,
       BuildApplication, OpenOutput, RunQuery, Compare, Interrupt
<1> QED BY <1>1, <1>3, TypesStay, BarStays, PTL DEF Spec
=============================================================================
