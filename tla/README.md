# Verification of codeql-experimentation

The repository is the artifact of an experiment. Programs transcribed from real
web applications into C++ (`cpp/`) are analysed with privacy policies written as
CodeQL queries (`real-world-policies/`, `cpp/query/`), and a harness (`runner/`)
builds the programs, runs the policies and compares what they print with the
files of `expected/`. This directory holds TLA+ models of the programs that keep
state and of the harness, the TLC runs that check them on small instances, and
TLAPS proofs about them.

Run, in this directory: `tlc -config FreeditEdits.cfg MCFreedit` and likewise for
each run of the table below (the module is the `MC` module of the name's first
part); `tlapm FreeditProofs.tla`, and likewise for `FreeditCounts`, `RunnerProofs`,
`VecProofs`, `PlumeProofs`, `AtomicProofs`, `LemmyProofs` and `McaptchaProofs`.

## Inventory

| Part | State | Operations | Hard behaviour |
|---|---|---|---|
| `cpp/freedit` request handler, `edit_post_post` (main.cpp 412-615) | trees of a key-value store: posts, tags, notifications, lists and index of posts, counters, statistics, drafts, sessions | login, draft, new post, edit, mentions, index, statistics | many handlers at once, each access atomic and no transaction; throws and crashes half-way; counters of 32 bits; undefined behaviour that yields garbage |
| `cpp/freedit` cron job, `user_cron_job`, `clear_invalid` (617-649) | an iterator over `user_stats` | sleep, walk, remove | walks a tree the handlers write; a key that is not a number ends the walk |
| `cpp/freedit/flib` | the store | `get`, `insert`, `set`, `remove`, `apply_batch`, `update_and_fetch` | `update_and_fetch` is a read and then a write |
| `runner` | sources, libraries, databases, expected files, results directory, progress bar, failures | build, create database, query, compare | a panic between any two files; `File::create` before the query; stale databases |
| `cpp/manual-vector`, class `vec` | buffer, length, capacity, iterator | `push_back`, `ensure_cap`, `operator[]`, range-for | capacity of 64 bits that wraps, a failing allocation, raw memory |
| `cpp/plume`, `deleteUserController` | rows of seven tables | delete a user and what is the user's | no transaction; dies at the first row that is not there; repeated after a death |
| `cpp/atomic`, `Commit::apply_opts`, `check_write` | resources with properties and parents, commits | validate, apply, check rights up the parents | cycles of parents, null and empty values |
| `cpp/lemmy`, `Login::perform`, `perform_async` | user, site | login in plain and `std::async` form | what was read is stale when used |
| `cpp/mcaptcha`, `verify_pow`, `delete_account` and `_async` forms | captchas, statistics, accounts | verify, record, delete | check and then act; a nonce cut to 32 bits |
| `cpp/scoped-storage-investigation` | a mutex with its value, a database | `lock_guard`, `do_insert`, `controller` | an assertion that is the wrong way round; a row without values |
| dataflow examples (`cpp/async`, `cpp/hof`, `cpp/thread`, ...) | none | `source` to `target` | one behaviour each |
| CodeQL queries, `real-world-policies`, `paralegal/policy` | none | predicates over program graphs | a policy in a header comment against the query below it |
| `policy-coding`, `expected`, `eval-config.toml` | data | | |
| `cpp/websubmit` | a git submodule, not in the repository | | |

The parts interact in two places. The handlers and the cron job of freedit share
the store, above all the tree `user_stats`. The runner drives the programs and
policies through `cmake` and `codeql`; to it they are commands that succeed or
fail and files that change. The other programs are independent of each other.

What makes each part correct: for freedit, that no list names a post that is not
stored, that counters are not lost and numbers not reused, that a tag or a post
changes only by somebody who may change it, that a post stays in the index of its
inn, that statistics expire; for the runner, that the verdict is about the current
sources and that the files left behind are those of the failures; for `vec`, that it is a sequence and stays in
its memory; for plume, that who asks to be deleted is, and that what goes is theirs; for atomic,
that the store changes only for who may, and after the commit was recorded; for
lemmy, that a token is for somebody who was fit for it during the login; for
mcaptcha, that what is answered was counted and that only the password's owner
deletes an account. The hazards behind these, each at its line, are listed in `PROJECT.json`.

## Modules

| Module | Models | From |
|---|---|---|
| `FreeditDB` | the trees, `incr_id`/`update_and_fetch`, the clock | freedit main.cpp 72-177, 249-312; flib.hpp |
| `EditPost` | the handlers, one action per access to the store | main.cpp 179-241, 314-615 |
| `UserCron` | the cron job | main.cpp 617-649 |
| `Freedit` | handlers, cron job, clock and crashes over one store; all properties | composition |
| `PostStore` | abstract: posts only grow, rows only name stored posts | |
| `FreeditProofs` | types, `IndexedStored`, refinement of `PostStore` | |
| `FreeditCounts` | counters, statistics, what the cron job removes, who may post and edit, redirects, the index, fresh numbers, the end of requests | |
| `Runner` | the harness | runner/src/main.rs |
| `Vec`, `VecSeq` | `vec` and `vec_iter`; abstract: a sequence | manual-vector/main.cpp 4-88 |
| `VecProofs` | bounds, written elements, refinement of `VecSeq`, loops, the end of pushes | |
| `Plume` | `deleteUserController` | plume/main.cpp, plib/lib.hpp |
| `PlumeProofs` | types, who is deleted and who never is, which post goes | |
| `RunnerProofs` | types, freshness, verdict, outputs, broken configurations, the bar, the end of an invocation; induction on numbers | |
| `Atomic` | `apply_opts`, `into_resource`, `modify_parent`, `check_write` over a store that outlives the process | atomic/main.cpp, externals.hpp |
| `AtomicProofs` | types, commits before their effects, records that stay, rights, the depth of the walk, timestamps | |
| `Lemmy` | `perform` and `perform_async` | lemmy/main.cpp |
| `LemmyProofs` | types, who gets tokens, the end of logins | |
| `Mcaptcha` | `verify_pow`, `delete_account` and their `_async` forms by concurrent workers | mcaptcha/main.cpp, third_party |
| `McaptchaProofs` | types, late analyses, counted solves, deletions, the end of requests | |
| `MC*` | small instances for TLC | |

Operators with a comment "Mutant of ..." are plausible bugs of the
operator defined after them. Nothing uses them; replacing the operator by its
mutant makes a property fail, which shows that the property depends on it.

### freedit

A handler is a thread with a place `pc[h]` between two accesses and the locals
that outlive an access, `job[h]`: the request, the number of the post, whether
the inn is private, what `incr_id` has read, the mentions left and the key of
`user_stats`. Every action is one access to the store with the checks and the
early returns before the next one; a throw drops the locals and undoes nothing.
`IncrGet` and `IncrSet` are the two halves of `update_and_fetch`
(flib.hpp 37-52), so handlers interleave between them.

The trees are sets of keys. Values are kept where the code reads them back: the
counters, and of a post whether its row is there and can be read. A counter may
also be a row that is too short for the `uint32_t` read from it (`Short`,
`ShortStats`): `increment` (150-163) then yields nothing, as it does for a missing
row, and `update_and_fetch` removes the row. `set_one` is
given `&post` (572), so a stored row is the 8 bytes of a pointer and
`get_one<Post>` rejects it: the check of an edit (495) passes only for imported
rows. Trees without a writer here (`session`, `inns`, `users`, `inn_users`) are
constants. `TypedHeader::get` (34-37) is a stub that returns an empty string,
under which nobody ever logs in; like the bodies of flib.cpp it stands for an
external library, and the cookie it would return is part of the request.

In `inn_rm_index` a `remove` that throws is caught and the error ignored
(395-398, 591): the row then stays. A name in a mention is looked up garbled
(182): it throws, is found to be nobody or the author, or is somebody else, who
gets a notification.

Undefined behaviour is a choice among its outcomes. Lines 433, 182, 202 and 582
build a string from the `begin` of one temporary and the `end` of another. The
step throws, yields garbage, or the process dies (`Crash`); at 202 the bytes are
inserted and the number of the notification may survive at its place. `Inn`,
`Post` and `User` are read by `memcpy` into classes with strings and vectors:
what their strings and vectors hold is arbitrary, so an inn may pass for private
or not (`Admit`) and any tags may be taken for the old ones (`ApplyTags`).

Observations that are in the model and that no text of the repository
contradicts: `update_last_write` writes the tree `sessions` while `Claim::get`
reads `session`, so the interval between posts only holds against the time of the
login; `update_stats` increments a key made of the current second, which is
never there unless imported, so a post is stored and listed and its request then
fails (`StatsNeverCreated`); a notification may name a post that is never stored;
an edit through a private inn has no check of the author.

### runner

One action per command and file operation. `Panic` is `run_command`'s assertion
or a failing file operation; it leaves all files as they are. The sources of the
applications have versions and change at any time (`Edit`), databases and
libraries remember the version they were made from. `args` are
`--create_expected` and `--keep_intermediates`. The results directory is named
after the second of the start; two invocations within one second, or at once,
are left out, and so are expected files shared by experiments. `StepsBefore`
is the recursive function behind the length of the bar (`Total`), and behind the
position that the bar has when a run begins.

### vec

A `vec` is its buffer (a function from offsets), its length and capacity.
`push_back` is taken apart: test, doubling, allocation, copy, write. A new buffer
is garbage until written. `new` may fail and throw before anything has changed.
`U64` is the number of capacities, so that doubling wraps. The element pushed is
never a reference into the vec: `push_back(v[0])` would be read after `free`
(69), and no caller does so. `main` uses `v0[0]` on an empty vec (148), which has
no defined outcome and is left out (`Assign` is for elements that are there).
That memory of `new[]` is given to `free` is left out.

### plume

`find`, `count` and `deleteRow` of a `Connection` take the id of a row, and the
program passes the number of the user (35, 59, 96, 121, 145). The model says just
that: `rows[t]` are the ids in the table `t`, and the row found is the one with the
user's number, whosever it is; the database names no owner of it that could be
compared. `count` is told no table, so it may give anything. An empty row is read
at `row[0]` and the process dies (`Die`): `getInt` looks for a variant at address 0.
Then the user may be deleted again. Deletions by several processes at once are left
out: the program has one. Left out as well is `User::deleteUser` with the activity
streams, which nothing calls.

So of each kind at most one row goes. The comments of the controller are in the
plural, "Delete comments by the user" (208): a user's rows under other ids stay,
on every path. There is no property about it, and nothing here should be read as
saying that the rows of a user are all deleted: since the code never says which
column names the owner, such a property would compare two guesses about the
database. What is checked is who is deleted at all: `CompleteUsersGo` and
`LackingUsersStay` say that the record goes exactly for those who have a row with
their number in every table.

### atomic

One action per stage of `apply_opts`; between two stages the process may die or
a call into the store may throw (`Interrupt`), and the clock may advance.

`std::shared_ptr<Resource> resource` (243) is null and is assigned through on
both paths (246, 250). `object = FALSE` is this program: the call is over there,
and `NothingCommitted` says what follows, that nothing is ever committed. What
lines 253-297 and the policy `real-world-policies/atomic.ql` are about is the
program in which that pointer has a resource, `object = TRUE`; all other
properties are checked for both.

A resource has the three properties the code reads: write rights, parent and
data, any of them `None`. A property that is missing is an empty optional that
is read nevertheless, so `Grant`, `Climb` and `Deny` choose among what that may
give: a list with the agent or without, an exception that is caught, a parent
that is some resource. `clean` remembers whether that has happened; properties
about rights are for walks in which it has not. `check_write` recurses without a
set of what it has seen; `depth` counts the frames and `MaxDepth` is the stack,
at the end of which the process dies.

Resources and commits are in one store (290, 294, 295), under urls of three kinds
(`Url`): pages, the `commits/` of a signature and the `commitsUnsigned/` of a
millisecond. The signature is a string that the client sends; only
`validate_signature` looks at it. So two commits may share a url (`CommitKey`,
317-325), and a commit may be about the url of a stored one, or about its own.
`RecordsStay` says what that comes to: who may replace what is stored at a url, and
nobody else. `OnlyAllowed` is for that reason about the step with which a call
begins to change the store: storing the commit may itself replace a resource that
`check_write` has asked. A commit that edits the rights of its resource is judged by
the edited copy (274-282), and so is the model's.

`created_at` counts milliseconds where line 229 reads ticks of the
system clock (`TicksPerMs`; 10^6 with libstdc++). What
`serialize_deterministically_json_ad` copies (356-361) is left to the signature
library, which accepts or rejects. `check_write2` has no caller, and
`check_required_props` is empty.

### lemmy

A login copies the user (`FindUser`) and checks the copy against its clock and
the site as they are when they are read; `Change` and `Tick` are the others and
time. The database and bcrypt are dummies in the code whose comments say what
they stand for; here they may also throw. In `perform_async` a call to the
database is first made a task (`Launch`) and takes effect before `get` returns
(`Called`). `seen` is history: the moments of the database since the login
began. Logins write nothing that another one reads, so one at a time is enough.

### mcaptcha

Workers handle requests at once on one `AppData`; each call takes effect at once
or throws (`Throw`), and others publish captchas and change accounts between
calls. As in lemmy a call of the `_async` forms is first a task. The dummies of
`third_party/impl.cpp` are external: `record_solve` counts,
`update_max_nonce_for_level` keeps the maximum, as their names say. The nonce is
cut to 32 bits (`Cut`, `Width` = 2^32); what the database makes of it is its own
affair, and no property is about it. An account that is deleted may be
registered again under its name. `late`, `told` and `since` are
history.

## Runs

| Run | Question | Bounds |
|---|---|---|
| `freedit_edits` | do the trees stay consistent, is the store a `PostStore`, do only authors change tags and posts, does an edited post stay in the index | 2 handlers, 3 requests out of new post, own edit, foreign edit; 1 crash; 4 numbers; 2 seconds, with a row of `user_stats` for each of two users in the first, one of them too short |
| `freedit_forms` | are numbers of posts and notifications fresh until they wrap; who gets to store | 1 handler, 3 requests of all forms, mentions and sessions: a user, an administrator whose session ends, one who is banned, one who wrote just now, one who may not post in the inn, none; 1 crash; the counter starts one below the largest number, so that it wraps |
| `freedit_cron` | what expires, what never does, while handlers count the same rows; who stores on a site that is read only; what happens without a counter; is every request answered | 2 handlers, 2 requests out of the administrator's new post, edit and draft and a user's edit; 1 crash; 2 seconds; statistics of the administrator before and after a key that is not a number, the latter too short, and others |
| `runner_checks` | verdict, files, freshness of databases, bar, broken configurations, end | 3 experiments of 2 applications, one with a library; 2 configurations, one with an unknown application; 2 invocations; 2 versions |
| `vec_pushes` | memory, sequence, loop, end of a push | 9 pushes, 2 values, capacities below 16 |
| `plume_deletes` | who is deleted in the end, and who never is | 2 users, 3 ids, in each table the rows of both, of one, or of the other and a third; posts of the other or of nobody; any number of attempts |
| `plume_posts`, `plume_record` | violated: the two comments below | the same |
| `atomic_commits` | is nothing committed as the program is; with an object, who changes the store, in which order, what is recorded, how deep is the walk | 3 pages and the urls of a signature and of 2 milliseconds, in an inheriting and in a cyclic store, 2 agents, 12 kinds of commit, three of them about urls of commits, 4 sets of options, 2 commits, 2 ms, 5 frames |
| `atomic_clock` | violated: the comment below | the same |
| `lemmy_logins` | who gets a token, does each login end | 7 kinds of user, 2 passwords, 2 changes, clock to 3; any number of logins |
| `mcaptcha_requests` | counted solves, analyses after withdrawal, deletions, is every request answered | 2 workers, 3 requests of 5 kinds, 2 changes by others, nonces of 2 bits |

Why the bounds are enough: two handlers show every interleaving of two requests
at each access, and a third request lets one of them start again on what the
others left; four numbers are the smallest width with an imported post, two
fresh numbers and the 0 that means "new"; a crash needs only happen once at each
place, and the crash bound is on a behaviour, not on the place. In `freedit_cron`
the administrator's two seconds have the keys 6 and 10 of `user_stats`, before and
after the key 8 that is not a number, and the edit of the post gets as far as
`update_stats` with either. So the walk removes 6 between the two halves of
`update_and_fetch` and the row comes back, and must go again; the edit that finds 6
missing fails, and so does the one that finds 10, a row too short to be counted,
which `update_and_fetch` removes; the walk ends at 8, and 9 stays. A request that gets past
`update_stats` goes on to the redirect. Nine pushes
cross the growths 0-4-8 and reach the capacity that wraps; the ninth is where a
push no longer ends, which is the premise of `PushEnds`. Two
invocations suffice for the runner because everything that outlives one is in
`disk`. Three resources are the fewest with a parent of a parent and with a cycle that
does not contain the resource asked about, five frames go around it; two commits let one meet what the other
stored, in the same millisecond or the next. Two changes let a user be banned and
pardoned, and an account be deleted and registered again, within one request; two workers
and a third request let a late one meet an earlier one's end. `MaxRequests`, `MaxCrashes`, `MaxNow`, `MaxVersion`, `MaxInvocations`, `MaxLen`,
`MaxCommits`, `MaxDepth` and `MaxChanges` cap counters that the code does not cap, and behaviours stop there:
that is why deadlock is not checked. Types are proved for every module (those of
`vec` with `InBounds`); TLC checks them as well for freedit and the runner.

`FreshNumbers` is for one handler: with two, both halves of
`update_and_fetch` interleave and two requests do get one number (TLC finds it at
once). The code makes no promise there, so this is a hazard and not a finding.
`FreshWhenAlone` proves it of any database and requests of a single handler;
`IndexedStored`, `AuthorEdits` and `CounterNeverLost` hold nevertheless.

### Fairness

freedit: weak fairness of each handler at work, of the cron job and of the
clock. The threads are scheduled by the operating system, sleeps end and time
passes; none of them waits for another, since no step of a handler has a guard
that another handler could hold false. Receiving a request is not fair (no
client must send one), nor are crashes. Runner: weak fairness of the next step,
since it is a sequential program whose commands end. Plume and `vec`: weak
fairness of the operation that has begun. Lemmy and mcaptcha: weak fairness of
the login and of each worker at work, since every call returns or throws and a
task of `std::async` runs once it is waited for; nothing asks for logins or
requests. Atomic states no liveness: its walk ends only because the stack does.

### Findings

- `plume_posts`: "Delete posts where the user is the only author" (189);
  `getPost` (80) ignores its argument and returns the post with the number of the
  connection.
- `plume_record`: "Finally, delete the user record" (222); a user without, say, a
  blog makes `fromRow` (46) read an empty row, on every attempt.
- `atomic_clock`: "Commit CreatedAt timestamp must lie in the past" (234); line 229
  compares milliseconds with ticks, so a commit from the far future passes.

Two more are seen in the models and have no run of their own: the documentation
of `--keep_intermediates` (runner main.rs 27) says the outputs are stored in the
results, and with `--create_expected` they are not (102); "Delete comments by the
user" (plume 208), where `listByAuthor` (121) returns one row, by the user's number
as its id, and the user's comments under other ids stay.

## Proofs

All for any number of handlers, any requests, any imported database and any
widths, under the named assumptions of the modules (constants have the types the
code gives them; `Missing` and `Short` are no numbers; an imported post has a number that was
counted; atomic's store is finite). One theorem assumes more, and says so:
`FreshWhenAlone`, that one handler serves at a time and a key made of garbage is
not a number.

| Theorem | Argument |
|---|---|
| `FreeditProofs!TypeCorrect` | `TypeInv`: the types, and what a handler has in hand at the places where it uses it (a mention before `Notify`, a number read, a key computed). Without these the steps `Notify` and `StatSet` do not keep the types. |
| `FreeditProofs!RowsNameStoredPosts` | `StoreInv`: besides `IndexedStored`, that a handler behind `Store` has a post that is stored. It is stable because no step takes a post away, even of others with the same number. |
| `FreeditProofs!StoreIsPostStore` | the mapping takes `Store` to `Publish`, each writer of a row to its action, all else to a stutter. |
| `FreeditCounts!CountersStay`, `NoCounterNoPosts` | `CountInv`: a counter can be read exactly if it could at the start, and so can what a handler has read between the two halves; without `posts_count`, or with a row that is too short, who is past the number edits an old post. |
| `FreeditCounts!StatsOnlyShrink` | `StatInv`: who has read a row of `user_stats` has the key of an imported one. |
| `FreeditCounts!NothingPastPoison` | of the rows that are long enough to be counted: `ShadowInv`: the iterator never gets past the first key that is not a number, and who found a key missing has not one behind it. `DueInv`: a row that is gone, or that a handler found missing and is about to remove, has a number that lies in the past; time only passes. |
| `FreeditCounts!OutOfTheIndexForMoments` | `OnlyCrashesUnindex` is inductive: the one step that takes a row out leaves its handler at `"index"` with that row, and there the handler stays until it puts it back or the process ends. |
| `FreeditCounts!OnlyAdmittedStore` | `AdmitInv`: what `Login` and `Admit` found of the session and the role holds to the end of the request, for neither changes. |
| `FreeditCounts!OnlyAuthorsEdit` | `EditInv`: until `posts_count` wraps, it and what was read of it are at least what they were at the start, so that a new number is no imported post's; behind `CheckOld` who edits in a public inn is the author. |
| `FreeditCounts!RedirectsArePublished` | `PubInv`: the rows a handler has written are still there at each later place, and its index row is missing only while another handler stands at `"index"` with the same row. |
| `FreeditCounts!FreshWhenAlone` | `FreshInv`: until a counter wraps no number in use is larger than it, and between the halves of `incr_id` it is what was read of it: nobody else stands there. So every number in use is smaller than the one just fetched. |
| `VecProofs!StaysInBounds`, `NeverReadsGarbage` | `VecInv`: while a vec grows its buffer is full, hence the new capacity is larger than the old one. |
| `VecProofs!VecIsASequence` | `Write` appends, `Assign` assigns, `Copy` and `Allocate` keep the items. |
| `VecProofs!LoopReadsInOrder` | `LoopInv`: what was read is the items before the iterator. |
| `RunnerProofs!DatabasesAreFresh`, `BadConfigRunsNothing` | `Typed`, `Known`: who is within a run has an application that is there, for all were looked up first. `FreshInv`: sources only get newer, and the libraries below `lib` and the database are at least as new as the start. |
| `RunnerProofs!VerdictIsRight`, `OutputsAreOfFailures` | `VerdictInv`: after `Done` experiments, `failures` is the number of `Wrong` ones among them and `tmp` holds just theirs; one lemma for each of `NextRun`, `RunQuery`, `Compare`, and `SameVerdict` for the steps that deal with no experiment. `VerdictInv` is silent after a panic; `OutputsPanic` takes the outputs from the state before. |
| `RunnerProofs!TypeCorrect`, `BarIsFull` | `BarInv`: at each point of a run the position is `StepsBefore` of the runs before it and the commands so far; `StepsBefore` is a number and increasing, by induction. |
| `PlumeProofs!TypeCorrect`, `LackingUsersRemain` | `Doomed`: a user without one of the rows is still there, and where a deletion of theirs has begun, one of the tables it has yet to visit has no row for it. Rows only go, so this never ends. |
| `PlumeProofs!OnlyThePostOfConn` | what the code does where `plume_posts` finds the comment wrong: one post goes, always the same. |
| `AtomicProofs!TypeCorrect`, `NothingIsCommitted` | `HasObject`: only a call whose pointer has an object gets past line 250. |
| `AtomicProofs!ChangesAreRecorded`, `RecordsThatStay` | `CommitFirst`: where the store is about to change the key is one of the commit's urls, and before `AddResource` the commit is stored under it; so each change is at one of the two urls of the call (`WhereItChanges`). |
| `AtomicProofs!OnlyWhoIsAllowed` | `OnTheWay`: while nothing undefined was read, the walk stands at the resource or at one above it, because `Above` is closed under parents; `Rights` carries what `Grant` has found to the step that begins to store. The argument needs no bound on the depth. |
| `AtomicProofs!DeepIsCyclic` | `Walked`: while nothing undefined was read there is a way of stored resources, each above all before it, as long as the depth. One that is longer than there are resources meets one of them twice (pigeonholes), which is then above itself. |
| `AtomicProofs!TimesAreInTicks` | what the code does where `atomic_clock` finds the message wrong: created_at is bounded by the ticks, which only grow. |
| `LemmyProofs!TokensAreForTheFit`, `UntouchedAreFit` | `Known`: the copy is the user of a moment that was seen, and what `CheckUser` and `ReadLocalSite` asked held at moments that were seen. Moments are only added. |
| `McaptchaProofs!OkMeansDeleted`, `DeletedForAPassword` | `Deleting`: who is past `GetPassword` had an accepted hash among `since`, and who is past `DeleteUser` has `None` there. |
| `McaptchaProofs!LateSavesAreBounded`, `SolvesAreCounted` | counting: the number of workers at the points in question changes with each action by what the counters change (lemmas on `Cardinality` of `Busy` when one worker moves). |

Why things end is proved too, as far as that is not a matter of fairness. For each
liveness property there is a number of what is left to do, which every step of
the operation makes smaller and which nothing but a new operation makes larger:

| Theorem | Property | What is left |
|---|---|---|
| `FreeditCounts!RequestsGetDone` | `Answered` of freedit | the accesses to the end of the request, 4 for each mention left |
| `RunnerProofs!InvocationsGetDone` | `Terminates` | the commands of the run, and 20 for each run to come |
| `VecProofs!PushesGetDone` | `PushEnds` | what the capacity lacks of the target, then copying and writing, while twice the target fits its width; for a loop the elements not yet read |
| `PlumeProofs!CompleteUsersAdvance` | `CompleteUsersGo` | the tables that still have to be visited: the user has a row in each of them |
| `LemmyProofs!LoginsGetDone` | `Ends` | the calls to the end of the login, two steps each where they are tasks |
| `McaptchaProofs!RequestsGetDone` | `Answered` of mcaptcha | the same of a worker |

What is missing between these and the liveness properties is that a step can be
taken (`ENABLED`) and that it is (fairness), which stays with TLC. `StatsExpire` has
no such theorem, since it is about the rounds of the cron job: that nothing goes
which should stay is `NothingPastPoison`, that what should go does is for TLC.

Only model-checked, therefore: the liveness properties themselves (`Answered`,
`StatsExpire`, `Terminates`, `PushEnds`, `CompleteUsersGo`, `Ends`). All other
properties of the passing runs are proved. The library's induction theorems take
an operator, which the provers at hand cannot instantiate; `Least` and `Induct` of
`RunnerProofs` state induction on numbers for a set instead, by the least number
that is not in it. `RECURSIVE` operators are kept out of all modules.

## Plan

1. (done) freedit with its abstract store; the runner; `vec`; plume; atomic;
   lemmy; mcaptcha; the proofs above.
2. (done) every safety property of the runs as a theorem; measures for the
   liveness properties; what holds where the findings say that more was meant.
3. The text functions of freedit (`extract_element`, tags, `trim`) as operators
   against reference definitions, in a module for TLC only.

## Not modelled

- `cpp/scoped-storage-investigation`: `controller`, the one entry point, first
  inserts a row without values, and `do_insert` (197) pops from an empty string;
  no execution has a defined continuation. Nothing locks an `mt::mutex`, so the
  assertion of `lock_guard` (32), which is the wrong way round, is never reached.
- The dataflow examples: straight-line programs of a few statements with one
  behaviour each; what is asked of them is what a static analysis sees.
- The CodeQL queries and policies and the Paralegal policy: predicates over
  program graphs that CodeQL and Paralegal compute outside of the repository. They
  keep no state. (`lemmy-instance.ql` says "and" in its header where the query,
  called simplified, says "or".)
- Survey data, expected files and build files; `cpp/websubmit`, which is empty.
- flib.cpp, the dummies of lemmy and `third_party/impl.cpp`: they stand for
  libraries and databases, and are modelled as what their callers and comments
  say.
