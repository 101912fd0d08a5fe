# Elyria: TLA+ models, model checking and proofs

Elyria is a multi-user web application for exploring and testing HTTP APIs:
a FastAPI server over SQLite (or PostgreSQL), pages in plain JavaScript, an assistant
driven by a language model, and four security "teams" (red, blue, purple, grey) that
scan targets in the background.  This directory states what the stateful parts of the
system are meant to guarantee, checks it with TLC on small instances, and proves part
of it with TLAPS for instances of any size.  Paths are relative to the repository; file
names without a directory are under `app/`.

1. [How the program runs](#how-the-program-runs)
2. [Inventory](#inventory)
3. [Modules](#modules)
4. [Runs](#runs)
5. [Proofs](#proofs)
6. [Where the code departs from its own documentation](#where-the-code-departs-from-its-own-documentation)
7. [What the code does that may surprise](#what-the-code-does-that-may-surprise)
8. [What is not modelled](#what-is-not-modelled)
9. [Plan](#plan)
10. [Running it](#running-it)

## How the program runs

These facts decide what is one step in the models and what can interleave.

- `entrypoint.py` starts **one** uvicorn worker: one process, one event loop.
- An `async def` handler that does not `await` runs to its end before the event
  loop does anything else.  It is still not atomic: it makes several commits, and
  the process can die between two of them.  In the models such a handler is one
  step per commit, with a variable (`handler`, `coro`, `bhandler`) that keeps other
  handlers of the event loop out while threads and restarts may come in between.
- A plain `def` handler runs in a thread pool and interleaves with everything: its
  read and its write are separate steps (`thread` in `Teams`, `cb` in `OidcLogin`,
  `hpc` in `ConnectionPool`, `deletion` in `FolderTree`).
- A scan runs in a daemon thread of its own (`pc` in `Campaign`, `thread` in
  `GreyReport`, `bpc` in `BlueTeam`, `spc` in `RepoScans`) and shares the database, a few
  dictionaries and the event broker with the event loop.  None of these dictionaries
  has a lock.
- SQLite lets one connection write at a time; a transaction that has begun to
  write keeps the others out until it commits (`WriteLocked` in `Teams`, `wlock` in
  `ConnectionPool`).  Apart from that each commit is a step of its own.
- Keys, membership, stop flags, subscribers, sandboxes and running sets live in memory:
  a restart loses them and keeps the tables.
- A page is one thread of JavaScript.  It gives way only where it awaits an answer; the
  user may then click anything that is not disabled, and answers come in any order.

## Inventory

For each component: its state, its operations, what is hard about it, and what makes
it correct.  `PROJECT.json` lists all components, those that are not modelled included,
and every hazard at its line with the properties that watch it.

| component | state and operations | hard | correct when |
|---|---|---|---|
| **Key store, master keys** (`database/crypto_store.py`, `auth_users/user_api.py`) | a row with two encrypted copies of one master key, a verifier, words to be shown once; unlocked keys in memory.  Register, log in, change password, recover, log out, expire | row and memory change in separate commits of several requests; a crash can fall between any two | password and words always lead to one key, which nothing replaces |
| **Key store, team and collection keys** | per team a vault key wrapped once per member, per collection a data key; two caches.  Create, get, join, rotate out, open | a rotation serves whoever is logged in; caches are never validated | keys never cross; a cached key is the row's; a rotation never changes data keys |
| **Teams** (`database/teams_api.py`) | teams, members, followers, requests and votes | half of the handlers are threads; votes are read and written back whole | no vote is lost; nobody is member and candidate; all members of a team have one key |
| **Sessions and accounts** (`database/user_mgmt.py`, `auth_users/`) | signing keys and refreshes, the lock of failed logins, states of provider sign-ins, codes of addresses | an answer may be lost after it was paid for; two callbacks walk one dictionary; a count is read and written apart | refreshes are bounded; a state gives one session; a lock ends; the last code verifies |
| **Red team, campaigns** (`redteam/campaign_api.py`, `database.py`, `ai_scanner.py`) | the row, findings, links, a stop flag, a thread in two phases | event loop and thread write one row; a stop is noticed only at points; the model answers anything | the scan ends, its row settles and says what was told, a stop is heeded |
| **Red team, deterministic scanner** (`scanner.py`, `request_graph.py`) | fourteen checks, the graph of requests | a check that raises loses its findings; the site goes away between checks | findings are what the site served; the graph is the log |
| **Scan event broker** (`redteam/scan_events.py`) | queues per scan, the latest event, "done", waiting threads | the list is walked in one thread and changed in another; queues fill; a timeout leaves a thread that eats a message | a stream is in order and ends, whatever was lost |
| **Grey team** (`greyteam/`) | a report with counters, a thread, a container; thirteen collectors over public sources | counters change from two sides; a scan raises anywhere; sources fall silent, each with its own fallback | counters agree; every end releases container and streams; what is told is what the sources said |
| **Blue team** (`blueteam/api.py`) | one row per profile, a set of running profiles, reports | a stop forgets a thread that goes on | the row settles, "completed" has a report, threads are bounded by stops |
| **Purple team, analyses** (`purpleteam/api.py`, `repo_manager.py`) | clones, uploads and local directories under names, a storage limit, a thread in phases | two scans meet in one directory; the check of the limit and the row are apart | a scan nobody met reads its own clone, and leaves nothing |
| **Purple team, scanners** (`dynamic_scanner.py`, `workflow_tester.py`, `openapi_tester.py`, `taint_tracker.py`, `call_graph.py`, `controller_scanner.py`) | live probes; a search for flows; handlers, gates and bodies read off the text | a target that hangs; a search cut at a depth with one set of visited functions; windows of lines and braces | a bypass is real; what is near is found; a handler has its own gate and body |
| **Sandbox** (`sandbox/`, `ely/sandbox_spawn.py`) | a container per user, found, started, stopped by several clients | finding and starting are apart; the end of one destroys what another uses | no client believes in a container that is gone; the one that is kept is found |
| **Database connections** (`database/connection.py`) | a stack of idle connections, transactions, the write lock | a connection comes back with its transaction open | what was answered is durable; one holder; the lock can be reached |
| **Caches and membership** (`core/cache.py`, `core/auth.py`) | entries with a time, invalidation after commits | a value read before a change is stored after it | an answer is no older than the entry's life and a computation |
| **Collections and folders** (`database/collection_mgmt.py`) | rows of folders and requests, a team each may be shared with | a deletion collects, then deletes, while others move | nothing a user may see is unreachable; orphans have a reason |
| **Workflows** (`web_ui/static/workflow.js`, `database/workflow_graph_*.py`) | canvas, runner, what is saved | blocks go while a connection is drawn; runs overlap after a stop; saves, loads and deletions are answered in any order | what is seen is what is run and saved |
| **Assistants** (`ai_core/ai_wrapper.py`, `ely/agent.py`, `ely-copilot.js`) | sealed conversations, a loop over a model with tools, a history kept by the page | a key that expires, a model that fails in the middle of its calls, answers to a page that moved on | calls are answered, actions are told, cleared messages stay away |
| not modelled | see [What is not modelled](#what-is-not-modelled) | | |

The parts interact as follows.  Handlers of `teams_api.py` call the key store after
their own commits; every handler that reads sealed data needs the user's master key in
memory, which the login puts there and a logout, an expiry or a restart takes away.
Scans publish to the broker, whose streams the event loop sends.  The red team and Ely
find the sandbox of the user in one dictionary.  All of them take connections from one
pool, and membership and trees are read through one cache.  The pages ask all of these,
and keep identifiers of rows that others may delete.

## Modules

```
 Vault  <--implements--  MasterKeys   <-- AccountsProofs
                           :  (of a user, TeamKeys keeps only locked / unlocked)
                         TeamKeys     <-- TeamsProofs
                           ^ EXTENDS
                         Teams        <-- TeamsProofs

 Campaign                              <-- CampaignProofs
 Feed   <--implements--  ScanEvents
                           ^ EXTENDS and implements
                         GreyReport    <-- GreyProofs (of the broker too)

 SessionLimit <--implements-- Sessions, OidcLogin, Verification   --> Accounts  <-- AccountsProofs
 BlueTeam, RepoScans, SharedSandbox                               --> Analyses  <-- AnalysesProofs
 ConnectionPool, CachedReads, FolderTree                          --> Workspace <-- WorkspaceProofs
 WorkflowEditor, WorkflowRun, SavedWorkflows,
   Conversations, AgentLoop, CopilotPage                          --> Interface <-- InterfaceProofs
     (Sublists: the filtered lists of the page)
 RedScanner, LiveTests, RepoSources, OsintScan                    --> Scanners  <-- ScannersProofs
```

`MC*.tla` give the constants the values a `.cfg` cannot write, or a constraint, and hold nothing else of
the models; runs without one check the component's own module.  Definitions preceded by a
comment `Slip, for P` are not part of a model: each is a way the definition after it
could have been written wrongly, kept to show that property `P` notices.

**Compositions.**  `Accounts`, `Analyses`, `Workspace`, `Interface` and `Scanners` put together
components that run in one process and share no state the models keep.  A variable
(`traffic`, `task`, `part`, `view`) says which of them a behaviour contains, so that the run
explores the sum of their state spaces and not the product; the actions of the others are
disabled.  Nothing is lost, because no property of one mentions a variable of another; what
components do share (locks of the database, the broker, the sandbox) is inside one of them.

**Grouped properties.**  A run checks a few conjunctions: `PoolSound` is `PoolTypeOK`,
`OneHolder`, `AnsweredIsDurable`, `AllOrNothing` and `LockReachable`.  The conjuncts are the
properties a reader should look at; each stands in its component's module under a comment
that says what it means, and each has a mutant of its own in `PROJECT.json`.

### Vault and MasterKeys

`MasterKeys` has `acct[u]` for the row of `users`; a blob is the pair of what opens
it and what is inside (`wrapPw`, `pwKey`), so that encryption is neither identity nor
bytes.  `mkCache` is `_master_key_cache`, `words` is `_pending_recovery`, `delivered`
records the responses that carried words.  `session` is the password the session was
opened with.

| action | code |
|---|---|
| `CreateRow`, `RegisterMasterKey` | `create_user`: the row, then `register_master_key` |
| `UnlockingLogin`, `LegacyLogin`, `FinishLogin` | `login`: `login_and_unlock`, or the legacy digest; then the session and `consume_pending_recovery` |
| `ChangePasswordUnlock`, `ChangePasswordCommit` | `change_password`: unlocks with the old password, then one `UPDATE` |
| `RecoverWithWords`, `LockingLogout`, `Expire` | `recover_with_words`, `clear_master_key`, an entry older than its TTL |
| `Restart` | the process dies, possibly between two of the steps above |

`Vault` is what a user may rely on: one secret for ever, unlocked by the current
password or by the words, in memory or not.  The refinement maps the secret to the
key in the recovery blob, the password to the verifier, memory to the cache.

Left out: what is sealed with the keys (`seal_*`, `crypto_seal`, `crypto_open`), and a
second draw of a master key, which exists in `Key` only to be ruled out.

### TeamKeys

Keys are named by their owner and the number of the draw; `row[t][u]` is
`team_users.wrapped_tvk` (`NoRow`: no row; `NoBlob`: empty), `dekRow[c]` a row of
`collection_keys`, `tvkCache` and `dekCache` the caches.  Of a user it keeps whether
the master key is in memory, which is what `Vault` says of it.  `RotateOut` is the
whole of `remove_member_from_team`: the first remaining member whose row opens
supplies the old TVK, the DEKs it opens are wrapped under the new one, the rows of
the unlocked members are rewritten, the others are left.  `InsertRow` and `DeleteRow`
are the writes of `teams_api.py`.  The three caches age separately (`Expire*`).
`remove_member_from_team` has no caller outside the tests, for the endpoints import a name
that does not exist: what `team_keys` says of rotations (`DeksSurviveRotation`,
`RotationServesUnlocked`) it says of the key store, for whoever will call it.

### Teams

`Teams` adds the tables of `teams_api.py` to `TeamKeys` and drives its actions.
`create_team` and `validate_request` are cut at each commit (`coro`); inside
`validate_request` the transaction is open from its `UPDATE` to its commit, with
`get_team_key` in between (`ValidateKey`, then `ValidateAdmit`).  `follow_team`,
`list_followed`, `remove_member` and `leave_team` are checked in one step and written
in another.  The `ImportError` at `teams_api.py:290` is after the commit and changes
nothing, so `RemoveCommit` ends there.

### Campaign

One campaign, scanned once, from the `INSERT` of its row.  `pc` is the step of the
thread: every commit, every test of the stop flag and every request to the model is
a step.

| steps | code |
|---|---|
| `begin` .. `phase1` | `Scanner.run_all`: the loop over the checks, `progress_cb` after each |
| `stop1`, `save`, `stop2` | the stop test, the loop of `add_finding`, the second test |
| `phase2`, `head` | the start of `AIScanner.run`, the head of its `while` |
| `beat` .. `report` | an exploration round: `_beat`, the request, the nudge and second request when no tool was called, the progress |
| `tally` | the end of a batch, `dry_rounds`, the choice of the next analysis |
| `beatA` .. `reportA` | an analysis round |
| `sweep`, `reportS`, `wrap`, `skip` | the final sweep, the last notes, the finding that tells of a failure |
| `complete`, `failed`, `tell`, `cleanup` | the status, then "done", then the clean-up |

A request to the model is a choice: it reports a finding, reports none, calls no
tool, fails, or its finding cannot be stored because the campaign was deleted.
`Timeout` is `asyncio.wait_for(..., 900)`, which cancels where the coroutine awaits.
`AddFinding` deduplicates by title and place and links an AI finding to one of the
scanner; what it compares is the title as the code cuts it (`BaseTitle`).

### Feed, ScanEvents

`ScanEvents` is the broker for one scan.  `writer` is the walk of `publish` or
`cleanup` over the list by index, so that a subscriber that leaves in the middle
shifts the list under it, as it does in Python.  A subscriber goes through `new`,
`replayed`, `queued` (waits for a thread of the executor), `getting`, `done`, and ends
or is gone.  `parked[s]` counts executor threads that still wait on the queue of `s`
for nobody; `InUse` pairs a stream with each thread it holds.  The queues that `publish`
found full leave the list one after the other, in step `drop`.  Events are numbers.

`Feed` is what a client may count on: after the replay, events come in the order of
their publication, each at most once, some may be missing, and the stream ends by
itself only when the scan is over.

### GreyReport

`GreyReport` extends `ScanEvents` with the scan that drives it: `thread` is the step
of `_run_scan`, every publication calls `Publish`.  `DeleteReport`, `DeleteFinding`
and `OpenStream` are requests.  Findings are counted by source.  `UpdateReport` is the
SQL statement with its parameters in the order the code gives them.

### SessionLimit, Sessions, OidcLogin, Verification

`Sessions` is one password account.  `row[k]` is a row of `keys` with the refreshes it has
consumed and the refresh token it knows; `signed`, `live` and `tab` are what was signed, what is
still good and what the browser holds.

| action | code |
|---|---|
| `LoginRefused`, `Login` | the lock, the count of failures (read, then written), `add_key` |
| `Refresh(k, g, heard)` | `consume_refresh` first, the master key looked for after it, the new digest; `g` may be a token exchanged earlier, `heard` says whether the answer arrived |
| `Logout`, `Forget`, `TokenExpires`, `MasterKeyGone`, `Tick` | `logout`, the tab that gives up, the hour of a token, the cache of keys, the clock of the lock |

`SessionLimit` is what the table promises: a session is opened once, signs at most
`1 + MaxRefreshes` tokens, and signs nothing once it is closed.

`OidcLogin` cuts a callback at every access to the dictionary, the provider and the database:
`List` (which raises when the dictionary changes size under it), `Sweep`, `Pop`, `Exchange`,
`Find`, `TryName`, `Insert`, `Issue`.  `Verification` is `create_user`, `resend-code` and
`verify-email` with codes that arrive late.  `verify-email` makes two commits, `VerifyEmail` (the mark
of the account) and `ConsumeToken`; either may fail and is answered as if it had not, and the
process may die between the two.

### BlueTeam, RepoScans, SharedSandbox

`BlueTeam`: a handler holds the event loop (`bhandler`) while threads of earlier analyses
(`bpc`) go on.  `StopAnalysis` forgets the profile, `EndAnalysis` of any thread removes it from
`_running`, whoever put it there.

`RepoScans`: `disk[p]` is whose sources a directory holds, `rows[p]` what `purpleteam_repos`
says of it.  A scan clones (`Clear`, `CloneDirect` or `CloneViaSandbox`; `CloneFails` with or without a
part of the clone on the disk), is checked against the
limit (`CheckQuota`, then `RegisterRepo`, apart), reads in phases (`Detect`, `Static`, `Dynamic`),
and releases (`Release`, `Purge`, `Unlist`).  `layout` chooses the world: two profiles on
repositories of one name, two names the limit does not hold together, one profile scanned
twice, an upload under another's name, a directory of the user's machine.

`SharedSandbox`: clients look in `user_sandboxes`, start a container when there is no tool
there (`Look`, `Started`: apart), run commands, find it dead and start another (`Checked`,
`Respawn`), and destroy what they find at their end (`Remove` the container, `DropSandbox` from the
tool, `ForgetTool`: another client may come in between).  `Shutdown` and
`Killed` are the two ends of the process.

### ConnectionPool, CachedReads, FolderTree

`ConnectionPool`: `pool` is the stack of idle connections, `open[c][h]` the statements of handler
`h` in the open transaction of `c`, `durable[h]` those that are committed, by whomever.  A handler
is `Careful` when it closes in a `finally` clause: then a failure gives its connection back
with the transaction open, and the next handler that commits on it commits both.

`CachedReads`: readers `Ask`, `ReadRow` and `Store`; writers `Change` and `Withdraw`; entries end
(`Pruned`), time passes.  `acting` says which writers remove the entry: all of them for a
membership, some for a tree, which is removed for the acting user only.

`FolderTree`: `DeleteFolder` starts a deletion that `Collect`s level by level and then erases
what it collected of its own author.  `FolderMap` and `SavedList` are what the queries of the tree
find, `Under` is where the tree puts it.

### WorkflowEditor, WorkflowRun, SavedWorkflows

The canvas keeps identifiers and the index of the selected connection; `tags` stand for the
blocks a user sees, so that `EdgesAsDrawn` can compare the two through renumbering.  The
runner is a stack of `executeNode` calls per run; it gives way only where it waits for a
request (`Waits`), and there the user may stop it, edit the graph and start another.
`SavedWorkflows` is a page whose requests are served in one order and answered in another, or
never: `LoseSave` and `LoseAnswer` are a save and a deletion whose answer does not arrive, before
or after the server did what was asked.

### Conversations, AgentLoop, CopilotPage

`Conversations`: rows are commits of their own, sealed under a key that may go at any step;
the provider is external and `Accepted` is what it takes: no empty list, and calls answered
right after they were made.  `AgentLoop`: `TakeTurn`, `ForceActions`, `Final`, the actions carried out
between them, and their failures.  `CopilotPage`: the history in the page and in the storage of
the tab, several questions at a time, a page that is left.  The storage may refuse a write, which the
page ignores: `behind` says that what a reload would restore is older than what is seen.

### RedScanner, LiveTests, OsintScan

A scan is a loop over checks (tests, collectors), each of which waits for nothing but its own
requests, and is one step.  Between two steps the world may change: the site goes away and
comes back, the target hangs, sources fall silent, a stop is asked for, the row is deleted.
What a site, a target or a domain may be is a record of the constants (`Sites`, `Targets`,
`Worlds`) that says what it answers to each kind of request.  In `RedScanner` the order of the
checks matters through `graph`, which the checks fill and the last one reads.  A check that
raises tells only that it failed.  `SwapOf` is the pair of string replacements with which an identifier
of a path is changed, so that it may change a second segment or make the identifier longer; of
the identifiers found the first three are tried (`MaxTried`).

### RepoSources

Its variables are the depth-first search of `taint_tracker.py`, one call per step.  Beside it, it
reads a source given as lines of a few kinds (`route`, `gate`, `def`, `stmt`, `open`, `close`,
`branch`, ...); a window of characters is a window of lines.  A function has a `shape`, which is
what the patterns stumble over: `plain`, a return type of one `word`, a `typed` one of more than a
word, parameters with a `nested` parenthesis.  `Simple` and `Whole` say which of them the patterns of
the controllers, and those of the call graph and the taint tracker, take in.  The operators are
those of `controller_scanner.py`, `call_graph.py` and `taint_tracker.py`, and their reference
definitions (`HandlersOwn`, `GateSeen`, `TopLevelBodies`, ...) say where the reading is right, over all
sources of two to four lines.  They were compared once, outside these files, with the program's own
functions, run on the text of every source of the run: controllers, gates, functions and bodies were
the same.  The bodies the tracker takes from Go, Ruby and PHP are left out.

## Runs

All with TLC, each in well under five minutes with two workers.

| run | states | instance | what it shows |
|---|---|---|---|
| `master_keys` | 14,877 | 2 users, 2 passwords | `AccountsSound`: both blobs of an account and its verifier agree, also between the steps of a request, and waiting words open.  The store implements `Vault`: one secret per user, for good. |
| `team_keys` | 489,264 | 1 team, 3 users, 1 collection, 3 vault keys, 2 data keys | `TeamKeysSound` (keys belong, caches agree with rows), `DeksSurviveRotation`, `RotationServesUnlocked`, over every order of joins, rotations, expiries, restarts. |
| `teams` | 296,078 | 1 team, 3 users, 1 vault key | `MembershipSound` (nobody is member and candidate), `VotesCount`, and `OneTeamKey`: whoever joins, leaves and comes back, a team has one key. |
| `removed_cannot_decrypt` | | as `teams` | violates `RemovedCannotDecrypt`; see below |
| `campaign` | 275,325 | 2 checks, a profile of 5 exploration and 2 analysis rounds or one of 1 and 3, 2 prompts, 3 dry rounds, 2 titles, 1 place | `FindingsSound`: the row settles, says what was told, links are complete.  Stops are heeded (`AbortedIsQuiet`), and the scan ends (`CampaignEnds`: `StopEndsPhase1`, `ScanEnds`). |
| `scan_events` | 117,223 | 2 streams, queues of 2, 1 executor thread, 2 events and "done" | Streams keep the promise of `Feed` and end (`StreamsEnd`). |
| `grey_report` | 282,808 | 1 stream, queue of 1, 1 executor thread, 2 findings, at most 9 events | `ReportSound` (counters agree with findings, the sandbox is released), the scan uses the broker as `ScanEvents` allows (`ImplementsEvents`), its streams end. |
| `accounts` | 281,234 | 2 sessions of 2 refreshes, a lock after 2 failures; 3 states in 2 threads, 3 names; 3 resends | `SessionsSound`, `SignInsSound`, `VerificationSound`, the table implements `SessionLimit`, locks end and callbacks are answered (`TrafficServed`). |
| `analyses` | 226,741 | 3 blue analyses, 1 stop; 2 scans in 5 layouts, a limit of one clone; 3 clients of a sandbox, 4 containers | `AnalysesSound` (`BlueSound`, `ClonesSound`), `SandboxSound`, everything ends (`TasksEnd`). |
| `workspace` | 555,357 | 3 handlers of 2 statements, a pool of 1; 2 readers, 2 writers, 4 ticks; 2 users, 3 folders, 1 request, 1 deletion | `PoolSound`, `ReadsSound`, `TreeSound`, `HandlersEnd`, `DeletionKeepsToItself`. |
| `interface` | 305,210 | 3 blocks, 2 connections, a load; 2 runs over 4 graphs, a stop, an edit; 3 requests; 3 chats of 2 rounds and 2 calls; 2 turns; 3 questions on 2 pages | `WorkflowsSound`, `AssistantsSound`, `WorkEnds`, `BrokenIsNeverAnswered`. |
| `scanners` | 156,366 | 74 sites, 1 outage; 3 targets, 2 troubles; a thousand call maps, depth 2; twelve thousand sources in eleven frameworks; 4 domains, 5 sets of silent sources, 4 choices of modules, 1 change | `RedScanSound`, `LiveTestsSound`, `SourcesSound`, `OsintSound`, `ProbesFresh`, `ScannersEnd`. |

The names of the conjuncts say what is asked: `TreeSound` is `NothingHidden` and
`OrphansExplained`; `WorkflowsSound` is `OneIncoming`, `EdgesAsDrawn`, `RunsBounded`,
`PathsTaken`, `ServerAgrees`, `SavedIsKept`, `OwnDrawing`, ...; `OsintSound` is `ToldWasSaid`,
`NoSilentModule`, `NamesComplete`, `ExposedTold`, `BasesCovered`, `SteadySiteAgrees`.

### Bounds, and why they are enough

- *Users and passwords.*  Accounts are independent but for `handler`, which two users
  exercise; two passwords allow a change and a change back.  Three users are needed
  for a rotation with one who leaves, one who supplies the key and one who is not
  logged in, and for a team that outgrows the votes a request asked for.
- *`MaxTvk`, `MaxDek`.*  Three vault keys are two rotations, so a row may be two keys
  behind; two data keys are one re-creation of a collection.  Proofs have no bound but
  these constants, which are any natural number.
- *One team.*  Teams share nothing but the users' master keys; that keys of two teams
  never mix is proved for any number of teams.
- *`OneThread`* (constraint of `teams`): one request of the thread pool between its
  read and its write at a time, next to the coroutine in progress.  The theorems on
  `Teams` have no such bound.
- *Symmetry* under permutations of users in the runs on `TeamKeys` and `Teams`, whose
  definitions treat users alike; these runs check no liveness.
- *`Checks`, `Profiles`, `Prompts`, `DryLimit`.*  5 exploration rounds for 2 analyses make
  batches of 2 with a last one cut short; 1 round for 3 analyses makes batches that
  are rounded up to one, and three analyses with two prompts reach the index error
  that 25 analyses with five prompts reach in the code (`ai_scanner.py:937`); 3 dry
  rounds are reachable before the loop ends.
- *`QueueMax`, `Workers`, `Events`.*  Queues of 1 or 2 fill, and a single executor thread is
  taken by another stream or by a parked thread; in the code they are 100 and the
  default of the executor, for as many streams as browsers open.
- *`Modules`, `Rounds`, `Found`.*  A grey scan with one module event, two findings and two
  AI findings; the bound on `Rounds` ends the AI's rounds as the refiner's limit does.
- *`MaxRefreshes`, `MaxFailed`, `LockTicks`.*  2 refreshes are the default of the table; a session
  can be refreshed, refused and refreshed again.  Failures and a lock that end are reached
  with 2 and 2 (10 and 15 minutes in the code).  3 states and 2 threads: a listing that
  another thread disturbs, two callbacks with one state, and one more sign-in after both.
- *`Jobs`, `MaxStops`.*  A third analysis may begin after the end of the first has taken the mark
  of the second.  One stop makes two threads; the bound of `OneMorePerStop` is by stops.
- *`Scans`, `Paths`, `Quota`.*  Two threads can meet in one directory at every pair of steps, and
  pass one check together; crashes leave a clone to a later scan.
- *`Handlers`, `MaxIdle`.*  Two careful handlers and one careless, of two statements: a failure
  between them, a connection taken over, and a third handler that waits for the lock.
- *`Ttl`, `Flight`, `MaxTime`.*  An entry of two ticks can be stored one tick late and still be
  served when its version is long replaced.
- *Folders.*  Three make a chain with a deletion at its head and a creation or a move below.
- *Canvas, runner, requests.*  Three blocks and two connections are what a wrong end of a
  drawn connection needs; the four graphs have a chain with a saved workflow, a loop, a
  list of words, and a branch; three requests are a save, a load and a deletion in flight.
- *Chats, turns, questions.*  A chat that breaks, one that finds it broken and a third; the
  round of tools and the final one; a question in flight while two others are cleared.
- *Sites, targets, worlds.*  Chosen so that each branch of each check is taken by one of them,
  with what disturbs it (a redirect, a list where an object is read, a page that never
  answers, a document served to two methods).

Runs that stop by design (a scan is over, requests are used up) do not check deadlock.
`master_keys`, `team_keys`, `teams` and `campaign` do.

### Fairness, and why the code justifies it

- `WF(Thread)` in `Campaign`, `WF(Scan)` in `GreyReport`, `WF(BlueStep(j))`, `WF(ScanStep(s))`: a
  thread that can go on does.  What it waits for has a time limit: HTTP requests, model
  calls, git, commands in a container, the 900 seconds of phase 2.  The start and the removal of a
  container have none (`sandbox/manager.py:74`, `:120`): that `docker run` and `docker rm` return is an
  assumption about Docker, on which `StreamsOfScanEnd` and `TasksEnd` rest.  Nothing is assumed of
  the model's answers, of stops or of deletions, and a restart may end the thread at any step.
- `WF(Write)`: `publish` and `cleanup` never block; they walk a list that is finite at
  any time.
- `WF(Serve(s))` for each stream: the event loop runs every coroutine that is ready,
  and a wait ends after 15 seconds at the latest.  It is not assumed that a stream
  ever gets a thread of the executor, a message, or its "done" event.
- `ScanEvents` alone also assumes that the scan ends (`Finishing \/ Ending`);
  `GreyReport` derives it from its own thread.
- `WF(Step(t))` for callbacks and `WF(HandlerStep(h))` for handlers: threads of the pool run;
  SQLite gives up a wait for its lock after its timeout (`Locked`).  `WF(Tick)`: time passes.
- `WF(RunStep(r))`, `WF(ChatStep)`, `WF(AgentStep)`: a run, a chat and a turn go on; `fetch` and the
  providers have time limits or fail.
- `WF(Turn)`, `WF(NextTest)`, `WF(Onward)` for the scanners: a check, a test, a collector ends,
  because its requests have time limits; a test whose target hangs is not enabled, for the
  limit `dynamic_scanner.py` sets has no effect, and `LiveTestsEnd` says so.

No safety property depends on fairness.

## Proofs

Checked by TLAPS, for any finite or infinite sets of teams, collections and
passwords, finite sets of users, threads, handlers, readers and writers where
cardinalities matter, and any bounds.  The assumptions are those named in the modules:
sentinels such as `NoKey` are not keys, owners of keys are distinct, bounds are natural
numbers.  TLC evaluates them on every run.

**`AccountsProofs`, of the master keys.**  The inductive invariant is

    IInv == TypeOK /\ AccountCoherent /\ HandlerCoherent /\ PendingWordsOpenable

`AccountCoherent` alone is not inductive: a password change reads the key from memory
in one step and wraps it in the next, and only `HandlerCoherent` says that the key in
memory is still that of the row.  `StepIInv` shows, one action after the other, that it is
kept.  From it `AccountsStaySound`; `StepEffect` says what each step does to the secret, the
password and the memory, and gives `Refinement` (the store implements `Vault`).

**`TeamsProofs`.**  First the keys, as any specification uses them whose steps are those of
`TeamKeys`:

    IInv == TypeOK /\ KeysBelong /\ CacheAgreesWithRow /\ DrawnKeysOnly

`DrawnKeysOnly` bounds every key in use by the number of draws; it is what makes the
next draw different from all keys in rows and caches.  The invariant is split into what it
says of one member of one team and of one collection (`Entry`), so that each action is a few
cases.  From it `TeamKeysStaySound` and the action properties `RotationKeepsTheKey` and
`RotationsServe`: a step that gives a team a new generation is a rotation, whose key is drawn
anew, so that nobody else's row or collection can be mistaken for one that was served.  Then the
teams:

    MInv == MemberTypes /\ PendingNotMember /\ ValidationCoherent

`ValidationCoherent` says that between the check of a validation and its commit the
request is still there, and that past the `UPDATE` it has its votes; it holds because
no other coroutine runs and threads never touch `pending`.  The handlers are written with the
actions of `TeamKeys`, so that its theorems carry over (`KeySteps`, `KeysNeverCrossInTeams`).
Then `MembershipStaysSound`, `VotesAreKept` and `TeamsKeepTheirKey`, whose invariant is the
property itself: a key is drawn once, before any row wraps one, and what `get_tvk` yields
for whoever admits a member is that key (`TvkIsFirst`).

**`CampaignProofs`.**

    CInv == StepTypes /\ FlagTypes /\ CountTypes /\ ToldIsStored /\ Counts /\ Telling /\ Quiet
    FInv == types of findings and links /\ LinksComplete
            /\ no finding of the AI before phase 2 /\ none of the AI waits to be saved

`Counts` says what each step of the thread has already tested (a round is begun with rounds
left, a batch with `dry` below its limit); with `BatchEnds` it bounds the counters although a
batch that is broken out of counts as a whole.  `Telling` says that the row holds the verdict
from its `UPDATE` to the event, or the "stopped" that was written over it.  `Quiet` says that a
stop that was noticed was asked for, and keeps the thread out of every step that asks a model.
`AddingKeepsLinks` is the heart of `FInv`: a finding of the AI does not change what others match;
one of the scanner might, and comes before them all, but for the note that the AI was
skipped, which has a title and a place no finding of the AI matches.  From these
`FindingsStaySound` and `AbortedStaysQuiet`.  `CampaignSentinels` asks that this note's title is
none that `BaseTitle` makes: the code's is a fixed text without a leading space.

**`AccountsProofs`.**  One invariant for each part, since no step of one touches another:

    SInv == SessionsTypeOK /\ (failed = MaxFailed => lock # NoRow) /\ an entry per session
    OInv == OidcTypeOK /\ PoppedOnce /\ NamersBounded
    VInv == VerificationTypeOK /\ VerifiedByLastCode /\ what token, mailed and told say of each other

`PoppedOnce`: a state is gone from the dictionary for as long as one callback holds it and ever
after.  `NamersBounded`: accounts and the threads about to make one are together no more
than the threads, for a thread that looks once there is an account finds it.  From them
`SessionsStaySound`, `SignInsStaySound`, `VerificationStaysSound`, and the refinement
`SessionsImplementLimit`.

**`GreyProofs`.**  The broker first, under `ImplementsEvents`, which is all it knows of a scan:

    EInv == EventsTypeOK /\ types of the walk /\ nobody listed is "new"
            /\ WalkAgrees /\ NewToTheRest /\ QueueAgrees(s) for each stream s

`QueueAgrees` says that a queue holds events in order, above those its stream was sent, and an
end only when the scan is over.  It is not inductive, for the walk of `publish` goes by index
through a list that streams join and leave meanwhile: `NewToTheRest` says that those the walk has
still to reach have not got the event it carries.  It survives the removal of a queue from the
list because those behind it move to a lower index, so that some may be missed and none
is served twice.  From `EInv` every step is one of `Feed` or none (`StepFeeds`, action by
action, with `Phases` as the refinement), hence `BrokerKeepsItsPromise`, and `BrokerIsBounded`,
whose part on executor threads counts the pairs of a stream and a thread (`InUse`).  Then the
report:

    GInv == EInv /\ GreyTypeOK /\ CountersAgree /\ the sandbox is gone after "finally"
            /\ EventsBounded /\ DoneAtTheEnd

`EventsBounded` follows the number of events through the steps of the thread; it shows that the
bound `Events` on the broker (given `ReportParameters`) stops no scan.  `DoneAtTheEnd` says that
no end is published before the last step and that the latest event is kept until cleanup.
`StepGInv` shows that every step of a report is one of the broker, which gives `ScanUsesTheBroker`,
`ReportKeepsThePromise` and `ReportIsSound`.

**`AnalysesProofs`.**  One invariant for each of the three long tasks:

    BInv == BlueTypeOK /\ MarkSpent /\ HandlerAlone /\ BeforeRow /\ OneReportEach
            /\ CompletedHasReport /\ RunningHasThread
    CInv == ScansTypeOK /\ RowsCounted /\ Holding /\ NeighboursMet /\ OwnClones
            /\ ClonesWithin /\ DirectoriesTidy
    XInv == SandboxTypeOK /\ Believed /\ (aside = {} => Alone /\ KeptIsFound)

`MarkSpent` bounds the threads of a profile: the mark in `_running` is spent on the first that
ends, so that there is one more than there were stops only while it is there.  `OwnClones` follows
what the directory of a scan holds from the clone to the purge, as long as no other thread met
it there.  `ClonesWithin` counts the clones that passed the test of the quota and are not in the
table yet.  `Believed` and `Alone` separate what holds of every container from what holds only of
clients that follow each other.  What the quota counts is a sum over directories,
taken with a fold of the library; `SumChanged` says how it changes with one directory.  It
rests on an induction over the subsets of a finite set (`TakingAway`), with a set in the place
of the predicate: `LeastNatural` and `CountingUp` get it from the well-foundedness of the
naturals, without a theorem that takes an operator.  The proofs made some assumptions explicit:
the home of a user is not the local directory of a profile, there are finitely many
directories, and `None` is no number.  From these `AnalysesAreSound` and `SandboxIsSound`.

**`WorkspaceProofs`.**

    PInv == PoolTypeOK /\ Holders /\ Books(g) for each handler g
    DInv == CacheTypeOK /\ Flights /\ Counted /\ EntryAged /\ floor <= acked /\ LagBounded /\ WritesSeen
    TInv == TreeTypeOK /\ OrphansExplained /\ Collected

`Books` keeps account of where the statements of a handler are: in one open transaction or
durable, never more than it executed, and all in its own connection until it fails.  `EntryAged`
bounds the end of an entry by the commit that made it old, which is what `LagBounded` needs
of the next reader.  `Collected` says of a deletion under way that what is below a collected
folder is collected or came by chance.  `Rooted` says that a parent is older than its folder:
with it, induction over identifiers shows that opening a tree level after level, as many times
as there may be folders, reaches every folder of the map (`MapIsReached`).  From them
`PoolStaysSound`, `ReadsStaySound`, `TreesStaySound`, `OrphansHaveReasons`,
`DeletionsKeepToThemselves`.

**`InterfaceProofs`.**  The assistants.  For a conversation,

    ConversationInv == ConversationTypeOK /\ AnswersMatch /\ (rows are sound whenever the
                       provider answers) /\ (one answer waits for results while calls are made)

and nothing is broken until there was trouble; from it `AssistantsStaySound` with the transcript of
Ely (`AgentInv`: while actions are carried out exactly one answer has calls without results, the
last) and the history of the copilot (`CopilotInv`: answers under way are not in it yet), and
`BrokenStaysUnanswered`.  `AtPlacesIsPart` says of the elements at some places of a sequence that
they are all there, in their order; a list that is cut or filtered inherits what holds of its pairs
(`PartsToo`, `AmongIsPart`).

For the workflow page,

    WorkflowsInv == CanvasInv /\ RunInv /\ PathInv /\ SavedInv

`CanvasInv`: the drawing on the canvas and the one in store are graphs whose blocks have names and tags of
their own below those still to give, and, until a load misled the user, they show what was drawn.
`RunInv` counts the runs: one that holds the button, and one for every stop at the most.  `PathInv`
is about runs nobody disturbed.  The calls of a run are the way from Start to where it is, without a block
twice (`StackSound`: each block has one connection that leads to it).  From each connection of a block no
call is in, its target was entered as often as `PathsTaken` says at the end; where a call is in the block, as
often as for the entries before, and what this call has taken so far (`EntersAs`, `Parts`); and
on a chain the blocks entered are the walk of the server up to there (`Lined`).  Each step is shown to
keep this once for any graph `WellDrawn` (`IteratePath`, `FollowNextPath`, ...).  `SavedInv`: a save under
way writes the drawing its row is of (`DrawingInv`), a row that is gone and not by a crossing is one whose
deletion the page has yet to hear of (`RowInv`), and with one save at a time what is not in the row yet
is on its way (`LastInv`).  From them `WorkflowsStaySound`.

**`ScannersProofs`.**  The collectors of a grey team scan, and what a purple team scan reads off
the sources.  `ModuleCollected` says once what the finds and requests of any module have to be
(`Honest`, `Speaks`, `Exposes`); each collector is shown to be so, and nothing before it is taken
back.  Only `SteadySiteAgrees` is not
inductive: `SteadyInv` adds that as long as the network stayed as it was, the page could not be
fetched exactly when a module told so.  `ActiveOnce`, that no module is collected twice, keeps "none
exposed" from standing next to a path told of earlier; `EnoughAsked` counts the names of the
sources; `OnePerName` finds the first component of each name.  `WorldsAssumption` says what a
source can answer at all.  From them `OsintStaysSound`.
For the sources `ReadInv` says that what was read is what the patterns find.  The rest is about
the patterns: `HandlersAreOwn`, `GatesAreSeen`, `BodiesOfTop`, `TaintInBlock` (a body that begins with the
first line of a block stays in the block, `IndentInBlock`), and `BraceInBlock`, the hard one, that
the first closing brace too many comes after the braces of the body are even (`ClosedBefore`, from
`Counting`).  For the taint tracker `TraceInv` adds that the frames are a path of
calls below the call of the handler (`FramesLead`: so a flow is at most `MaxDepth` calls away), that
every function visited that is a sink was told, and that what the bottom frame followed was visited:
when it is left, all its calls are settled.  From them `SourcesStaySound`, for every repository and
source the assumptions `SourcesAssumption` and `TaintAssumption` give types.
For the live tests `LiveInv` says that every title stored is true of the target (`Real`), that the
counts cover them, that trouble there was if the row is gone, and that from the third test on all that
a steady target opens is named.  A lemma per test shows that what it tells is `Fair`: finitely many
findings, each of them so, and none while the line is down; `TestedInv` needs no more.  From them
`LiveTestsStaySound`, for every set of targets that `LiveAssumption` gives types.

**Only model-checked.**  Liveness under fairness (`StreamsEnd`, `StreamsOfScanEnd`,
`CampaignEnds`, `TrafficServed`, `TasksEnd`, `HandlersEnd`, `WorkEnds`, `ScannersEnd`), for which
the prover has no means.  And the scanner of sites of the red team (`RedScanSound`, `ProbesFresh`), whose
graph is folded from its log: a statement about folds over the log needs an induction over data.

## Where the code departs from its own documentation

The first is the run `removed_cannot_decrypt`; the others were shown by the models and by
runs that have since made room for others.

- **Removal** (`RemovedCannotDecrypt`, `database/teams_api.py:290`).  The endpoint imports a
  function that does not exist, after its commit.  No key is rotated, and the cached key of
  the removed member lives on.  The run's trace is a removal by `remove_member`.
- **Password reset.**  A comment at `auth_users/user_api.py:364` says that a reset by e-mail
  "creates a new account state (new master_key)" and that the e-mail says so.  The handler
  changes nothing: neither the key, as `ImplementsVault` states, nor the password.
- **Recovery words.**  They are erased from the row before any response carries them, and
  wait in memory; a restart, or an unlock by a password change, loses them for good while
  the row says they were shown.
- **Rotation.**  A remaining member who is not logged in keeps the old wrapped key, while
  all data keys move to the new one: the member, even the creator of the team, opens
  nothing any more.
- **Stop in phase 1.**  The documentation says that findings are kept; the thread returns
  before the loop that stores them (`redteam/campaign_api.py:457`).
- **Links by title.**  The prefix `[AI] ` has five characters and four are cut, so no title
  ever matches; an AI finding that repeats a global finding stays unlinked.
- **Status of a grey report.**  Two parameters of the update are in the wrong order
  (`greyteam/database.py:237`); the stream says the scan is over and the row says "running"
  for ever.
- **What a purple scan removes.**  A comment at `purpleteam/api.py:325` speaks of the cloned
  repository; a profile on a local directory has its user's directory removed.
- **What a purple scan leaves.**  `purpleteam/repo_manager.py:80` says that files are purged after a
  scan.  A clone that runs into its time limit raises before `repo_path` is set
  (`repo_manager.py:122`, `:138`): what came so far stays, counted by no quota, until a scan of a
  repository of the same name clears it (`CloneFails`, `Clear`).
- **Generated identifiers.**  A docstring at `redteam/campaign_api.py:219` calls
  `{param: [ids]}` compatible with the scanner; the check that reads them raises, or returns.
- **Fuzz blocks.**  Their description asks for a request to be connected to the body output and back to
  the block (`web_ui/static/workflow.js:94`).  A connection drawn to an input replaces the one it has
  (`workflow.js:1611`, `OneIncoming`), so that the way back cuts the way in.
- **Compaction.**  Documented every N rounds; done whenever a conversation has ten messages.

## What the code does that may surprise

Met while modelling; the models do the same.  None is a property's violation: nothing in the
repository promises otherwise, or the piece of code is sequential and the reader can see it.

*Red team scanner.*  `if resp` is false for every answer of 400 and above, so the conditions
that name 401, 403 or 405 never hold.  `check_tls` says `datetime.datetime` after
`from datetime import datetime`: it fails for every certificate it verifies, and a handshake that
fails is repeated in the handler.  A check that fails loses all it had found.  Exposed
documents are judged by the status of the last method tried.  The fuzzing check raises when
its baseline had no answer; an encrypted token that cannot be opened is not looked at; one
saved request out of reach ends the probes of a payload.  An identifier is changed by replacing
text in the whole path (`scanner.py:262`): a segment that repeats it, or begins with it, changes too,
and 12 in the place of 1 becomes 122, for a second replacement finds the first's 1.  Redirects without a body and bodies
that are lists give the graph no edges.  `s.timeout` has no effect, and
`check_contract_endpoints` and `check_smart_bola` have no caller.

*Live tests.*  A gated path that answers 200 is told as a bypass "without authentication" though
the profile's credentials were sent.  Findings of header bypasses share one title: they are
stored once and counted each.  The tests of object access and of races send nothing (the
identifier is replaced beforehand; `self._session` does not exist).  Requests of the dynamic tests
have no time limit, so a target that hangs keeps the scan for ever.  Tests of deserialization
and code injection test nothing; sink tests look only at answers below 400.  The second
workflow does not use the identifiers it found when parameters are declared; the session
workflow returns before its token check when the baseline fails.  Payloads in paths are
never sent, patterns and nested constraints never tested, and a key of a path item that is
text makes the whole phase be skipped.

*Reading of sources.*  A Flask path with a parameter raises, and no controller is read at all;
the handler of a Flask route is that of the next route.  A Spring or NestJS route whose method has a
type of more than a word, or a parenthesis among its parameters (`ResponseEntity<X> f(`, `@Body()`),
is given the next method that has neither.  A gate with arguments directly above a Python function
is swallowed by the pattern, and gates of neighbours within the window count.  No Spring handler
ever has a gate: `\{{0,2}}` of an `rf` string (`call_graph.py:277`) is the text `{0,2}`.  The tracker
looks for sinks in a body taken by indentation in every language (`taint_tracker.py:244`): after a
whole header that body is its first statement with what is below it, after a header with
`Depends(x)` or `-> dict[str, int]` the rest of it; a second function of a name gets the body of
the first, and one without a body the next 2000 characters or 80 lines.  A body given by braces
begins after the function's own brace.  The call graph ends a body at two columns.  Django, Rails
and the generic reader drop parameters; of functions of one name the last wins.

*Taint.*  A function visited at the limit of the depth by a long path is not expanded from a
shorter one; the path of a flow leaves out the functions in between; a sink that is called
directly ends the search; duplicates use up the thirty flows.

*Grey team.*  A TLS certificate tells nothing (`CERT_NONE` gives an empty dictionary);
`includeSubDomains` is always missing from a header with a `max-age`, for it is looked for in
lower-cased text; failures of
GitHub and of the vulnerability database are told as absences, and so is a DMARC query that
fails (so `ToldWasSaid` says nothing of DMARC); an archive whose rows are all short is told of with no
word; a site that shows only paths of low severity has "No trivial/sensitive paths found exposed"
(`osint_scanner.py:2000`); the word "failed" in a good WHOIS answer makes it incomplete; a site that cannot be
reached has "none exposed"; components of a family ("CMS: ...") collapse to one; `stop_check` and
`ai_provider` are handed over by no caller, so a stop stops nothing and one collector's AI is
dead code.  A report whose profile has no domain keeps "running" without a thread
(`greyteam/api.py:192`).

*Long tasks.*  A purple scan without an endpoint ends "failed".  Stops of the blue and purple
teams are overwritten by the thread.  The expert scanner has no stop test.  A campaign
interrupted by a restart stays "running" (`redteam/campaign_api.py:210`).  More than five
analyses run into an index error (`redteam/ai_scanner.py:937`), which the run `campaign` reaches.
`NoOpBashTool.handle(args)` is called with `params=`.

*Connections and folders.*  The PostgreSQL wrapper rolls back and never gives its connection
back.  Some thirty functions close in a `finally` clause without a rollback.  Deleting another
author's folder of a team answers `deleted: True`, keeps it, and deletes one's own folders
below it.  A request moved out of a folder of a team keeps the team.  Trees of other members are
as old as five seconds, memberships as sixty.

*Workflow page.*  A block removed, or a graph loaded or cleared, while a connection is drawn
leaves the half of it behind; the selected connection is an index and shifts.  A run stopped
while it waits is resumed by the next one, whose button its end frees.  A connection drawn
back to a running ancestor makes an endless run.  Blocks of kinds that hold others are
skipped in saved workflows inside workflows.  A load that crosses a deletion leaves the
identifier of a row that is gone, and so does a deletion whose answer is lost (`workflow.js:704`
throws before the identifier is reset); later saves then fail on the console only.  Overlapping
saves may be served out of order or make two rows.

*Assistants.*  A message sent while the key is locked, a key that expires in the middle of a
chat, or a tool that fails, ends a conversation for good.  The handlers are coroutines and
call the provider synchronously: a chat stops the server.  Ely's panel sends a question with the
history that has it already, and the Enter key works while the button is disabled.  After
an error in a turn the final loop asks again.  `ely_create_workflow` and `ely_blueteam_analyze`
always fail.  A write that the storage of the tab refuses is ignored (`ely-copilot.js:39`), so that a
reload restores an older history.  Actions done before a failure, or for a page that was left, are told to nobody.

*Accounts.*  A verification whose mark fails while its code is consumed is answered with success, and
the account can never be verified by that code (`user_api.py:390`).  The legacy digest is not
changed by a password change, so the former password still logs in, without keys
(`user_api.py:199`).  `logout` looks for the key identifier where `login` does not put it
(`user_api.py:255`): the master key is cleared, the answer is 401, the session lives on.  The
nonce of a provider sign-in is not compared (`oidc_api.py:72`).  A rotation for which no
remaining member is unlocked returns 0, like one for a team without collections
(`crypto_store.py:384`).  `follow_team` and `remove_member` may act on a membership that ended a
moment before.

## What is not modelled

Assumptions shared by the models: encryption opens under the right key and no other;
the database fails only where a model says so (a locked database, a foreign key after a
deletion, a statement of `ConnectionPool`); `docker rm` obeys; clocks do not go back.  The grey
team's `CREATE TABLE greyteam_profiles` names `target_domain` twice (`greyteam/database.py:38`) and
fails on an empty database, so the models start from a database made by an earlier version.

| component | why |
|---|---|
| expert scanner (`redteam/expert_scanner.py`) | rounds like those of `Campaign`, without a stop test |
| AI enhancer, report generators | texts for and from a language model; no shared state |
| purple pattern scanners and AI scanner | one pattern or request after the other; the loop over the model is that of `AgentLoop` |
| cryptography (`database/crypto.py`) | external functions, see above |
| contexts, skills, settings, profiles, administration | one-statement CRUD |
| request manager, proxy, audit, mail, logging, configuration | I/O and wiring |
| AI core: tools and prompts; Ely: memory, diary, browser, search | texts, plain rows and I/O; `tool_handlers.py` has no caller |
| documents (`doc_mgmt/`) | parsers and file storage |
| the other pages (`web_ui/static/app.js`, `pentest.js`, ...) | what they ask enters the models as requests; their polling of a scan is the next candidate |
| PostgreSQL pool | the default is SQLite; its wrapper has no path back to the pool, which no interleaving changes, and no property watches it |
| tools, tests, former interface | not the running program |

Within the modelled components: a page the browser keeps for its back button (`CopilotPage` loads
every page anew); what a live test has told when its row is deleted in its middle (each test is a
step); what is sealed with the keys; read-only endpoints; wording,
patterns and payload tables, which the sites, targets and sources of the constants stand for.

## Plan

Done: the key stores, teams, campaigns, the broker and grey reports; accounts, long tasks,
workspace, interface and scanners; proofs of eight groups of components.

Next, by the weight of what they cover:

1. The polling of the pages (`pentest.js`, `greyteam.js`, `blueteam.js`, `purpleteam.js`): a page
   that follows a scan whose row is deleted or replaced, with `Campaign` and `BlueTeam`.
2. A proof of what the scanner of the red team checks (`RedScanSound`, `ProbesFresh`).
3. The expert scanner, as another round loop of `Campaign`.
4. The order of the steps of an Arazzo workflow (`doc_mgmt/arazzo/parser.py`), as operators.

The number of properties a run can state usefully is bounded by the mutants a reader is
willing to follow: a new component's properties should be grouped as the present ones are.

## Running it

    tlasany M.tla                              # parse
    tlc -workers 2 -config Teams.cfg Teams     # one run; see the table above
    tlapm TeamsProofs.tla                      # proofs

`PROJECT.json` lists the components, the runs, for each property the mutants that it
detects, the source lines each definition models, the hazards and the theorems.
