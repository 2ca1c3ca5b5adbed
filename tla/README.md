# Phemius: specification and verification

Phemius is a command line tool that writes a novel with language models. A human
approves every change to the *canon* (the manuscript, premises and notes of a
project); everything else the program does produces candidates. This directory
holds TLA+ models of the parts whose mistakes would lose text, corrupt the
approval history, send what must not be sent or spend money that was not
allowed, the TLC runs that check them and the TLAPS proofs about them. Paths are
relative to the repository; `journal.rs:230` is line 230 of `src/journal.rs`.

## The system

| component | state | operations | what makes it correct | modelled by |
|---|---|---|---|---|
| approval journal (`journal.rs`) | canon files, approval records, `runtime/journal/<changeset>/`, writer lock | `apply`, `recover_pending` | all or nothing; never lose bytes; no fork of the approval chain; a failure stops all later approvals | `ApprovalJournal` |
| changeset validation (`changeset.rs`) | none; reads canon, records, candidates | `validate_changeset`, hashes, `mark_descendants` | what is approved is what was validated, on the canon it was validated on | `ApprovalJournal`, `ChapterLifecycle` |
| session journal (`session.rs`) | `session.jsonl`, checkpoint | `append`, `open`, `write_checkpoint`, `read_checkpoint` | append-only; a checkpoint never claims more than the journal holds; a session survives every crash | `ModelSession` |
| budget ledger (`cost.rs`) | `cost.jsonl`, reservations in memory | `reserve`, `settle`, `open` | no request is sent that could break a cap, across failures and restarts | `BudgetLedger` |
| run controller (`workflow.rs`) | chapters, runs, findings, corrections; owns session and ledger | write, critique, revise, edit, resolve, reject, approve, attach | only reviewed candidates without open blockers are approved; memory, session and canon agree | `ChapterLifecycle`, `ModelSession`, `ToolLoop`, `CommandLoop` |
| command loop (`repl.rs`, `cli.rs`) | mode, ambiguous request, confirmation | slash commands, text | one confirmation pays for one request; consult mode changes nothing | `CommandLoop` |
| model client (`openrouter.rs`, `model.rs`) | stream accumulator | `complete`, `validate_tool_calls` | a broken stream is never a success; only what was sent whole runs | `ToolLoop` |
| tools (`tools.rs`) | candidate workspace, artifact store | role-bound tools, git queries | a role uses its tools only; results are kept whole within limits; git never hangs the call | `ToolExecutor`, `GitQuery` |
| sandboxed shell (`sandbox.rs`) | one process group | `capture_child` | the call ends; output is whole; nothing runs on | `ShellProcess` |
| sources (`sources.rs`) | grants, snapshots, manifest | `freeze`, `read_file`, `snapshot_web`, `register` | a read returns one version; a fetch follows checked URLs; what is stored is what is found | `SourceGrant`, `WebSnapshot`, `SourceCatalog` |
| context compiler (`context.rs`) | confirmations, summaries, receipts | `compile`, `handoff`, drop | what is sent is what the receipt says; a secret confirmation is used once | `ContextCompiler`, `ContextScope` |
| near-copy scan (`copycheck.rs`) | work budget | `scan_near_copy` | finds what a direct definition finds, or stops for its budget | `NearCopy` |
| project files (`project.rs`) | project directory, staging directory | `initialize_project` | all or nothing among other initializers and programs | `ProjectInit` |
| plot (`plot.rs`) | none | validation of the story structure | scopes have one place each in a tree | `ContextScope`: what a validated structure promises (`WellFormed`) |
| skills (`skills.rs`), evaluation (`eval.rs`), entry (`main.rs`, `lib.rs`) | none | loading, grading | sequential readers without state or order | not modelled |

The components meet in the run controller. A chapter is drafted by
`write_chapter`, which reserves money before each model request, appends session
events, runs tools, writes candidate files and checkpoints.
`approve_chapter_trusted` reads the dependency (the approval of the previous
chapter), validates the changeset and calls `journal::apply_changeset`; then it
records the approval in the session. Several processes may work on one project:
the writer lock serialises their applies, the ledger's file lock admits one
process for as long as it runs, and the lock on `session.jsonl` is taken for one
operation and given back (`session.rs:287-303`), so several processes may append
to one session. Editors and git work on the same files and take no lock at all.

## Modules

| module | content |
|---|---|
| `ApprovalJournal`, `ApprovalInvariants` | the approval transaction; its inductive invariant, one named conjunct per idea |
| `AtomicApproval`, `ApprovalRefinement` | what an approval promises, as an abstract specification; the refinement mapping to it, and what an apply has done at each of its steps |
| `MCApprovalJournal`, `ApprovalProofs` | instances; TLAPS: every environment, then editors that wait, and the refinement |
| `BudgetLedger` | reservations in memory and in `cost.jsonl` |
| `ModelSession` | model requests, `session.jsonl`, its checkpoint; extends `BudgetLedger` and calls its operations |
| `MCSessionLedger`, `SessionProofs` | instances of the session and of the ledger with any user; TLAPS about both |
| `ChapterLifecycle`, `ReviewedApproval` | the chapters of the run controller with checkpoint and canon; what they promise the human, as an abstract specification |
| `MCChapterLifecycle`, `LifecycleProofs` | instances; TLAPS, with the refinement |
| `CommandLoop`, `ProjectInit`, `MCCommands` | the lines of the REPL and the cost gates; `phemius init`; instances of both |
| `CommandProofs` | TLAPS about the two |
| `ToolLoop`, `ToolExecutor` | one invocation of an agent: request, stream, calls, results; the executor and artifact store it calls |
| `GitQuery`, `ShellProcess` | a git child with its pipes, readers and caller; a shell command's process group |
| `MCCalls`, `CallProofs` | instances of these four, of `ChapterLifecycle` and of `ApprovalJournal`: calls that must return; TLAPS about the four |
| `ContextScope`, `ContextCompiler` | which sources a scope brings in; compilation, confirmations, receipts |
| `SourceGrant`, `WebSnapshot`, `SourceCatalog` | frozen grants; a fetch; snapshots, entries and artifacts |
| `MCContextCompiler`, `ContextProofs` | instances of the compiler and these three; TLAPS |
| `NearCopy`, `MCNearCopy`, `CopyProofs` | the near-copy scan against a direct definition; its texts; TLAPS |
| `SumProofs` | lemmas the proofs share: least numbers, smallest sets; sums, counts and ranks of finite sets |

An MC module with several components picks a `kind` in its initial states and
lets one kind of behaviour happen in each behaviour, with everything else at
rest. The state spaces then add up instead of multiplying, and each kind gets the
bounds it needs. Where a kind fixes something the property depends on (an
unchanged price), the property names the kind.

## How the models read the code

Conventions of all modules: a hash is the thing it digests, so there are no
collisions; identifiers that are fresh UUIDs are never reused; a step that
changes nothing (a refused command that neither writes nor remembers) is left
out or is a disjunct that leaves the state alone; a crash is the loss of
everything but the files, a power loss also of what was not synced.

### ApprovalJournal

*Project directory.* `live` are the canon files, `record` the approval records,
`cand` the candidate files. For each changeset `c`, `phase[c]` says which file
of `runtime/journal/<c>/` is newest: `none` (no directory), `created` (no
journal yet), `prepared`, `committed`. `tmp` is a temporary journal file left in
it, `marker` the durability-unknown marker, `staged` and `old` the `after-NNNN`
and `old-live-NNNN` files, `proof` the staged approval record and `dep` the
dependency the record names. `unsynced` are the directories whose last journal
rename was not followed by a sync.

*Processes.* `pc[p]` is the next step of the `apply` of process `p`; each label
is one check, rename or sync of the code, so everything may happen between any
two of them. `cur`, `link`, `todo` and `file` are locals: the changeset, the
dependency read before the lock, the operations left and the current one. A
failed check releases the lock and ends the apply, as the code's early returns
do.

| action | code |
|---|---|
| `DraftChange` | `prepare_project_change` (`workflow.rs:2827`) |
| `RequestApproval` | `approve_chapter_trusted` up to the call of apply (`workflow.rs:1501`) |
| `AcquireLock`, `Recover`, `Validate` | `apply` (`journal.rs:208-210`) |
| `CreateTransaction`, `Snapshot`, `StageProof` | `prepare_transaction` (`journal.rs:291`) |
| `WriteJournal`, `RenamePrepared`, `RenameCommitted`, `SyncPrepared`, `SyncCommitted`, `SyncFails` | `persist_journal` and its callers (`journal.rs:214`, `265`, `867`) |
| `CheckTarget`, `Preserve`, `Recheck`, `Install`, `VerifyInstalled` | `apply_entry` (`journal.rs:381`) |
| `InstallApprovalRecord`, `CheckRoot` | `journal.rs:437`, `251` |
| `IoFails`, `Crash`, `PowerLoss` | a failed call, the death of a process, the loss of unsynced renames |
| `EditCanon`, `EditRecord`, `EditCandidate` | other programs |

*Abstractions.* A root hash is the record of all canon files and approval
records. Recovery and validation are one atomic step each (an editor between two
reads of one of them is not modelled; an editor between the two of them is). The
order of the operations in a changeset is arbitrary. A plain error and
`ManualResolutionRequired` have the same effect on the files. A rename of a
canon file reaches the disk whole: the code syncs both directories before its
next step. A request that the guards of `approve_chapter_trusted` refuse changes
nothing and is not a step. Nobody but Phemius writes under `runtime/journal`,
and the human's manual repair is not modelled: an abandoned transaction stays.
By design, receipts under `runtime/` are git-ignored, so a clone with approval
records can approve nothing (`docs/project-format.md:71`).

### BudgetLedger

`ledger` is `LedgerState`: the hold of every request, the settled requests and
the chapters that were warned. `handle` is `memory` for `BudgetLedger::new`,
which writes nothing, and `file` after `open`. `durabilityUnknown` freezes the
ledger. On disk, `costFile` are the complete lines of `cost.jsonl`, `synced` how
many of them were synced, and `torn` a part of a line at the end; `acked` is a
history variable.

| action | code |
|---|---|
| `Reserve` (`WithinCaps`, `NewReservation`, `Holds`, `RolledBack`) | `reserve`, `reserve_inner` (`cost.rs:235`) |
| `Settle` (`MaySettle`, `Settled`) | `settle` (`cost.rs:424`) |
| `Persist` | `persist`: one disjunct for success and one for each way to fail |
| `Open` (`Replay`, `Applies`, `Applied`) | `open` and the replay of every line |
| `Exit`, `PowerLoss` | the death of the process, the loss of lines not synced |

The outcome `before` is an error before the write, the only one the code rolls
back; `nothing`, `torn` and `unsynced` are the failures after it, which leave no
byte, part of the line, or all of it. A successful sync covers every earlier
line, and a power loss takes a suffix of the lines not synced. The totals cannot
overflow: each addition is checked against a cap far below 2^64.
`retain_ambiguous` changes no state. Prices are amounts. The ledger's variables
are those of the process that has its file lock, which `open` takes and keeps; a
process that `open` refuses because of the lock, or of a file that cannot be
opened or read, changes nothing here, and what it does then is `ModelSession`'s.

### ModelSession

A command is `write_chapter`, a coordinator request or `compact_session`. `pc`
says where it stands, `cmd` is the chapter it is charged to, `batch` the
requests not answered and `answers` the answers not noted. `status` is
`cost_status`, what the human sees and what `reserve_request` compares with the
caps before the ledger does. `session`, `last` and `anchored` are the handle,
its last line and the checkpoint path of the controller. On disk, `lines`,
`kept` and `partial` are `session.jsonl`, as above; `checkpoint` is the file and
`fallback` what a power loss may put in its place while its rename is not
synced. A checkpoint is the anchor (offset and hash of the last line) and the
costs.

| action | code |
|---|---|
| `CreateSession`, `Attach`, `AttachRefused`, `Resume` | `ensure_durable_session`, `attach_latest_session`, `resume_checkpoint` (`workflow.rs:1020`, `1105`, `1088`) |
| `Begin`, `Conclude`, `Abandon` | the first and last lines of a command; its end with an error of another kind |
| `ReserveRequest`, `ReserveRefused` | `reserve_request` (`workflow.rs:2248`) |
| `StartRequest`, `Send`, `EndBatch` | `complete_model_turn`, `run_critic_batch` (`workflow.rs:2345`, `2203`) |
| `Answered` | the provider: usage, an answer without usage, a lost answer, or a refusal |
| `NoteUsage`, `SettleRequest`, `SettleRefused`, `NoteUnmetered`, `NoteAmbiguous`, `NoteStopped` | `record_model_completion` and its callers (`workflow.rs:2383`) |
| `WriteCheckpoint` | `checkpoint`, `write_checkpoint_inner`, `write_checkpoint_atomic` |
| `Crash`, `PowerFails` | a new process: everything but the files is gone |
| `OtherReads`, `OtherRefused`, `OtherOpens` | `attach_latest_session` of another process: up to the ledger, refused it, or given it |
| `OtherAppends`, `OtherSends` | what a process with the session and without the ledger does |
| `Overtaken` | such a process goes on while another gets the ledger |

*Several processes.* The variables of the controller are those of one process,
the one that has the ledger or may get it next. A process is refused the ledger
when it ends with part of a line, when another process has locked it or when it
cannot be opened or read (`cost.rs:327-341`); it has stored its session by then
(`workflow.rs:1143`), so its next line sends with a ledger in memory. Such a
process is a *stray*. It has no checkpoint path, so all it does to the files is
append lines: those that start a request and, as one kind, all others; what the
provider charges for its requests is on no file and is not counted. `unheld` are
the requests that no file holds. A process that has read the checkpoint and then
waits, until the first one has gone on and ended, gets the ledger with a
checkpoint that is out of date (`OtherOpens`); `late` remembers it, and one such
checkpoint is kept at a time. Two processes that both find no session make one
each; only one session is modelled.

What the properties say of several processes is what the code gives. The
requests of the process with the ledger stay covered whatever strays do. After
a process with the ledger has died with a request in flight no process gets the
ledger to send another one, unless it had read the checkpoint before; strays are
not stopped, and the death of a stray stops nobody. `FinishedIsResumable` asks
for the ledger, too: it can be replayed unless an append to it has failed in the
middle (`frozen`), after which `/compact` still ends with a checkpoint but the next
attach is refused (`cost.rs:338`).

The content of requests and answers is left out, so which requests a command
sends and how many is arbitrary; that covers drafting, critique, revision and
tool turns. The session directory is created in one step, and a project has
one session. The price is known and backend errors are
strict (every controller of the program; test fixtures differ). A refusal
(`stopped`) costs nothing. `recovery_required` is never set because every
checkpoint of this version carries the controller state. `Repair` is part of
each action that reads the journal, as in `read_journal_locked`.

### ChapterLifecycle

`mem` is the controller (state, order, run, findings and provisional text of
each chapter), `saved` the one in the checkpoint, `session` whether the
checkpoint still names the session's end. `pc`, `work` and `queue` are a
`write_chapter` in progress and the rest of a continuous run. `chain` is the
canon, the approved candidates in order: an approval is one step, which is what
`ApprovalRefinement` shows of the journal. `file` are the candidate files.
`reviewed`, `open` and `rejected` are history: the reviews that ended, the
objections left, the changesets a human refused.

| action | code |
|---|---|
| `BeginWrite`, `WriteRefused`, `ArchitectAnswers`, `WriterAnswers`, `CriticsAnswer`, `ReviserSilent`, `ReviserAnswers`, `EndWrite`, `WriteFails` | `write_chapter` (`workflow.rs:1686-2095`) |
| `StartContinuous` | `write_continuous` (`workflow.rs:2156`) |
| `Resolve`, `Reject` | `resolve_false_positive`, `reject_chapter_trusted` (`workflow.rs:1196`, `1471`) |
| `Approve`, `ApproveUnnoticed` | `approve_chapter_trusted`; the same when the session or checkpoint cannot be written after the canon changed (`workflow.rs:1501`, `1539`) |
| `Edit`, `EditFails`, `Correct` | `edit_candidate`, human corrections (`workflow.rs:1252`, `1330`) |
| `Compact`, `Crash`, `Attach` | `compact_session`; the death of the process; `attach_latest_session` |

A finding has the identifier of its message, and two critics may give the same
one. What preflight and the story plans contain, what a correction says and the
length bounds are left out; `add_finding` is called by tests only; the state of
a changeset mirrors that of its run. Other processes and edits outside Phemius
belong to `ApprovalJournal`, an attach that fails at the ledger to
`ModelSession`.

### CommandLoop and ProjectInit

`held` are the controller's settings that the gates read (request maximum,
model, confirmation, cost so far, whether a candidate exists), `saved` those in
the checkpoint; `mode`, `ambiguous` and `running` the REPL's; `confirms`, `dear`
and `crossed` history. Actions are the kinds of lines: `Malformed`,
`BadArgument`, `Unparsed` (ends the process), `Say`, `Mode`, `ChooseModel`,
`Record`, `Decide`, `Resume`, the coordinator lines (`Ask*`), `/write`
(`Write*`), `Quit` and `Start` with any price. A `/write` sends at most
`WriteCalls` role calls, those its estimate counts, and between them turns for
the results of tools, which it does not count: the code allows 63 for each
architect, writer and reviser call (`workflow.rs:2291`), the model `ToolTurns` in
all. `crossed` is therefore set when a `/write` that was not confirmed goes over
the warning by more than the maximum of the tool turns it sent. Files do not fail here
(`ModelSession`), the run cap of $120 is the ledger's, and checkpoints of older
versions and the list of typed lines are left out.

`ProjectInit`: `entry` says who put a top-level entry into the root; `staging`,
`moved`, `broken` and `step` are one `initialize_project` call: `Stage`,
`Rename` if the root is missing, else `Move` entry by entry and, when one fails,
`RollBack`. Others make the root, remove it when empty, put entries in and take
theirs out; they never remove what an initializer moved. A crash half way leaves
part of a project, and an `open` meanwhile may see it; `WholeOrNothing` is about
calls that ended. A staging directory that cannot be removed is ignored, as in
the code.

### ToolLoop, ToolExecutor, GitQuery, ShellProcess

`ToolLoop` is one invocation: `Ask`, the provider's events one by one
(`ToolDelta` in two pieces per call, `TextDelta`, `UsageEvent`), every end of a
stream (`Done`, `Eof`, `StreamBreaks`, `BadEvent`, `HttpError`, `SendFails`),
then `RunCall` for each call of a good answer and the next turn. `parts` is the
accumulator; `plan` and `sent` are what the provider means and has sent.
`finish_reason` is ignored, as in the code; critics in a batch get no tools.
`ToolExecutor` has the role table, each operation and the artifact store with
its accounts; ranges, protection and release are reached through the API only.
Nothing in the program consults an artifact's references or deletes one. What is
shown of a result is the conversion of its first bytes (`String::from_utf8_lossy`,
`tools.rs:679`): characters have one byte or two, and a byte that is in no whole
character is shown as a replacement, so a text that is cut may end in one, and
bytes that are not UTF-8 are not shown as they are although nothing is marked as
truncated. `ResultIsRetained` claims the text for UTF-8 only. A search passes over
files that are not text. The
spec's "64 calls, checkpoints and asks the human" is not implemented: the 65th
turn is an error (`TooManyTurns`).

`GitQuery` counts bytes: the child writes two bounded pipes in any order, two
threads read them up to a limit, the caller waits for the child and then for the
threads; a thread that overflows kills the child. The kill may come after the
process was reaped (`tools.rs:774`). Git uses the path of the workspace, not the
held capability.

`ShellProcess` is `capture_child`: a group of processes that fork, write, close
their pipes, end or ignore SIGTERM; the loop of the call with its deadline,
output limit, termination and grace period; the drop of its future. The
decisions before the start change no state and the Seatbelt profile is text;
SIGKILL is immediate, processes that leave the group or cannot be interrupted
are not modelled, and a signal to a group of zombies may be refused.

### ContextCompiler, SourceGrant, WebSnapshot, SourceCatalog

A compilation is one step per source, because the lock on the confirmations is
released between two of them. `contexts` are the compilations and what they made; `available` and
`reserved` the confirmations that are free and promised to a context, `confirms`
and `transmitted` history: how often each was given, and used.
`Stop` is every early error, with its failed receipt; `Discard` the drop of an
unsent context. The program itself never calls the confirmation API (the
workflow skips secret sources, so a required secret source stops every chapter).
The text integrity check before the handoff cannot fail and is left out.

`SourceGrant` is `freeze` and `read_file`, one system call per step, while other
programs overwrite, extend, truncate, replace, unlink and link files. Clones of
a granted file's handle share one offset. The file system clock is taken to be
fine enough to tell two changes apart; a directory has one level, and `MaxBytes`
bounds what a read collects while other readers seek its handle back. Ingestion is
only reached by tests and the API. `WebSnapshot` is one fetch, hop by hop, with
servers that answer anything; parsing of URLs, addresses, HTML and PDF is left
out, `from_responses` has the same control, and the client has no time limit of
its own (`sources.rs:927`). `SourceCatalog` registers snapshots, loses or damages
their artifacts, and loads them; a secret source with the bytes of a stored one
makes the compiler refuse everything, which its property excepts.

### NearCopy

One step per stage of a source: exact runs, character n-grams, word n-grams.
The windows, the prefix filter, the order of candidates, the sliding counts and
the three work limits are those of the code; loops that carry a state from one
grapheme or window to the next are recursive functions, and the classes of
n-grams keep the indices of their windows. Unicode normalisation and the hash
functions are abstract (a grapheme is one number, equal keys mean equal n-grams),
and the final sort of the findings is left out.

`FindsTheCopies` compares the findings with a definition that knows no runs,
indexes or counts. For the exact rules a text is a set of *units* with their
places: CJK graphemes one by one, or words, which are letters between blanks or
CJK graphemes with symbols passed over. A *span* has as many units as the policy
says and no *break* inside: anything but CJK graphemes and blanks, or any CJK
grapheme. A copy is a pair of spans that read the same, the source's not
exempt. For the n-gram rule a copy is a pair of windows with enough n-grams in
common. A finding is needed for every source with a copy, and every finding must
be one.

`Advances` is when `advance_window_counts` does not panic: what it removes was
counted. For windows of words that needs each window to begin before the n-grams
of the previous one have ended; however short the words are, `WindowsOverlap`
(`2 * word_window - 2 >= ngram`) is enough. The default policy has 80 words and
8-grams. A policy that breaks it is valid, and finding 4 is about it.
## Runs

| run | environment | shows |
|---|---|---|
| `Serial.cfg` | two processes approve, editors wait for the lock; crash, power, io | type correctness, `NoFork`, `NoLostUpdate`, and that every behaviour implements `AtomicApproval` |
| `Racing.cfg` | editors at any time; every fault | `AckedIsDurable`, `AbandonedStopsApprovals`, `EditsSurvive`, `OnlyApprovedBytes` |
| `Sessions.cfg` | every fault of both files; kinds: ledger (alone, with any user), single (a session, one process at a time), several (other processes too) | type correctness; `CapsSurvive`, `WarnedOnce`, `ReportedEventsSurvive`, `MemoryIsReplay`, `NothingAfterTornLine`; `ChargesAreCovered`, `FinishedIsResumable`, `LostRequestStopsSending` |
| `Chapters.cfg` | kinds: restarted, edited, upstream, corrected, rejecting | `ApprovedIsInCanon`, `StaleIsNotProvisional`, `RejectedStaysInProcess`, and that every behaviour implements `ReviewedApproval` |
| `Commands.cfg` | kinds: any lines, steady lines (the price stays), project | `OneConfirmationOneRequest`, `SteadyWritesAreWarned`, `ConsultIsReadOnly`; `WholeOrNothing` |
| `Calls.cfg` | kinds: reads, mixed, artifacts, git, shell, writing, applying | `OnlyWhatWasSent`, `ConversationIsClosed`, `ResultsAreKept`, `QueryIsWhole`, `CommandIsWhole`, `CallsEnd` |
| `Materials.cfg` | kinds: secrets, coverage, directory, file, fetch, catalog | `EachConfirmationOnce`, `OneContextPerSecret`, `ReceiptIsTrue`, `OptionalNeverDisplaces`; `GrantsAreKept`; `RouteIsChecked`; `StoredIsFound` |
| `Copies.cfg` | every pair of short texts of five families | `FindsTheCopies`, `SlidingNeverPanics` |
| `ProvisionalBase.cfg` | one continuous run of two chapters | counterexample to `ProvisionalChapterApprovable` |
| `TornLedger.cfg` | a torn ledger line only | counterexample to `HeldBeforeSent` |
| `Survivors.cfg` | a leader and one process it leaves behind | counterexample to `GroupIsTerminated` |
| `ShortWindows.cfg` | windows of one word, n-grams shorter than a word | counterexample to `SlidingNeverPanics` |

`CHECK_DEADLOCK FALSE` everywhere because the systems really stop: with an
abandoned transaction or nothing left to approve, when every request identifier
is used or a file refuses to open, when a call has returned.

Type invariants are properties of their own in *serial* and *sessions*; the
others are conjuncts of what the run checks (`OnlyWhatWasSent`, `ResultsAreKept`,
`QueryIsWhole`, `CommandIsWhole`, `ReceiptIsTrue`, `GrantsAreKept`,
`RouteIsChecked`, `StoredIsFound`) or proved (`BudgetLedger`,
`ChapterLifecycle`, `CommandLoop`, `ProjectInit`).

### Bounds

*Serial, racing.* Two processes, two changesets, two files and two contents. One
file exists in the seed and one does not, so the four target canons cover
replace, create, delete and their pairs. Two processes are enough for every race
about the lock and the reads before it, two changesets for a chain with a parent
and for two claims on one order, two files for a canon that is half swapped. One
outside edit is enough for each race an editor can win; two gave no other
outcome at eight times the cost. Processes and changesets are interchangeable.
`NoFork` and `NoLostUpdate` need `EditorWaits`: recovery compares the canon with
the last approval's result, validation compares it with the changeset's base,
and these are two reads. An editor that changes a canon file, or deletes an
approval record, exactly between them gets an approval on a canon its
predecessor did not leave; TLC finds both behaviours when `EditorWaits` is FALSE.

*Sessions.* The ledger alone: three requests of cost 1 or 3, one chapter and the
coordinator, warning 2, chapter cap 4 and run cap 5. The caps can be met exactly,
exceeded by one, by one chapter or by both together, and a third request shows
what settling and rolling back the others left behind. A
session: two requests, so one command may send them as one batch or one after
the other, or two commands one each; a project chapter and the coordinator's;
at most four session lines when a command begins, which leaves room for a whole
command behind an earlier one; charges below and above the hold. *Single*
behaviours have every fault of a file, one process after the other. *Several*
have the other processes, one request held on the file and one on none, and
leave to the first kind the faults that tear a line or freeze the ledger, and
the charges above the maximum. The theorems have both together.

*Chapters.* Two chapters, two texts, two critics with one message, one revision,
two changesets; each kind takes as many chapters, texts and objecting critics as
its calls need (`MCChapterLifecycle`). Two chapters are the least with an
upstream, two texts the least that an edit can change, two critics the least
that disagree or give one finding twice.

*Commands.* Prices 1, 2 and 6 of a warning at 5 and a stop at 10, or none: one
that never crosses in two lines, one that does by adding up, one that does at
once. Two paying lines or confirmations, so that one may be paid by the other's.
Two tool turns in a `/write`.
Two initializers, two entries and four steps of other programs.

*Calls.* Two turns, answers of up to two calls in two choices, files and limits
of one to three bytes, so each limit can be met and exceeded by one; bytes that
are a character, begin one and end one, so that a file, a range and what is shown
may cut it; a role that may write and one that only reads; git pipes of
two bytes, four bytes of output; a leader and one process it leaves; a chapter
with four critics in two batches and both revisions; two processes applying with
one outside edit and every fault.

*Materials.* Eight sources of every tier, scope level and form, four of them
secret with the same bytes, budgets one below and at what they need; two
contexts; a directory of two files and a third name that folds to one of them
with two changes, a file with two readers and one change; four URLs, two redirects, three
bytes; one source of each kind, two damaged artifacts.

*Copies.* Texts of five graphemes against texts of up to six, windows of two to
four graphemes or words, so that every window fits, ends at a border, or does
not fit. Two families are of CJK graphemes or of words only and try exempt
ranges too, one mixes CJK graphemes with words, one words with symbols, and one
has a second source under limits that stop the scan.

### Fairness

Fairness is assumed of the code's own steps and of nothing else. A process that
holds the writer lock takes its next step (`Applying!ApplyStep`): `apply` is
straight-line code without waiting; a crash releases the lock too. A
`write_chapter` goes on (`Step \/ WriteFails`): its models answer or fail,
because every request has a time limit (`openrouter.rs:15`). In the tool loop
the controller's own steps are fair, and the request's time limit is
(`SendFails`, `StreamBreaks`); no answer is asked of the provider. The git child,
its two readers and its caller are scheduled; the child's bytes are finite. For
the shell, time passes and the call is polled; nothing is assumed of the
processes it started.

### Findings

1. **Second chapter of a continuous run** (`ProvisionalChapterApprovable`). The
   comment at `workflow.rs:2098` says that the trusted approval boundary
   revalidates the edge to a provisional predecessor. It recomputes the
   dependency but not `base_root_hash`, the root of the canon without the
   predecessor, so the second chapter's approval is always refused.
2. **Requests without a ledger** (`HeldBeforeSent`). `attach_latest_session`
   stores the session before it opens the ledger (`workflow.rs:1143`). If
   `cost.jsonl` ends with part of a line the open fails and the command ends
   with an error, but the next command of the same process finds a session, does
   not attach again, and sends requests with the ledger in memory: nothing is
   written, and the caps start from zero. The same happens when another process
   has locked the ledger (`cost.rs:333`) or it cannot be read.
3. **Surviving processes** (`GroupIsTerminated`). The group is signalled only
   while `child.id()` is known (`sandbox.rs:424`, `467`), and it is not once the
   leader was waited for; a process the leader left behind then survives the
   time limit, the output limit and the drop of the call.
4. **Short word windows** (`SlidingNeverPanics`). `advance_window_counts` removes
   every n-gram that begins before the next window, also those across two words,
   and expects each to be counted ("sliding multiset must contain removed
   n-gram", `copycheck.rs:968`). With windows of few words and long words the
   next window begins behind the last n-gram of the previous one, and the scan
   panics. `validate_policy` (`copycheck.rs:223`) accepts any word window of at
   least one, and `tests/source_context.rs:796` uses one word with 8-grams, on a
   source of a single word, where no window slides. `SlidingIsSafe` proves that
   it cannot happen where `WindowsOverlap` holds, as under the default policy.

Other differences between code, comments and documents, met while modelling and
kept in the models as the code has them, without a run of their own:

| where | what |
|---|---|
| `journal.rs:881` | a crash between the rename of the Committed journal and the sync of its directory leaves a state without a marker; recovery builds on it (`docs/security.md:31`) |
| `journal.rs:855` | after the first approval recovery refuses every canon but the last result, so an outside edit can be reverted but not adopted |
| `journal.rs:295` | a candidate edited between validation and snapshot leaves a transaction directory that stops every later approval |
| `session.rs:323` | after an append that failed part way, the next one writes behind the part and reports success; the joined line cannot be read |
| `workflow.rs:1092`, `1133` | `/resume` in a new project makes an empty session, on which the next attach stops |
| `workflow.rs:1143`, `session.rs:323` | a second process, refused the ledger, appends to the session and sends on no file; when it dies with a request in flight the first one goes on, and its next checkpoint names a line behind the lost request |
| `workflow.rs:1141`, `1144` | a process that read the checkpoint before another one went on and ended gets the ledger with that checkpoint: the costs shown are out of date, and a request lost meanwhile does not stop it |
| `cost.rs:338` | after an append to the ledger that failed part way, `/compact` reports a checkpoint, and the next process cannot attach to it |
| `workflow.rs:1665`, `2292` | the estimate of `/write` counts one request for each role call, not the tool turns, of which each holds the maximum too: a chapter may cross $5 unasked (`docs/configuration.md:113`, `docs/superpowers/specs/2026-08-22-phemius-v0.1.md:248`) |
| `tools.rs:679` | a result that is not UTF-8 is shown with replacements and not marked as truncated |
| `workflow.rs:1471` | a rejection is not recorded: the next process may approve the changeset |
| `workflow.rs:1472` | an approved chapter that needs revalidation can be rejected while the canon keeps it |
| `workflow.rs:1539`, `1586` | an approval whose session record is lost leaves a project that can approve nothing more |
| `workflow.rs:1325` | an edited candidate keeps findings about its old hash and looks approvable; the approval is refused for good |
| `workflow.rs:1709` | stale chapters cannot be regenerated or revalidated; other chapters can still be written |
| `workflow.rs:2176` | a continuous run that is refused leaves its first chapters registered, with orders others have |
| `workflow.rs:2712` | two critics with one finding make two entries of one identifier, and the second can never be resolved |
| `workflow.rs:721` | `/model` is lost when the first command that opens the session restores the checkpoint |
| `workflow.rs:960`, `962`, `1687` | a confirmation left by a refused `/write` pays for another line; lines add up past the warning unasked; the price of the estimate may be replaced by the checkpoint's |
| `cli.rs:119` | `/revise <id>` asks for `--confirm`, which does not parse |
| `repl.rs:103`, `161` | the ambiguous flag outlives the next answer, and is not set when a stopped critic comes first |
| `workflow.rs:2327` | a call without an identifier gets a result with a made up one, which names no call |
| `workflow.rs:2291` | the byte account starts at zero for every invocation, not session |
| `openrouter.rs:160` | malformed JSON and error events are `stopped`, where the spec says ambiguous |
| `sources.rs:1265` | two reads of one granted file move each other's offset; one is refused although nothing changed |
| `copycheck.rs:690` | only windows of exactly the configured length are compared; documents call words whitespace-delimited, the code ends them at punctuation too |
| `workflow.rs:2613` | the scan is given the canon, not the registered sources |

## Proofs

Every theorem holds for all values of the constants that satisfy the named
`ASSUME`s of its module: any number of processes, chapters, requests, files,
texts and contexts, any costs, caps and bounds, every subset of faults. The
assumptions say that `None`, `Absent` and the like are no ordinary values, that
bounds are numbers, that valid story structures are trees (`WellFormed`), and
that graphemes are numbers below `Base` of disjoint classes.

| module | theorem | property | inductive invariant |
|---|---|---|---|
| `ApprovalProofs` | `TypeCorrect`, `ReportedApprovalsLast`, `AbandonedStops`, `NothingDestroyed`, `ApprovedBytes`; `ChainNeverForks`, `NoUpdateLost`, `ApprovalIsAtomic` | `TypeOK`, `AckedIsDurable`, `AbandonedStopsApprovals`, `EditsSurvive`, `OnlyApprovedBytes`; `NoFork`, `NoLostUpdate`, `ImplementsAtomicApproval` | `SafetyInv`; `ChainInv`, `ProgressInv` |
| `SessionProofs` | `LedgerTypes`, `CapsAreKept`, `OneWarning`, `MemoryIsTheFile`, `ReportedEventsLast`, `NoWriteBehindTornLine` | `CapsSurvive`, `WarnedOnce`, `MemoryIsReplay`, `ReportedEventsSurvive`, `NothingAfterTornLine` | `FileInv`, `LedgerInv` |
| | `SessionTypes`, `LostRequestIsFinal`, `FinishedAttaches`, `ChargesCovered` | `TypeOK`, `LostRequestStopsSending`, `FinishedIsResumable`, `ChargesAreCovered` | `SessionInv`, `MoneyInv`, `DirectoryInv`, `FrozenInv`, `Whole` |
| `LifecycleProofs` | `TypeCorrect`, `CanonIsReviewed`, `ApprovedInCanon`, `StaleIsHidden`, `Reviewed`, `RejectedIsFinal`, `RejectedStays` | `ApprovedIsInCanon`, `StaleIsNotProvisional`, `ImplementsReviewedApproval`, `RejectedStaysInProcess` | `IInv`, `ProcessInv` |
| `CommandProofs` | `ConfirmationUsedOnce`, `ConsultLeavesNothing`, `SteadyWritesAsk`, `MadeWholeOrNot` | `OneConfirmationOneRequest`, `ConsultIsReadOnly`, `SteadyWritesAreWarned`, `WholeOrNothing` | `CommandInv`, `SteadyInv`, `InitInv` |
| `CallProofs` | `QueryHasAll`, `CommandHasAll`, `LoopIsSound`, `OnlyWhole`, `ClosedConversation`, `KeepsResults` | `QueryIsWhole`, `CommandIsWhole`, `OnlyWhatWasSent`, `ConversationIsClosed`, `ResultsAreKept` | `GitInv`, `ShellInv`, `LoopInv`, `ExecutorInv` |
| `ContextProofs` | `ContextTypes`, `ConfirmationPaysOnce`, `SecretInOneContext`, `ReceiptsAreTrue`, `OptionalKeepsNoneOut` | `EachConfirmationOnce`, `OneContextPerSecret`, `ReceiptIsTrue`, `OptionalNeverDisplaces` | `ContextInv`, `CoverInv` |
| | `CheckedRoute`, `FoundAsStored`, `EveryGrantKept`, `GrantKept` | `RouteIsChecked`, `StoredIsFound`, `GrantsAreKept` | `WebInv`, `CatalogInv`, `GrantInv` |
| `CopyProofs` | `SlidingIsSafe`, `GramScanIsExact`, `ExactScanIsExact`, `ScanIsExact` | `SlidingNeverPanics`, `FindsTheCopies` | `ScanInv`, `GramInv`, `ExactInv` |

Three of the four theorems of `CopyProofs` assume `WindowsOverlap`, for without it
the scan may panic (finding 4); `ExactScanIsExact` needs no assumption.

### The approval

*SafetyInv* is inductive in every environment. `LocalsOK` ties the program
counter to the lock. `OneUnsettled` says that while an apply runs past recovery,
every other transaction is settled (a complete commit, or nothing), and that its
own transaction is in exactly the phase its program counter implies; it makes
recovery's verdict outlive the moment it was given. `NothingPreserved` says that
files not yet swapped have nothing in the transaction directory, also when a
power loss takes a Prepared journal back; `EditsSurvive` needs it so that
preserving never overwrites.

*ChainInv* is inductive on top of it for editors that wait. `Follows(c, l)` says
that the changeset being applied extends the committed chain through `l`.
Recovery gives that the records are exactly the committed transactions and that
the canon is the head's result; validation gives that the base is the canon and
that the order is the head's plus one; together they give `Follows`, which
nothing but the commit itself disturbs while the lock is held.

*The refinement* maps the canon to the one a human would recover: files of an
unfinished transaction that were swapped get their old bytes back, and a record
whose proof is still staged does not count. *ProgressInv* says what an apply has
done at each step: what it staged (`StagedSoFar`), which files it swapped and
that the one in hand keeps its old bytes (`SwappedSoFar`), that the compared
root still holds (`RootCompared`), and that a Prepared journal a power loss may
take back has swapped nothing (`UnsyncedIsUntouched`). Every swap then stutters,
because the recovered bytes are the same before and after (`SwapRecovers`); the
rename of the Committed journal is the one `Approve` step (`CommitApproves`),
for there all targets are swapped and the live canon is the projected one; an
apply that fails after it created its directory is a `Freeze`, and nothing
un-freezes (`FrozenStays`).
The mapping chooses the transaction that swapped a file; `OneSwapper` shows that
there is one at most. `ApprovalIsAtomic` therefore needs `EditorWaits`.

### The budget

Totals are sums over finite sets of requests and the ledger of a file is the
replay of its lines. Both are recursive functions, about which nothing can be
proved by the library's induction theorems; their unfolding is proved from
well-foundedness instead: among the sets on which a fact fails there is a
smallest one (`SmallestSet`), and it cannot be (`SumPicks`, `SumTakes`,
`SumAdds`, `ReplayAppend`). *Sound* ledgers have each hold within the caps and
one warning per chapter past its threshold; holding and settling keep them so
(`HoldSound`, `SettleSound`). *LedgerInv* says that every prefix of the file
replays to a sound ledger, so whatever a power loss leaves does too; that the
memory of a ledger in use is the replay of its file, also after a rolled back
call (`RollBackUndoes`); and, as *FileInv*, that every reported event lies in
the synced part and a part of a line belongs to a ledger that is frozen or not
open.

### The session and the money

*SessionInv* needs three ideas: a checkpoint, or the one a power loss may bring
back, names a durable line (`Anchored`); while a command runs its last line is
durable and lies behind every checkpoint (`Running`), because the first thing a
command does is a synced append; so when its process dies with a request in
flight no checkpoint names the last line, and that stays true because whoever
appends without attaching has no checkpoint path (`Lost`). A process that had
read the checkpoint before is the only one that gets past it (`late`).

*MoneyInv* names the requests that are outstanding: sent and not answered,
answered and not noted, or just reserved. The ledger holds the maximum for each,
and `status` covers the maximum of each, so settling one never takes the cost
shown below zero. `FinishedAttaches` follows with `Concluded`: after a command
that reported success every line is durable, and the checkpoint and what a power
loss may put in its place both name the last one; and with `FrozenInv`: until an
append to the ledger fails in the middle its file is whole and synced, and then
`LedgerInv` says that it can be replayed.

`ChargesCovered` is about the requests of a process that has the ledger
(`Booked`), for any faults and charges and whatever other processes do. `Usable`
ties the ledger's file to the checkpoint path, so a process that was refused the
file has only requests that are `unheld`. *Owed* is the maximum for an
outstanding request and the charge, up to the maximum, of an answered one: an
answer that costs more is not settled and keeps the whole hold. Every ledger that
a power loss may leave covers what is owed for each request due
(`SurvivorsCover`): a request is sent only after its hold was synced, and a
settlement holds what was charged. The cost shown covers the sum
(`StatusCoversCharges`), also when it is restored, because a checkpoint that does
not cover the charges lies behind the session's durable end and is refused
(`CheckpointsCover`), but for one that was read before.

### The chapters

*IInv* of `ChapterLifecycle` says of the controller in memory and of the one in
the checkpoint alike that they are `Sound`: the content of every run was
reviewed and each objection left to it is among its blockers (`RunOK`), an
approved run is in the canon at its place (`Settled`), stale chapters have no
provisional text, and orders are bounded, so that there is a next one. One
command makes several changes, between which a controller is only `Loose`; the
operators of the model keep `Loose` and `refresh_chapter_states` makes it sound
again. The checkpoint stays sound while the program goes on because canon and
reviews only grow and objections only fall to a human or in a review (`Grows`).
`WorkOK` ties the review in progress to its objections. Every step of `Next` is
then a step of `ReviewedApproval` or leaves its variables alone (`StepMaps`).

*ProcessInv* holds of one process, until another one attaches (`OneProcess`), for
a rejection is in memory only. An edit opens a rejected changeset
again, and neither its state nor its findings then keep it from being approved.
What does is that its validation is of other bytes (`Barred`), and that
approving it would validate it anew only if its dependency had changed, which it
has not while the canon is the one it was written against (`Based`), as
`validate_changeset` demands. Each changeset belongs to one chapter, and a new
one to none before.

### Confirmations, initialisation, contexts

`CommandInv` counts a confirmation that is still in memory, or in a checkpoint
not yet attached to: `dear` lines and these never exceed the ones given (`Paid`);
a confirmation that is in the checkpoint of an attached process is in memory too
(`SameInMemory`), so writing or forgetting it never doubles it. `SteadyInv`
holds while the price stays: a checkpoint that names the session's end has the
price that is in memory, so what a `/write` estimates is what it will hold, and
n requests cost at most n times the maximum (`SpentAtMost`), which for the role
calls is at most the estimate it warned about; what the tool turns cost, of any
number, is on top. `InitInv` says
for each call that its entries in the root are exactly those it moved and has
not moved back. `ContextInv` says that contexts promise disjoint sets of
secrets, which are exactly the reserved ones, and that what was given is what is
free, promised or spent.

### What a receipt says

`CoverInv` relates a compilation to the sources it has still to do. The applicable
sources without a line in the receipt are exactly those in `todo`, each once, the
needed ones first (`Ahead`). Until the first optional source comes, everything in
the text is needed and the text is as long as the sizes of its sources add up to
(`Behind`); so a needed source that does not fit would not fit among the needed
sources alone, whatever optional ones there are, which is `OptionalNeverDisplaces`.
Two more facts make `ReceiptIsTrue`. Sorting the lines permutes them, because no two have
the same place (`Places`, `Ranking`, `SortedPermutes`). A failed receipt adds
for each hash the lines that are missing (`MissingOnes`), and lists with equally
many lines of each kind are equally long (`SameClasses`). That scopes have the
ancestors the receipt names follows from `WellFormed`.

### The calls

*GitInv*: until its reader gives up, each byte the child printed is kept, in the
pipe or still to be written, so an end of the stream means that all was kept.
*ShellInv*: a stream that ended stays empty, a leader that was waited for is not
alive, and after the group was killed nobody is. *LoopInv*: the pieces that
arrived are the first of those sent, in order; the calls that ran and those to
do are together the calls of the answer; the conversation's last answer lacks
exactly the results of those to do (`Lacks`), every earlier one has all of its
results (`AnsweredBefore`). *ExecutorInv*: the lengths of the results kept add
up to at most what is accounted, which is at most the session's limit; and what
is shown of a text is its bytes, but for the last character of a cut one
(`LossyShows`, `PrefixIsText`).

### The materials

*WebInv*: what was asked for is the chain and, once it was asked, the current
URL; what was visited is what was asked, once each. *CatalogInv*: while nothing
is damaged the artifacts of each snapshot that is not secret hold its bytes, and
a snapshot read back from unharmed artifacts is itself (`ReadBack`).

*GrantInv* holds for every grant that satisfies `Limits`, one file or a
directory. The reader that freezes is alone; while the stamp of its file stands
it has a prefix of the contents (`Freezing`). Frozen fingerprints are of
versions no newer than the files (`Whole`), because every change gives a new
stamp (`Grows`). A read that compares the set once more relates three moments,
by `SeenOf`: a name that stands for the granted inode now stood for it when the
bytes were read, for no edit brings an inode back to a name; the stamp seen then
lies between the frozen one and the one found now; so when those two are equal
nothing had changed. Readers of one handle disturb each other's offset only:
what they get is compared with the frozen fingerprint, and that was taken alone.

### The near-copy scan

*The n-grams.* Words of a run begin two graphemes apart or more, so the windows of a run
are in a row and, where `WindowsOverlap` holds, each begins before the n-grams of
the previous one have ended. What `advance_window_counts` removes was therefore counted, and
the counts that slide along are those of the window they are used for
(`VisitIs`). If two windows have enough n-grams in common, the least common one is
among the first of both in the order of keys (`LeastIsInPrefix`), so the prefix filter
never hides a class that would be close enough. *GramInv* carries this over the
sources: those already behind the scan have a finding if any of their windows is
like one of the text.

*The exact rules.* The runs that the reader of a text builds are *chains* of
units that are next to each other and that only a break ends (`Chain`, `Lists`,
`RunsOfText`). Windows of as many units as the policy says are then exactly the
spans that no break divides (`WindowsAreSpans`), and the first pair of equal
windows exists if and only if there is a copy (`ExactWitnessIs`). *ExactInv* says
that all findings are of sources behind the scan, and that the source whose
n-grams are compared has no exact copy; so no source has findings of both kinds.

Reading a text, visiting windows and multiplying keys are recursive functions.
What is claimed of one is proved by tracing it (`TraceExists`, `ReadsEach`,
`VisitsEach`): there is a least index at which the claim fails, and the step
before it shows that it cannot.

### Only model-checked

Of the properties of the passing runs only `CallsEnd`: liveness under fairness, and
`ENABLED` with it, are beyond the prover. The counterexamples of the runs that
expect one are TLC's by nature.

## Not modelled

- The validator of `plot.rs` is one pass over documents, without state or order;
  what it promises is `WellFormed`.
- `skills.rs` and `eval.rs` are sequential readers and a development tool;
  `main.rs` and `lib.rs` start the program.
- Parsing, rendering, prompts, JSON schemas, URLs, HTML and PDF; the Seatbelt
  profile; prices in dollars.
- The human's repair of an abandoned transaction, and a project shared between
  file systems without locks.
