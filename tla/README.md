# Verification of Research Loom

Research Loom (`core/`, `plugins/`) keeps the authoritative state of a research
project and lets humans, language models and tools work on it. Nothing of that
runs in one process or one database: each command opens the Workspace, reads
several SQLite files and directories, and commits to one of them at a time. A
second process may be between any two of those steps, and either may die there.
This directory models that part of the program in TLA+, checks it with TLC on
small instances, and proves its main invariants with TLAPS for all instances.

Contents: [Inventory](#inventory) · [Modules](#modules) · [Runs](#runs) ·
[Fairness](#fairness) · [Proofs](#proofs) · [Findings](#findings) ·
[Observations](#observations) · [Abstractions](#abstractions) ·
[Not modelled](#not-modelled) · [Plan](#plan) · [Running](#running)

## Inventory

| Component | Source | State | What is hard |
|---|---|---|---|
| Research State runtime | `core/runtime` | none; pure over a loaded `StateView` | validates a view that may be old when it commits |
| Research State repository | `plugins/sqlite_state_store` | lineages, object revisions, Decisions, Snapshots, commits | one transaction must re-check what the view cannot vouch for |
| Human Decision gate and store | `core/decision`, `plugins/local_decision_store` | requests, responses | one answer over two databases; rival, repeated and interrupted answers |
| Capability execution runtime | `core/execution` | none of its own | rival outcomes of one Run; every step a transaction of its own |
| Execution store | `plugins/local_execution_store` | Runs, their events, documents, artifact and input rows, content-addressed files | files and rows are not one transaction; files are shared |
| Work Conversation | `core/conversation`, `plugins/local_conversation_store` | proposals, confirmation requests, receipts, correlations | authority is checked before it is consumed and used after; effects are in other databases |
| Workspace | `plugins/local_application/workspace`, `local_durable_store.py` | binding, children, OS lock | shared lifetimes, exclusive updates |
| Profile advancement | `profile_advancement.py` there | marker, archived generations, events | a saga over files and a database, undone by whoever opens next |
| Writer, publication | `local_application/writer`, `.../publication` | versions, index, selection, manuscripts, builds, releases | write-ahead records, derived files, lost files |
| Desktop research, material | `plugins/desktop_research`, `local_application/material`, `local_payload_repair.py` | ledger, child Runs, quarantine, bindings | results checked against a ledger that grows; repeated and dying requests |
| Research Packages | `local_application/research_package` | packages, visuals | what a copy was made from may be gone |
| Survey and Delphi | `local_survey*.py`, `local_delphi_store.py`, `survey_response`, `survey_analysis`, `local_application/survey` | designs, instruments, rounds, responses, datasets | references resolved in one database, written in another |
| Virtual runner | `survey_virtual_runner`, `local_application/virtual_runner` | Runs of synthetic answers | what is reported must rest on one freeze |
| Inputs, exhibits, attention, proposals | `local_project_input_store`, `local_research_exhibit_store`, `local_attention_store`, `local_application/research` | records, maps, candidates | stored while the State moves; read page by page |

How they interact. The conversation runtime turns an action into a service call
or a capability Run. A Run ends with a Handoff that normalization turns into a
candidate. A candidate that needs a Human Decision goes through the gate; any
other is applied by a confirmed action. Both end in
`StateTransitionService.apply`, the only writer of Research State. The stores
are separate SQLite files with no common transaction; each serialises its own
writers with `BEGIN IMMEDIATE`. Every open Workspace holds a shared OS lock,
which an advancement of the Project/Profile generation takes exclusively.

What makes each correct, in a sentence: no update is lost and no Decision spent
twice (Research State); one response owns a request and its commit (gate); one
outcome wins a Run and everything returned is kept that could be written (execution); no registered
row loses its bytes (bytes); one confirmation gives at most one effect, on the
state it was given for (conversation); whoever opens finds one generation
(Workspace); a number is given to one content (documents); what is stored was
still true when it was stored (registries).

`PROJECT.json` lists every component with its sources, every hazard at its line
with the properties that guard it, and the lines each definition stands for.

## Modules

**Research State.** `TransitionRules` is the pure half of `core/runtime`:
requests, required Decisions, validation, reduction. `SerialState` is the abstract
specification: every commit is one step, valid where it is applied.
`ResearchState` has several processes, each a sequence of the database reads of
`apply`: `Lookup` (idempotency key), `ReadHead` (project row, lineage row, HEAD
Snapshot), `ReadRest` (everything else, then validation), `Commit` (one
`BEGIN IMMEDIATE` transaction with its replay, HEAD, identity and single-use
checks). `view` holds what has been loaded so far and may be a mixture of several
states: that is what the transaction must survive. `TablesSpec` says that the
second implements the first with the tables mapped to themselves. `ViewFor` in
`SerialState` says what "valid" means for an object revision that another lineage
wrote first with the same content, which the code shares.

**Human Decisions.** In `HumanDecision`, `rows` and `outcome` are the operational
store, `head` and `commits` the authority. `Claim`, `Commit` and `Finalize` are
transactions on different databases; `Submit` is a new call of `resolve`, by
anyone, also after a crash. Research State appears by what `ResearchState`
establishes for it: a HEAD that every commit moves, and one commit per key.

**Execution.** In `ExecutionRun`, `status`, `attempt` and `handoffRef` are the
`runs` rows, `events` the append-only `run_events`. A call captures the Handoff,
validates, transitions and normalizes in separate steps; `Transition` is
`transition_run` with its compare-and-set and sequence check. In `CaptureStore`,
`files` are content-addressed and `rows` refer to them. A batch looks for existing
files inside its write transaction and cleans up inside; an output or an input
leaves its file; a capture pair does both
outside; `fresh` is the set of files a writer believes it created.
`ExecutionStore` is the two of them as one store.

**Conversation.** In `WorkConversation`, `proposals`, `requests`, `receipts` and
`correlated` are the conversation database; `head`, `commits` and `runs` are the
databases in which an action takes effect. `seen` is the `StateView` loaded at the
beginning of a call and used until its end. `HumanSay` is this and `HumanDecision`
together: wherever a human has a say.

**Workspace.** `Workspace` has every write of initialization, opening, child
registration, `profile advance`, its rollback and the recovery after a crash, with
the shared and the exclusive lock. `disk` is what is on disk; a generation is
spread over two documents, the binding and a row of the Research State.
`Generations` is the abstract specification: the generation moves in one step or
not at all, only to one that may follow it, and the step that moves it records the
move. `GenSpec` says that the Workspace implements it, with the generation the next
open will be in (`Visible`) and the advancements it will find (`Recorded`).

**Documents.** `WriterComposition`: capture and selection of versions of one
series, and what a capture restores of an interrupted one. `WriterRoundTrip`:
sections exported to an outside Writer, responses imported as revisions.
`PublicationRelease`: builds, release requests, decisions, their files and their
restoration.

**Material.** `DesktopResearch`: retrieval ledger, captures, collection under the
guard of the execution store. `MaterialRecovery`: reacquisition and exact payload
repair. `MaterialContinuation`: a historical result continued with new material,
singly or in groups. `FindingRecovery`: what historical Runs had proposed, copied
into a form that can be applied. `ResearchPackage`: immutable copies and visuals
made from them.

**Survey.** `Delphi`: a two-round study in its registry. `SurveyIntake`: designs,
instruments, batches of real answers, datasets, analyses. `SurveyAnswers` and
`PanelAnalysis`: pure computation, who was asked, what is accepted, how it is
counted and compared.

**Research.** `VirtualRunner`: Runs of synthetic answers. `ProjectRecords`:
registered inputs and exhibits. `ResearchProposals`: how a question, argument,
recommendation or verification comes about, and the resume put together from
several reads. `Attention`: maps of issues that must stay visible.

Theorems are in `ResearchStateProofs`, `WorkspaceProofs`, `WriterCompositionProofs`,
and in the compositions: `ExecutionStore` proves those about Runs and artifacts,
`HumanSay` those about Decisions and conversations, `Documents` those about manuscripts and releases,
`MaterialServices` and `ResearchRegistries` those about their services. `MC…` modules
give the runs their constants. `Documents`, `MaterialServices`, `ResearchRegistries`
and `MCSurvey` put services side by side that share little: a behaviour picks one of
them and the others stand still (`MCMaterial` starts those in their first state).

Operators that a comment calls a seeded fault stand next to the definition they
would replace and are used by nothing else: each turns one property of a run false
(`PROJECT.json`, "mutants").

## Runs

| Run | Module | Shows |
|---|---|---|
| `commits` | `MCCommits` | two processes commit to two lineages, race for one Decision, fork, switch, retry, crash, rebind |
| `execution_store` | `MCExecutionStore` | rival results, aborts, retries and deaths around two Runs; captures, batches and inputs sharing contents while Runs end |
| `human_say` | `MCConversation` | rival and repeated answers to candidates and to confirmation requests |
| `documents` | `MCDocuments` | manuscripts imported in parts; releases decided; deaths, failed writes and lost files between |
| `writer_series` | `MCWriterComposition` | two captures of one series with deaths, failures and losses at any write |
| `workspace_generations` | `MCWorkspace` | two processes open, extend and advance a Workspace and die anywhere in the saga |
| `material_services` | `MCMaterial` | desktop research, reacquisition, continuation, recovery, Packages |
| `survey_registries` | `MCSurvey` | Delphi rounds, batches of answers, conditional questionnaires, comparison of rounds |
| `research_registries` | `MCResearch` | virtual Runs, inputs and exhibits, proposals and reviews, attention maps |
| `approval_leaks`, `resume_moves`, `old_store` | | counterexamples, see Findings |

What the properties say; "proved" marks those a theorem states for all instances.

- `commits`, all proved. `TypeOK`. `LineageIsChain`: no two commits advance a
  lineage from one Snapshot, and its HEAD is the last. `DecisionsSingleUse`: a
  Decision is consumed once in the whole project, although each request checked only
  a view. `StatusNeedsHuman`: an approval or verification was consumed from a human.
  `SnapshotsClosed`: one content per revision, and every member resolves.
  `ReceiptsTrue`: a retry gets the stored commit of exactly its own request.
  `CommitsUnderTheirPin`: no commit under a binding it was not validated with,
  although `commit` does not compare it. `TablesSpec`: the refinement.
- `execution_store`. `ResultsRetained` (proved): status and history agree, a
  completed Run has one candidate and the valid result it recorded, and everything
  returned is kept unless the store fails to write it. `NoDangling` (proved): no
  committed row without its bytes, unless a capture of one Run shares them with
  another call (`Contested`); no role of captures over its limit.
  `NothingAfterTheEnd` (proved): an ended Run keeps its outcome and history, and no
  capture, batch or trace event is added; outputs may be. `ManagedRunsEnd`: a managed Run ends, unless a
  dying process left it.
- `human_say`. `CommitsAreOwned` (proved): a commit belongs to the response that
  owns its request, and the store reports what the authority holds.
  `EffectsAuthorized` (proved): one effect per action, confirmed as its mode asks, on
  the state it was bound to. `ReceiptsTellTruth` (proved): a receipt claims a mutation
  exactly if there was one, between the states it names. `AnswersAreFinal` (proved).
  `ClaimsAreSettled`: a claim interrupted anywhere is settled by a retry, unless it is
  an approval the code refuses for good (`RejectedAlike`).
- `documents`. `RevisionsOnce` (proved): a revision number is answered with one
  manuscript and a response imported once, whichever two files are lost; every section
  stands with an input that asked for it; deaths never leave a series that the next
  import cannot reconcile.
  `DecidedCurrent` (proved): a release is decided once, for what was current, whatever
  files are lost, and where none is lost an answered request stays releasable.
- `writer_series`. `SeriesSound` (proved): one content per version number, true answers, and
  no state its operations refuse for good by deaths alone. `Completes`: a capture
  asked for again completes.
- `workspace_generations`. `GenerationSound` (proved): whoever opens finds documents, binding
  and database of one generation; no held handle sees it change; no lost store is
  replaced by an empty one. `StrengtheningKept` (proved): no sequence of advancements weakens
  a Core invariant. `Settles`: an interrupted advancement is undone. `GenSpec` (proved): the
  refinement of `Generations`.
- `material_services`, all proved. `ResultMatchesLedger`, `SettledByItsCall`,
  `OneResult`, `NothingLost`, `PackagesCohere`: a collected result agrees with the ledger;
  a reacquisition ends what it began; a single reacquisition has at most one
  usable result (a group may get two: Observations); no bytes are destroyed; the Runs
  that a Package selects or that its exhibits derive from are of one mode. The attached
  document of the Package a visual was made from is not compared: it may be of the other.
- `survey_registries`. `RoundTwoRests`, `BatchesResume`, `AskedAndCounted`,
  `HoldsWhenStored`: a second round rests on an approved first and on Feedback over its
  current result, or on Feedback that an earlier build left, whose result one of the
  panel had answered; an interrupted
  batch goes on where it stopped; nobody is counted who was not asked; what a record
  refers to held when it was stored.
- `research_registries`, all proved. `ToldTheTruth`, `ListingComplete`, `ReviewSeesAll`,
  `ResumeExplains`, `NothingForgotten`, `RevisionsFollow`: a reported Run executed while
  the State stood still, and its success rests on its own responses; pages miss nothing;
  a review sees all that rests on its Question; a resume explains what is in force by the
  candidate and the request it shows, or says that it left candidates out (of requests
  beyond its limit it need not say so); no issue in force is dropped silently; a revision
  follows the one it was made from.

**Bounds, and why they suffice.** Two processes: the code's checks are pairwise, one
reader against one writer. `commits`: two lineages, because fork, switch and sharing
need exactly a second; one question and one Evidence object, since duties are per
edit; two pins; hand-picked proposals, so that each validation rule has a request
that meets it and one that does not, in two families, racing and lineage operations.
`execution_store`: two Runs, the second the managed retry of the first; three
Handoffs; six calls; one crash, one fault; `RoleLimit` 1, reached by the first
artifact of a role. `human_say`: two requests, one of them refused for good, four responses, three actions of which
two are made and two take place; `MaxHead` 1 moves the state under a binding.
`documents`: two outlines, the second without a section; two revisions, batches,
builds, configs and renderers; one fault and one loss. `writer_series`: three
versions, two selections, two faults, two losses. `workspace_generations`: two
advancements, one fault, one child, five Profile sets that differ in what the
validator compares. `material_services`: two Runs or attempts, one damage, one move
of the State, limits of one to three rows. `survey_registries`: one move of the
State, two requests, four files, questionnaires of three questions with two rules, a
panel of two. `research_registries`: two Runs, one of them of the model, two versions of the Instrument,
one move, one capture and one analysis by others; candidates and maps up to three, where a
resume shows two candidates, reads two requests and shows one saved candidate, so that each
limit is passed; two Configs between which the Profile goes forth and back, pages of one record. A bound on crashes, faults, losses or damages puts one of
them between any two steps. Symmetry is over processes or clients and only where no
liveness is checked.

**Deadlock** is checked except where a bound ends the behaviour; each such
configuration says so.

## Fairness

`execution_store`: weak fairness of each process's next step: a live process runs
on to the end of its call. That the adapter returns or raises is part of it and an
assumption on adapters. Nobody is obliged to call `collect` or `abort`, so an
external Run may stay open and `ManagedRunsEnd` claims nothing about it.

`human_say`: the same, and strong fairness of `Retry`, the caller's duty the design
document states: after an interruption the same structured response is submitted
again. Without it nothing settles a claim, and no background worker would.

`workspace_generations`: weak fairness of a process's step, strong fairness of
`Open` and of its `RecoverLock`: someone opens the Workspace again and again, and the
bounded wait for the lock succeeds now and then. `writer_series`: weak fairness of
the work of a process, strong fairness of its `Capture`, the request made again.

Crashes, faults and losses are never fair and always bounded.

## Proofs

Every theorem is for all sets of processes, requests, Runs, values and bounds that
satisfy the named assumptions.

| Module | Theorem | States | Inductive invariant |
|---|---|---|---|
| `ResearchStateProofs` | `TypeCorrect` | `[]TypeOK` | `TypeInv` |
| | `ChainCorrect` | `[]LineageIsChain` | `ChainInv` |
| | `SingleUseCorrect` | `[]DecisionsSingleUse` | `SpendInv` |
| | `ReceiptsCorrect` | `[]ReceiptsTrue` | `ReceiptInv` |
| | `PinCorrect` | `CommitsUnderTheirPin` | `TypeInv`, `PinInv` |
| | `SnapshotsCorrect` | `[]SnapshotsClosed` | `StateInv` |
| | `StatusCorrect` | `[]StatusNeedsHuman` | `StateInv` |
| | `Serializable` | `TablesSpec` | `StateInv` |
| `HumanSay` | `OwnedCommits` | `[]CommitsAreOwned` | `OwnInv` |
| | `FinalAnswers` | `[][AnswersAreFinal]_vars` | `OwnInv` |
| | `ActsOnce` | `[]EffectsAuthorized` | `ActInv` |
| | `ReceiptsTrue` | `[]ReceiptsTellTruth` | `ActInv` |
| | `AnswersStay` | `[][AnswersAreFinal]_vars` | `ActInv` |
| | `DecisionsOwned`, `ActionsAuthorized`, `ReceiptsHold`, `AnswersHold` | the properties of `human_say` | by `Spec => Gate!Spec`, `Spec => Conversation!Spec` |
| `ExecutionStore` | `RetainedResults` | `[]ResultsRetained` | `RunInv` |
| | `EndedForGood` | ended Runs stay as they are | `RunInv` |
| | `FilesKept` | `[]NoDangling` | `StoreInv` |
| | `AllFilesKept` | no row without its file where captures have their own bytes | `FilesKept` |
| | `NothingAddedLater` | captures, batches and trace events need a running Run | `StoreInv` |
| | `StoreRetains`, `StoreKeepsFiles`, `StoreEndsForGood` | the properties of `execution_store` | by `Spec => Execution!Spec`, `Spec => Store!Spec` |
| `WorkspaceProofs` | `WorkspaceSound` | `[]GenerationSound` | `Inv` |
| | `AdvancesInOneStep` | `GenSpec` | `Inv` |
| | `NeverWeakened` | `StrengtheningKept` | `Inv` |
| `WriterCompositionProofs` | `SeriesKept` | `[]SeriesSound` | `Inv` |
| `Documents` | `ReleasesDecidedOnce` | `[]DecidedCurrent` | `Inv` |
| | `ManuscriptsOnce` | `[]RevisionsOnce` | `WriterInv` |
| `MaterialServices` | `LedgerKeptBehindResults` | `[]ResultMatchesLedger` | `ResearchInv` |
| | `ChildRunsSettled` | `[]SettledByItsCall` | `RecoveryInv` |
| | `NoPayloadLost` | `NothingLost` | `RecoveryInv` |
| | `OneResultOfAttempts` | `[]OneResult` | `ContinuationInv`, `FindingInv` |
| | `PackagesWhole` | `[]PackagesCohere` | `PackageInv` |
| `ResearchRegistries` | `CallersToldTheTruth` | `[]ToldTheTruth` | `RunnerInv` |
| | `ListingsComplete` | `[]ListingComplete` | `RecordsInv` |
| | `SnapshotsFollow` | `RevisionsFollow` | `ProposalsInv`, `RecordsInv` |
| | `ReviewsSeeAll` | `[]ReviewSeesAll` | `ProposalsInv` |
| | `ResumesExplain` | `[]ResumeExplains` | `ProposalsInv` |
| | `IssuesKept` | `[]NothingForgotten` | `GuidanceInv` |

**Why the strengthenings are needed.**

*Research State.* The next revision of an object is one more than its `Latest`, a
`CHOOSE` that is a natural number only if a maximum exists: `LatestExists` in
`TypeInv` says every stored object has one. For the chain, the new Snapshot must
differ from every HEAD and every prior: `HeadsStored` says both are stored, while
the transaction refuses an identity that is stored. For single use, `SpentRecorded`
links the commit records to the key the transaction consults. `PinInv` says that a
view between its two reads, and the request of a process about to commit, carry the
current binding, because a rebind needs every handle closed. For the refinement,
`ViewsSound` in `StateInv` says what a view that is a mixture still has right at the
instant of its commit: if the HEAD is unmoved and the rows it rests on still fit,
validation of the current state gives what validation of the view gave.

*Human Decisions.* `OwnInv` adds `RowsOwned` (a claimed row names one of its own
responses), `CommitsTyped`, and `ProcessesOwn`: a process past `Claim` acts for the
owner of its row, and what it is about to write agrees with the commits there are.

*Execution.* `CallsSound` says what each step of a call knows: the Handoff it holds
is retained, a retry's parent has ended. For the artifacts, `WritersSound` says a
writer's `fresh` files hold no registered content but what is contested: inside a batch
because it holds the write lock, for a capture because its Run is reserved.

*Conversation.* `OwnAlone`: once a request is consumed one process acts for its
input, because the consumption is a compare-and-set. `InputsSound` and
`ProcessesSound` relate the stage of that process to what has happened so far.

*Workspace.* `OneGeneration` says nothing while a marker is there, which is when the
files disagree. `SavingSound` and `UndoingSound` say which files are of the new and
which of the old generation at each write of an advancement and of a recovery;
`MarkerSound` says that the marker announces a permitted move for which the captured
Evidence is fit before and after. A process may die between any two writes, so
everything else must follow from the marker: recovery starts from any mixture and
ends in `marker.old`. `EventsSound` says that what recovery removes from the archive
was created by the advancement it undoes and belongs to no recorded one.
`ControlSound` ties the lock to the step, so that a lemma may say once for all steps
what the others still know (`OthersStep`): an exclusive holder is alone, and a shared
holder only adds children, one registering at a time. The refinement then has one
step to look at: every other leaves `Visible` and `Recorded` as they are (`Quiet`),
the write and the removal of a marker by a recovery included.

*Composition series.* `CHOOSE` of a free version number needs a well-founded minimum.
`Missing` counts the artifacts lost against the bound on losses: with one loss less
than the copies of a fact, one copy of it is still there to restore the others from.
`RecordAhead` says the record is written before what it announces, and a restoring
call writes only what some copy says.

*Documents.* `DecisionsSound` speaks of everything that holds a decision: the stored
ones, and the processes that have read one and not used it yet. `Undecided`,
`Requesting` and `Releasing` say what the process between two of its steps may rely
on after others ran, and the restore of a lost file keeps what it was. `WriterInv`: what an
import or a reconciliation has still to write is exactly what is missing (`Left`), so
every write is one step of a list that is otherwise done. `Mending` says a
reconciliation restores the newest revision there is evidence of, `Adding` that an
import writes one newer than every other. `Traceless` counts which of the record, the
revisions and the head no longer tell of an answered revision; each costs a lost file,
so with two losses one is left and no number is given again. `Known` holds the revisions
on disk, on their way and answered: among them a number belongs to one.

*Material services.* `ResearchInv` orders the ledger, the collection and the result:
each is written under the lock of the Run, and what the next relies on is there.
`RecoveryInv` has the locks of each step, and says that corrupt bytes are copied to
quarantine before they are replaced. `ContinuationInv` says that the attempts of a
request form a line of which all but the latest are spent, and that locks are taken
in one order. In `FindingInv` a copy says what the settled original says, and a page
of three rows is enough to tell none, one and several apart. `PackageInv` says that
what an exhibit derives from was there before it and that the Package it was made
from holds what it shows, so no later exhibit changes what stands behind an earlier
one: `Ancestry` is a least closed set, not a recursion, for that argument.

*Registries.* `GuidanceInv`: a map continues the one it was made from, and the
pointer is at the last activation. `RecordsInv`: the metadata table holds the known
identities, one row each; a lock keeps the head still; and the rows a reader has
shown are none of those to come. `RunnerInv`: one call per Run, attempts and records
name each other, and a counter is the sum of what its requests cost; the Snapshot a call
compares with is the one its Run pins until it has ended (`before`), so a call that
goes on saw the State stand still; and which responses are stored, once they are, does
not change under a call that took them for its own. `ProposalsInv`:
identities are 1 to N so a new one is apart; a candidate is sound against the Snapshot
it is bound to; an object in force is what a requested candidate wrote; and candidates
and requests only grow, so what a reader counted is still a beginning of them. A candidate
that is not among the newest of those counted leaves more than the limit, which is what
the resume says.

**Assumptions.** Proposals, Jobs, Responses, Inputs and candidates are records of the
right shape (`JobAssumption`, `ResponseAssumption`, `InputAssumption`,
`RequestAssumption`, `RecordAssumption`, those of
`TransitionRules` and `SerialState`), Handoffs belong to Runs (`RunAssumption`,
`HandoffAssumption`), a Run is real or virtual (`ModeAssumption`), a lookup reads three rows or more
(`CandidateAssumption`, the code's `limit=3`), the limits of a resume are numbers
(`ResumeAssumption`), a runner's Profiles
are distinct (`RunnerAssumption`, checked at `virtual_runner_input.py:399`), bounds are
natural numbers (`CrashAssumption`, `BoundAssumption`, `RevisionBound`, `BoundsAreNat`), a "none" value
is none of the others (`NoResponseAssumption`, `NoneIsApart`), the Configs and Profile
sets given at the start are among those an advancement may start from (`FirstFits`,
`RequestsResolve`, `ConfigAssumption`). TLC evaluates all of these on its instances;
`NoneIsNoRecord` and `NoneIsNoRevision`, that None is no record of the shapes made,
quantify over all values, so they are hypotheses of `ReleasesDecidedOnce` and
`ManuscriptsOnce` instead. Some theorems have a premise that
the code does not guarantee, and say so. `AllFilesKept` takes `Contested` to be empty;
`FilesKept` does without and excepts those bytes: the code does lose them, see
Observations. `SeriesSound` and the first part of `RevisionsOnce` speak of a series while at most two
artifacts were lost: with the third no file tells of the newest, and its number is given
again.
The theorems of the registries are for a store with its metadata table; one from before
is the subject of `old_store`.

**Only model-checked.** Liveness (`ManagedRunsEnd`, `ClaimsAreSettled`, `Settles`,
`Completes`), out of the prover's reach. The properties of `survey_registries`: they compare medians, counts and
selections over sequences, each a fold, which only an induction over data could relate
to the answers.

## Findings

Each is a run whose property quotes a document and whose counterexample is the code.

- `approval_leaks`: whether a status change needs a Human Decision is judged
  against the newest revision stored for the whole project, so an approval on one
  lineage frees an approving revision on a fork from any Decision.
- `resume_moves`: a resume builds its page from one State and compares it with
  another; a commit in between gives questions of one Snapshot and a comparison with
  a later one.
- `old_store`: the metadata table of an exhibit store from before that table is
  created and filled in two transactions; a reader between them misses the older
  exhibits.

## Observations

What modelling showed beside that, with no run of its own.

*Research State and gate.* An approval that cannot be bound to a transition
(`core/decision/service.py:697`, `:777`), or whose transition validation rejects on the
very state it is for (`:341`), leaves its request RESOLVING: each identical retry is
rejected alike, any other answer is a rival (DECISION-RACE-001), and only a HEAD that
moves lets the second kind become STALE. A rebind updates the active lineage only; after a switch
to a lineage forked earlier, no further rebind finds what it expects
(`_write.py:61`). Two submissions of one approval: the one that loads the state after
the other's commit finalizes the request as STALE (`core/decision/service.py:212`). A
Decision cited where none is needed is compared with the used ones only in the
loaded view (`authority_validation.py:170`), not in the transaction.

*Execution.* A process that dies between `create_run` and the first event leaves a
Run that can be neither started nor aborted (`core/execution/service.py:384`). A
failing capture removes a text file that another Run's capture found present and
refers to (`retention.py:407`): the clean-up is outside the write lock.
`put_bytes` and `register_output_artifact` look at no Run status and no role limit
(`store_resources.py:27`, `store.py:410`): a virtual survey's output, or a
reacquired original, may be registered for a Run that has ended. The latter does not
look at the bytes either; what it gets is what `put_bytes` returned. A store that
fails to write a Handoff ends the Run FAILED with the result neither stored nor
diagnosed (`core/execution/service.py:460`).
A second `register_input_bytes` of the same content is refused unless
`registered_at` is the same, so opening an application again with the same resource
bytes collides.

*Conversation.* A process that dies between the commit of an action and its receipt
leaves an effect nothing records in the conversation (`core/conversation/service.py:643`).

*Material.* A group continuation aborts an attempt it saw running without looking
again: two results of one group
(`new_material_group_continuation_service.py:303`). A crash after the mirror and
before the collection leaves "in progress" until somebody aborts. Individual and
group continuations do not see each other. A COMPLETED attempt without a bound
capture is refused for good. A crash between the commit of a proposal and of its
execution leaves the proposal alone; `resulting_capture_id` is not looked up; attempt
numbers of two targets may coincide. In a recovery, child lookups are separate reads:
a replay completing meanwhile may make a producer ambiguous after it was chosen, and
a replay's copy and the Run's own re-materialized candidate may both exist.

*Packages.* An explanatory visual made in a VIRTUAL Package embeds that Package's document
in a Package labelled real (`research_package_builder.py:196-224`: the origin is loaded,
compared with what the visual shows and attached, its mode is not read), where
`docs/architecture/production-research-package.md:21` says that REAL/VIRTUAL mixing is
rejected. `OneMode` states what the build compares, and reaches that Package.

*Survey.* Capturing a draft Instrument or Design again after the State moved is a
conflict. In the comparison of rounds, two opinions (1, 3) are both "minority";
opinions that went from answered to missing count neither as change nor as
incomparable. An analysis that was interrupted is refused where the responses differ
in what was passed over (`response_support.py:198`, `aggregation.py:369`).

*Virtual runner.* If the State moves during a Run the Run fails its firewall check
and the call does not capture its responses. The public analysis actions analyse any
Dataset that is stored, however few of its responses are valid
(`survey_analysis_facade.py:239`, `aggregation.py:634`), where
`docs/architecture/production-survey-llm-virtual-respondent.md:96` says that no analysis
is made below the minimum: `SuccessIsAnalysed` speaks of what the call of the Run does. Synthetic
responses registered with `source_run_id` take the place of the Run's own
(`survey_response_core.py:109`), and the call that made the Run is then refused. An
inspection is refused when the State moves while it reads
(`survey_virtual_pretest_inspection.py:590`) and when several results are stored and it
names none (`:553`). Validator defects are only major or minor, so
the default blocking list never blocks; STRESS defects are resolved by code; an llm
Run sees no prior Runs and is never ready under its single policy; the eight-profile
cap is not enforced where the payload is built.

*Records, proposals, attention.* Whether a resume says that decision requests were left
out is judged by its first read (`resume.py:405`); the second, for reviews
(`question_review_resume.py:268`), may miss an older request without a word. The
candidates of both are cut together by the time their actions were proposed (`:357`),
which need not be the order in which they were carried out. A verification that fails after the row of a project
input was committed raises over a row that is kept. The submission of a review checks
its inputs' lineage in an earlier read. In a store from before the metadata table
a listing is also incomplete during the backfill; the passing run starts with the
table. An inherited issue that links to a question no longer approved blocks further
maps until it is relinked; activation does not check links again.

## Abstractions

- Object revisions keep status, body and Decision ids. Digests are equality.
  Post-reduction validators over content are left out of `ResearchState`: they only
  refuse more, so no safety property depends on them; for the liveness of the gate
  the approvals they refuse are `Refused` in `HumanDecision`. Left out as well: a
  RECONFIRM that changes an identity (`state_reducer.py:223`) and recorded Decisions as
  members of Snapshots (`state_reducer.py:106`). The SELECTs of one view
  (`_read.py:114`) are two reads, of the HEAD and of the rest.
- A binding (HEAD, Config, Profile Set) is one number in `HumanDecision` and
  `WorkConversation`: every relevant commit moves it.
- Handoff validation, normalization, service handlers, generators and renderers
  appear as their outcomes, chosen wherever the code can produce each.
- Sizes are counts; staged files are private to a writer and left out.
- Cancel hooks of adapters are best effort: a step without effect.
- `Crash` also stands for a store that raises an unexpected error: the call ends.
- Expiry may happen at any moment and is read once, as in the code.
- A virtual Run's call captures the specification of its analysis with the result, in one
  step, and ends where the code returns an error in place of a report. What others
  register for a Run is one Dataset whose responses are not the Run's.
- Assumed of the platform: SQLite transactions are atomic and serialised, a rename
  or hard link is atomic, a lock ends with its holder.

## Not modelled

The CLI, the facade and ingress (argument parsing and dispatch), the scripts (build and
documentation tooling), inspection and inventory queries (read-only), rendering and
package formats, resolution of manifests (the sets it can yield are a constant), the
wording of questionnaires, quotas and sampling frames, virtual
Snapshots and the disposition of review exhibits in Packages. The third read of State
in a resume, of candidate projections, is left out as well.

## Plan

Done: inventory, core, extension to every component with state of its own, and the
theorems above. Left, if surveys are to be proved about: definitions of their counts
that no fold is needed for.

## Running

    tlc -workers 2 -config commits.cfg MCCommits.tla
    tlapm ResearchStateProofs.tla

The longest run takes about four minutes on two workers.
