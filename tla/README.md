# Verification of the compliance platform

TLA+ models of the platform's backend (`src/backend/src`) and of the parts of
its browser application that keep state (`src/frontend`), the TLC runs that
check them on small instances, and theorems that TLAPS proves for every value
of the constants. `PROJECT.json` maps each definition to the lines it models and
lists the runs, mutants, hazards and theorems.

## 1. The system

A NestJS API over Postgres (Prisma), with Redis/BullMQ for background jobs and
an S3 bucket for evidence, and a Next.js frontend that calls it. One backend
process serves an owner: an organisation with its members, or one person.

| Component | State it keeps | Operations | What makes it hard | What makes it correct |
|---|---|---|---|---|
| Permissions, guards (`auth/`) | the role tables | `hasPermission`, `isAdminRole` | the caller's role is a snapshot taken when the token is validated | the browser's copy of the tables agrees with them |
| Authentication (`auth/auth.service.ts`, `jwt.strategy.ts`) | `Organization`, `User` | register, login, validate | the organisation and its founder are stored in two calls; a token outlives changes of its account | an organisation has a super admin |
| Users (`users/`) | `User.role`, `.status`, `.passwordHash` | create, updateRole, update, deactivate, reactivate | check-then-write over several awaits | a super admin remains; admins do not touch super admins; what overlapping calls can do to both |
| Findings (`findings/`) | `Finding`, `Evidence`, `FindingActivity` | assign, updateStatus, review, confirm evidence, start automatic verification | handlers and the worker write by id from old snapshots | the evidence gate, ownership of work, the lifecycle |
| Scans (`scans/`) | `Scan`, the queue `scans`, its worker | create, process | stalled jobs run twice; failures inside failures; verdicts that arrive late | every scan ends; a verdict belongs to a completed scan of that evidence |
| Settings (`settings/`) | the verification mode | update | it is read again when a scan fails | - |
| Tasks (`tasks/`) | `Task`, `Evidence` | create, assign, updateStatus, review, confirm evidence | task and parent record are updated in two transactions | a record follows its tasks |
| Staff devices, vulnerabilities, people | their rows | create, update, assign | they open tasks and are updated by them | a compliant device has all its checks resolved |
| Policies, trainings | texts, versions, acceptances, completions | create, update, accept, complete | edits overlap acceptances | an acceptance is for the content in force |
| Integrations (`integrations/`) | `Integration`, repositories, branches, members, syncs, the queue `bitbucket-sync` | callback, select workspace, list, toggle, sync, remove | Bitbucket refuses calls, rows vanish, jobs crash halfway | data survives what Bitbucket refuses, the status follows the syncs, every sync ends |
| Evidence storage (`storage/`) | objects in S3, presigned addresses | presign, head, delete | the client moves the bytes between two calls, and an address outlives what it was given for | a row has its object |
| Browser: session (`app/(auth)`, `Navbar`, `proxy.ts`, `useCurrentUser`) | the cookie, the cached member | sign in, up, out; navigate | the cookie is shared by tabs, the cache is not; answers are lost | the member shown is the session's |
| Browser: sheets and uploader (`components/findings`, `components/tasks`) | a cached row, the control in use, the file held | status, review, assign; presign, PUT, confirm | three calls that are no transaction, retried as a whole; stale rows | the sheet offers what the backend accepts; nothing is recorded twice |
| Browser: policies, trainings (`components/policies`, `components/trainings`) | a cached list, the open sheet | edit, create, accept, complete | a member acts on a row that is no longer current | the page catches up with its writes |
| Browser: team and wizard (`components/settings`) | a cached list, the form, the summary | change role, deactivate, add a member | three calls, any of which fails; a dialog closed while they run | the summary is true; buttons come back |
| Cloud accounts, controls, dashboard, activity log, common code | rows, labels, counts | CRUD and reads | the deletion of a cloud account cascades through scans and findings | see "Not modelled" |

**How they interact.** Every handler has the same shape: the token is validated
against the user row (a snapshot of the role), a guard asks for a permission,
the handler reads the row it is about, decides on that snapshot, perhaps awaits
other reads, the object store or the queue, and at last writes by id, without
repeating the check, with an activity row in the same transaction. Between two
awaits every other handler and both workers may run. Findings start scans
through BullMQ; the worker writes verdicts back into findings. Tasks that
resolve update devices and vulnerabilities. Queues and Postgres share no
transaction. The browser calls the API with the cookie it has at that moment,
shows rows from cached queries, decides with a copy of the permission tables
which controls to offer, and refetches after a call that succeeded; most of its
handlers catch a refusal but not a call that throws. Many handlers of the backend
read their row again after they have written it: an error then answers a write
that was made.

So the hazards are those of snapshots and of steps that fall apart: stale
writes, lost or repeated jobs, a crash between two writes, counts that two
handlers read at once, an answer that never comes. `PROJECT.json` lists them at the lines where they bite.

## 2. The plan, and what is done of it

In order of importance; each module is written to be proved about (constants
with named assumptions, one action per step, no RECURSIVE operator).

1. `Permissions`, `FindingTransitions`, `Findings`, refining the abstract
   `FindingLifecycle`; `FindingsProofs`. **Done.**
2. `Users`, `UsersProofs`. **Done.**
3. `TaskTransitions`, `Tasks` with devices, vulnerabilities and people;
   `TasksProofs`. **Done.**
4. `Integrations`, `IntegrationsProofs`. **Done.**
5. `Policies`, `PoliciesProofs`. **Done.**
6. `Workbench`: the sheet of a finding or task in a browser, presigned addresses,
   objects, confirmation and retries; `WorkbenchProofs`. **Done.**
7. `Sessions` over `Users`, `PolicyPages` over `Policies`, `Onboarding`:
   the browser where it keeps state of its own; `SessionsProofs`,
   `OnboardingProofs`, and `PoliciesProofs` for the pages. **Done.**
8. The deletion of a cloud account and its cascade through scans, findings and
   evidence while handlers and the worker are busy with them. *Left.*
9. The page that steps through the checks of a device
   (`DeviceCheckStepper.tsx`): it sends two status changes in a row and looks at
   neither answer. *Left.*

## 3. The modules

A *step* is what a handler or worker does between two awaits. A request in
flight is a record in `req` with the program counter `pc` and exactly the values
the handler still holds; a call that is rejected before it writes is no step, or
ends its request. Rows are functions from ids; `"ABSENT"` and `None` stand for a
row or column that is not there. A call of a browser travels, is served and is
answered, or is lost on the way; in the modules of the browser a handler of the
backend is one step where the module of that service takes it apart.

- **`Permissions`** — roles, permissions, `hasPermission`, `isAdminRole`,
  `isSuperAdmin` of `auth/permissions.ts`.
- **`FindingTransitions`**, **`TaskTransitions`** — the two transition tables and
  their questions.
- **`Findings`** — finding, evidence and scan rows, the verification mode, the
  queue, the worker, and handlers in flight. `Read...` actions are the first half
  of a handler (permission, row, decision), `Commit...` its transaction;
  `CountEvidence`, `ReadMode`, `ReadLatest...` the awaits between. A submission
  goes on into `startAutomaticVerification` (`CreateVerificationScan`,
  `CommitStartVerification`, `Enqueue`). The worker goes `PickUp`, `MarkRunning`,
  `ImportFindings` or `ScanError`, `MarkCompleted` or `MarkFailed`, then the
  verdict (`ReadVerified`, `CommitPass`, `ReadFailureMode`, `CommitSendBack`,
  `LogFallback`). Faults are `Abort` (an await rejects), `WorkerGivesUp` (an
  update of the worker throws) and `Restart` (the process dies; BullMQ gives the
  job of a dead worker to the next one once, then fails it).
- **`FindingLifecycle`** — the abstract specification: the status graph the
  transition file and its comments describe, and "submitted with evidence".
- **`Users`** — the members of one organisation, from its registration on. A call
  is authenticated, reads its target, perhaps counts the other super admins, and
  writes; an edit of a member may also be refused for its new e-mail address, or change
  no password (`KeepPassword`). The history variable `overtaken` holds the calls
  in flight during which another call changed who is a super admin.
- **`Tasks`** — tasks, the status of devices and vulnerabilities, evidence as a
  list of verdicts. A device is registered with one task per check. An approval
  commits, then updates the parent record in further steps (`ReadChecks`,
  `SyncDevice`, `SyncVulnerability`), and `Abort` may stop it anywhere. The history
  variable `overtaken` holds the calls in flight that read the status of a task
  another call has changed since.
- **`Integrations`** — an integration, its repositories, and the worker update by
  update. Copied rows are represented by the workspace they came from, or
  `"EMPTIED"` between `deleteMany` and `createMany`, or `"TORN"` when the insert was
  rejected (`InsertRejected`: a branch listed on two pages meets the unique key, or the
  database is at fault) or the process died there. `Remove` cascades; the next
  update of a row that is gone throws, into the catch block or out of it, as in
  the code. Bitbucket is external: it answers for repositories of the workspace,
  and may refuse anything (`Refused`): what earlier pages listed is lost with the call.
- **`Policies`** — content and version of policies, acceptances, trainings. The
  field `of` of an acceptance is no column but a history value: the content that
  was in force when the version was read. It is not the content the member was shown:
  neither the code nor the model records that.
- **`ClientPermissions`** — `frontend/lib/permissions.ts`, translated on its own
  from the browser's file, and never from the backend's tables it mirrors.
- **`QueryCache`** — one cached query: `data`, whether it was invalidated
  (`stale`), and the fetch on its way. Its field `lacks` is history: the data is
  older than the last write of this browser. An answer on its way is `"new"` if
  it was read after that write, `"old"` if the write overtook it.
- **`Workbench`** — `item`, the row of a finding or a task (`kind`), the bucket,
  the handler that confirms an upload, and in the browser the query, the control
  in use and the uploader. Every attempt to upload has a number, so that a file
  has the attempts from `upload.first` to `upload.next - 1`. Calls are answered by an error before their
  write or after it (`ServeCall`: the handlers read the row once more, or update the
  parent record, after the commit), and a confirmation fails at any await before its row
  is stored (`ConfirmFails`). An address can be used again while the handler checks the
  object or after it stored the row (`PutAgain`). The history variable `lost` holds the
  attempts whose answer was lost, `replaced` those whose object was replaced after its
  size was checked, and `untold` says that a write was made and the browser not told.
- **`PolicyPages`** extends `Policies` with one member's pages: the list, the
  sheet that shows one row of it, the call on its way (served by the `Read...`
  and `Write...` steps of `Policies`), and `stuck`, the components whose answer
  never came. A handler can fail at each await before its write (`HandlerFails`), the
  page's own (`ServeError`) and a colleague's (`OtherHandlerFails`); `accept` and
  `complete` read their row again after it, and may answer an error then
  (`AnswersToWrite`).
- **`Onboarding`** — the team page and the wizard: rows of accounts, People
  records and devices; the handler `handleCreate` call by call (`run`), which goes on
  when its dialog is stepped `Back` or closed; each call may fail before its write or
  after it (`RegisterDevice`, then `ReadDevice` of tasks and activity). `crashed` and `untold` are history.
- **`Sessions`** extends `Users` with a tab: the cookie, the page, the form, and
  the query of `/auth/me` with the account whose token it carries. `unaware` is
  history: nothing told the tab that its session changed.
- **`MC...`** — instances for TLC. **`...Proofs`** — theorems.

BullMQ, Bitbucket and TanStack Query are the external parts; their actions follow
how the code configures and calls them (one worker per queue, one attempt per
job, one recovery of a stalled job; the default query client of
`app/providers.tsx`).

## 4. The runs

All ids are model values; ids of one kind are interchangeable and the safety
runs use that symmetry where it pays, the runs with liveness do not. Two users
are enough to separate the roles that the tables distinguish (admin and dev).

| Run | Instance | Shows |
|---|---|---|
| `FindingsFaults` | 1 finding, 2 scans, 2 requests, 1 piece of evidence, faults, modes AUTO_ONLY and MANUAL_ONLY | the inductive `WorkflowInvariant` with `SubmittedHasEvidence` and `WorkHasOwner`, `ResolutionIsRecorded`, `JobFollowsSubmission`, `VerdictOfCompletedScan`: they survive overlapping handlers, crashes and repeated jobs |
| `FindingsManual` | 2 findings, 2 scans, 1 request, 2 pieces of evidence, MANUAL_ONLY | the service implements `FindingLifecycle` (`ImplementsLifecycle`); `VersionsSequential` |
| `FindingsAutomatic` | 1 finding, 3 scans, 1 request, 2 pieces of evidence, AUTO_ONLY, fair | `ScanSettles`, `AutomaticReviewEnds` |
| `Sessions` | 2 accounts, 1 password, 2 overlapping calls, 1 tab | `BrowserTypeOK`, `MeFollowsSession`, `MeMatchesBackend`, `LockoutIsPermanent`, `LastSuperAdminKept`, `SuperAdminsUntouched` |
| `UsersDisabledCounted` | 2 accounts, 1 call at a time | **violation** of `ActiveSuperAdminRemains` |
| `TasksSerial` | a device with 2 checks, a vulnerability, a person, 1 more task, 1 call at a time, faults | `WorkHasOwner` |
| `TasksOverlap` | a device with 2 checks, 2 calls, no faults | `TypeOK`, `SubmittedHasEvidence`, `ResolvedChecksComply`, `CompliantUntilOvertaken` |
| `TasksLostSync` | the same, 1 call at a time, faults | **violation** of `ResolvedChecksComply` |
| `Integrations` | 1 integration, 2 syncs, 2 workspaces of which one has both repositories, 1 request, inserts that are rejected, fair, one crash | `TypeOK`, `RefusalKeepsData`, `SyncCopiesOneWorkspace`, `StatusFollowsSyncs`, `SyncSettles` |
| `PolicyPages` | 1 policy, 3 versions, 2 texts, 1 training, 2 members, one of them at the browser, 2 calls | `PagesTypeOK`, `AcceptedContentInForce`, `PageShowsOwnWrites`, `OnlyEditsReopen` |
| `Workbench` | a finding or a task, 2 members, 1 upload, 1 step elsewhere (a colleague's, or a PUT to the same address) | `TypeOK`, `SheetMatchesBackend`, `EvidenceHasObject`, `HeldFileNotRecorded`, `ShowsOwnWrites` |
| `Onboarding` | 3 accounts of which 2 are there at first, 2 forms, 1 handler of the wizard, 2 writes, 1 step elsewhere | `TypeOK`, `TeamPageMatchesBackend`, `ReportedIsSaved`, `SubmittingHasHandler`, `TeamShowsOwnWrites` |

**Bounds and why they are enough.** `Request` bounds the calls in flight: two are
what a race between a check and a write takes, and the worker comes on top. A
device has two checks instead of three: one that resolves and one that does not.
Two scans let the job of a second one follow a crash in the first; with one piece of
evidence no run lets a second verification overtake the first one's verdict, and only
`VerdictsOfCompletedScans` (§5) covers that. Three scans in `FindingsAutomatic` let
the finding come round again. `MaxEvidence` bounds the
rows of a finding or task, `ScanId`, `SyncId` and `Extra` the rows ever created, and
`MaxVersion` the edits of a policy; a handler that would need one more row does
not start. `FindingsFaults` switches between two modes: AUTO_WITH_FALLBACK
behaves as AUTO_ONLY when evidence is submitted and as MANUAL_ONLY when a scan
fails, and the mode may change in between. `Integrations` allows one crash of a
busy worker, after which BullMQ repeats the job; a second crash of the same job
would fail it and leave its row RUNNING, in both queues.

In `Sessions` two calls overlap as long as the tab is as it was opened (`Turn`), so that
two super admins demote each other and targets are promoted between check and write;
after the tab's first move there is one call elsewhere at a time, from its
authentication to its write, between two moves (`Quiet`): only the write changes what
the tab can read. With one password in play a login is refused
because its account is absent, disabled, or the call failed, which is all the
form can tell. The tab does not navigate while a form waits. In `PolicyPages`
colleagues use the items of the page that is open, start
no call while a handler runs that the page does not wait for, and edit policies but
accept none (`Accepting`, a set of colleagues, is empty): what the page shows of a row
depends on its own member's acceptances. Three versions are two edits that overlap each
other and an acceptance. `MaxElsewhere` bounds what
happens outside a browser; one step is enough to make what it shows stale, and
`MaxAttempt` and `MaxWrites` bound what is started in it. The wizard is not
opened while a control waits for its answer. The expiry of an address is left out:
`PutAgain` may come at any time. The one upload of
`Workbench` can fail or lose its answer at each of its calls, after which the file is
held for a retry, which the bound no longer starts; `WorkbenchProofs` covers any
number of attempts. What overlapping calls do to `Users`, `Tasks` and `Policies` is not
left to an instance: every theorem of `UsersProofs`, `TasksProofs` and `PoliciesProofs`
is about any number of them.

**Deadlock** is checked except in `UsersDisabledCounted`, `TasksOverlap` and
`PolicyPages`: an organisation can reach a state in which nobody is left who may
call anything (that is what `LockoutIsPermanent` is about); with no vulnerability,
person or spare task all work of `TasksOverlap` may be done; and a page may have
everything accepted, completed and written up to the bounds.

**Fairness.** `FairSpec` assumes of the handlers that each continues (Node's event
loop resumes every await that has settled) and of a worker that it keeps taking
and processing jobs. Users are never assumed to act. Liveness is checked without
database faults: the code has no step that would repair a row whose job was
never queued or whose last update failed, and the hazards say so. In
`Integrations` Bitbucket may refuse every call, the integration may be removed at
any time, and the worker may crash once. In the browser nothing is assumed: an
answer may be lost, so its properties say what holds once it has finished.

**What the violations show.** `UsersDisabledCounted`: a super admin deactivates the
other one and then demotes itself, because a demotion counts super admins of any
status; by `LockoutPermanence` this cannot be repaired from inside.
`TasksLostSync`: the process stops between the approval of the last check and the
update of the device; the task cannot be reviewed again, so the device is left
PENDING.

**What overlap breaks, and is not a violation.** Several checks of the code do
not survive calls that overlap, which nothing prevents: two super
admins who demote each other are each counted as the one who remains, an Admin's call
changes a target promoted after its check, an assignment that read a check before its
approval reopens it under a COMPLIANT device, two uploads share a version, and an
assignment, a submission or a verdict that comes late leaves the documented lifecycle.
The properties state what the code does keep: `LastSuperAdminKept`,
`SuperAdminsUntouched` and `CompliantUntilOvertaken` hold under any overlap and name
the one kind of step that breaks the plain claim, by the history variable `overtaken`.
`ImplementsLifecycle` and `VersionsSequential` are checked with one handler at a time,
and the theorems `LifecycleUntilOvertaken` and `VersionsUntilOvertaken` say for any
overlap which late step breaks them.

Each property of a passing run has a mutant, an operator named
`<Definition>_<What>` beside the definition: with it in place of the definition
TLC finds the property violated.

## 5. The theorems

TLAPS proves these for all values of the constants that satisfy the `ASSUME`s of
the module: any number of users, rows, overlapping requests, with and without
faults. The modules hold no other assumption.

`FindingsProofs`
- `TypeCorrectness`: `Spec => []TypeOK`. `TypeOK` is inductive: besides the types
  it says that a handler holds the ids its next step needs.
- `WorkflowInvariance`: `Spec => []WorkflowInvariant`. The evidence gate is not
  inductive, because a handler writes from a snapshot: `CommitStatus` submits
  what `CountEvidence` counted some steps ago, and a scan decides what a handler
  submitted. `SnapshotsHold` adds what stays true of stale snapshots: a finding
  that was started stays started, and evidence is never deleted, so what a handler
  past the count or a scan refers to has an owner and evidence, whatever its
  status is by now. The proof goes through one lemma on the effect of each step
  on status, assignee and evidence (`NextEffect`) and one per conjunct
  (`GateStep`, `OwnerStep`, `SnapshotsStep`).
- `EvidenceGate`, `OwnedWork`: the two safety properties, from it.
- `OpenByAssignment`: OPEN is left only to ASSIGNED. Handlers in flight that write
  another status act on findings that were started, and these are not OPEN.
- `RecordedResolution`: `Spec => []ResolutionIsRecorded`, by one step lemma
  (`ResolutionStep`) over the two ways a finding resolves and all ways it leaves.
- `JobsFollowSubmissions`: `Spec => []JobFollowsSubmission`, from `JobInvariant`:
  the scan a handler created and has not queued is held by that handler alone, and
  queue and worker hold scans that exist.
- `VerdictsOfCompletedScans`: `Spec => VerdictOfCompletedScan`, from
  `VerdictInvariant`: at the step that stores a verdict the worker has completed the
  scan of that evidence, although its job may have been repeated after a crash.
- `VersionsUntilOvertaken`: every step keeps `VersionsSequential`, in every mode and
  with any number of handlers, the worker and faults, but for one: an upload that stores
  with a count another upload has overtaken (`StoresLate`).
- `LifecycleUntilOvertaken`: in every mode, with any overlap, aborted requests and
  restarts, each step is a move of `FindingLifecycle` or a stutter, unless it
  `ActsLate`: a handler whose status is not `Fresh` any more (an assignment that read a
  finding before its approval takes a resolved finding back), or a verdict of the worker
  on a finding that is not under review. Evidence counted some steps ago is still there
  by `WorkflowInvariance`, so a late submission never breaks the abstract gate. The
  lemmas go step by step (`DecisionIsLifecycleStep` for the verdicts, whoever gives them).

`UsersProofs`
- `TypeCorrectness`: `Spec => []TypeOK`.
- `LockoutPermanence`: `Spec => LockoutIsPermanent`, from the invariant
  `Established`: a call that writes the super admin role was authenticated as a
  super admin, or is the registration of a founder who does not exist yet.
- `LastSuperAdminKeeping`: `Spec => LastSuperAdminKept`. The invariant `Undisturbed`
  says what a call in flight still `Knows`, unless it is in `overtaken`: its caller is
  still a super admin if it was authenticated as one, and a super admin it is about to demote is not
  the last one.
- `SuperAdminsLeftAlone`: `Spec => SuperAdminsUntouched`, from the same invariant: a
  call past its check that was not overtaken has a target that its caller may manage.

`SessionsProofs`
- `SessionsImplementsUsers`: a tab and the calls around it implement `Users`, so
  `SessionsLockoutPermanence` and `SessionsSuperAdmins` carry the theorems above over to
  the composition.
- `BrowserTypeCorrectness`, by induction together with `Awaited`: a registration that
  was not answered is still running.
- `MeFollowsItsSession`, `MeMatchesTheBackend`: from `Attributed`, which relates the
  query, its answer on the way and the token that fetched it to the cookie: an answer
  fetched with another cookie, one that was overtaken, and data that no longer
  matches are only there when the tab is `unaware`. The proofs hold for any number of
  accounts and of calls elsewhere.

`OnboardingProofs`
- `TypeCorrectness`, by induction with `Prepared`: a wizard that can create has a form
  that was filled in. `TeamPageAgrees` follows from the types: the offers of the page and the
  guards of the service are compared case by case (`OffersAccepted`,
  `AcceptedOffered`), for every team.
- `SummaryIsTrue`: `Saved` says that what a handler of the wizard has `Obtained` exists,
  whether or not its dialog is still open; rows are never deleted.
- `ButtonHasHandler`: inductive as it stands, given the types.
- `TeamIsOwn`: from `Told`: a list that lacks a write of the page is stale, or a
  handler is still `Pending` that will refresh it, or the browser cannot know.

`TasksProofs`
- `TaskInvariance`: the inductive invariant `TaskInvariant`. Beside the rows
  (`RowTypes`), the checks of devices (`DevicesHold`) and the two properties
  below it says what each call in flight may rely on however stale its reads are
  (`CallHolds`: a task that was begun is never OPEN again, evidence is never
  deleted), and that the row a call is about to insert is no other call's
  (`Reserved`). Every step keeps the rows `Stable`, so the calls it does not touch go
  on holding (`OthersHold`).
- `TypeCorrectness`, `OwnedWork`, `EvidenceGate`: from it.
- `CompliantTillOvertaken`: `Spec => CompliantUntilOvertaken`, with any set of checks
  and with faults. `CurrentReads` says that what a call in flight has read of a task is
  still so, unless the call is in `overtaken`; a write from a current read never gives a
  compliant device an unresolved check (`ComplianceStep`).
- `FaultlessCompliance`: if no await rejects and the process does not die
  (`~Faults`), `ResolvedChecksComply` holds for any number of reviewers who approve
  at once: of two that approve the last two checks, the one that commits last
  reads both resolved. `Asked` says that only a review resolves a task. The run
  `TasksLostSync` shows that the assumption is needed.

`IntegrationsProofs`
- `CopyInvariance`: the inductive invariant `CopyInvariant`: the types, the state of
  the worker between jobs (`AtRest`), the row it has in hand (`InHand`), what it
  copied so far (`Copied`), what requests in flight hold (`RequestsHold`), which
  syncs exist (`SyncsKnown`), and that what belongs to a removed integration goes
  with it (`RowsGo`).
- `TypeCorrectness`, `OneWorkspaceCopied`: from it.
- `RefusalsKeepData`: `Spec => []RefusalKeepsData`: rows are `"EMPTIED"` only between
  the `deleteMany` and the `createMany` of the worker that holds the integration
  (`EmptiedStep`); every other way to lose them is a rejected insert or a death of the
  process, which `Tear` marks.
- `StatusOfSyncs`: `StatusInvariant` says that a sync has one job (`OneJob`), that
  one that is not finished was never reported (`FirstRun`), and what the rows say
  of finished ones (`Results`).
- It rests on `CopyAssumption` beside the module's other assumptions: the marks
  "NONE", "EMPTIED" and "TORN" are not names of workspaces.

`PoliciesProofs`
- `TypeCorrectness`, and `Acceptances` (`AcceptedContentInForce`) for any number of
  overlapping edits and acceptances: by `TextsAgree` an acceptance of the version in
  force was called for while the content in force was in force, and a version in flight that was overtaken stays
  behind for good. `Reopening`: only an edit takes an acceptance back.
- Of `PolicyPages`: `PagesImplementPolicies` (the pages over the services implement
  the services, so `PagesAcceptances` follows from the theorems above),
  `PagesTypeCorrectness` from `PagesOK` (a sheet shows a row that its list holds although
  newer lists replace it, and a call that waits has a handler), and `OwnWrites`
  from `Told`: a list that lacks a write of its member is stale, or the answer that will
  make it stale is at hand, or it was lost or was an error.

`WorkbenchProofs`
- `TypeCorrectness`, and from `UploadInvariant` both `StoredEvidence`
  (`EvidenceHasObject`) and `RecordedOnce` (`HeldFileNotRecorded`), for any number of
  attempts and steps elsewhere. `AttemptAgrees` relates the uploader, the object and
  the confirming handler of one attempt: an object that is confirmed was stored and
  checked, and is larger now only if its address was used again since, and a confirmation that succeeded was either received or is in `lost`.
- `SheetsAgree`: on every item and role the sheet offers what the backend accepts, by
  comparing the two copies of the permission tables call by call (`AcceptedStatus`,
  `OfferedStatus`, `ReviewsAgree`, `AssignmentsAgree`, `UploadsAgree`).
- `OwnWrites`: `Told` alone is not inductive: it needs that a sheet which waits for an
  answer is open (`InUse`), so that the answer refetches its query, and that a
  confirmation still running is the one the browser waits for or one it gave up (`Waited`).

**Assumptions on constants.** Beside the typing of constants each module assumes that
its marks are not values: `None` is no user, row, request, list or summary, `"guest"` no
account, `"NONE"`, `"EMPTIED"` and `"TORN"` no workspaces. TLC evaluates those of a module
in its runs. No theorem limits the number of calls that overlap; `FaultlessCompliance`
alone assumes something of the surroundings (`~Faults`).

**Only model-checked.** Liveness (`ScanSettles`, `AutomaticReviewEnds`,
`SyncSettles`) and anything with fairness or ENABLED is out of the prover's
reach. That `VersionsSequential` is an invariant, and that the service implements
`FindingLifecycle`, are claims about the one handler at a time of `FindingsManual`; the
theorems say instead which steps keep them under overlap. Every other property of a
passing run is stated by a theorem as it stands. The two violations stay with
TLC: they are counterexamples. Induction over data (what a recursive definition
computes for every input) is out of reach as well; the models hold none.

## 6. Not modelled

- Activity rows: appended in the transaction of the change they describe and
  read only by listings.
- Prowler, its child process and its files, and the score: a scan reports a set of
  findings, and whether the verified one is among them, or fails.
- The bytes of an object: an upload is missing, stored or too large. The time after which
  an address expires, and a second confirmation of the same evidence, which the uploader
  never sends.
- The removal of cloud accounts (plan, 8): every handler of `Findings` would meet a
  missing row at each of its awaits, answer 404 or 500 and change nothing else; the
  worker's last update of such a scan throws outside its catch block.
- Two renewals of an expired Bitbucket token at once (the one stored last wins), an
  organisation whose founder was never stored, and controls that two calls create
  twice: each is a lost update of a row that no modelled check reads.
- Tokens, passwords' hashes, encryption, and the OAuth state: whether a call is
  authenticated is a guard.
- Controls, the dashboard, listings, CSV export, health: reads, labels and counts.
- Of the browser: tables, charts and the primitives of `components/ui`, which keep no
  state of the platform; the pages of devices, vulnerabilities, people,
  integrations and cloud accounts, which repeat the sheet and dialog of the
  modelled ones; the stepper of a device (plan, 9). Cached queries other than
  `/auth/me` survive a sign-out until they are fetched again; only that query is
  modelled across sessions.
- Rows of other owners: every query is restricted to the owner of the caller
  (`common/ownership.util.ts`), so a model follows one owner.
