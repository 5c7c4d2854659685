# A TLA+ model of art-monke

art-monke keeps a musician's recordings: a browser uploads audio files to an
api, the api streams them into an S3 bucket (Garage) and queues a transcode for
each tier, workers transcode them and announce how they are getting on through
Redis, and a deletion sweep that runs inside every worker takes deleted files
out of the bucket. This directory models that life of a file and the two web
pages it is seen on, checks the models with TLC, and proves with TLAPS every
safety property the passing runs check.

Contents: [1 inventory](#1-inventory), [2 modules](#2-modules),
[3 modelling decisions](#3-modelling-decisions), [4 runs](#4-runs),
[5 proofs](#5-proofs), [6 what the models found](#6-what-the-models-found),
[7 not modelled](#7-not-modelled), [8 plan](#8-plan).

## 1 Inventory

| component | state it keeps | operations | talks to |
|---|---|---|---|
| **stores**: Postgres `audio_files`, `transcode_jobs`; the bucket | a row's `status` and `has_<target>` flags; a queue row's `status`, `attempts`, `worker_id`, `lease_expires_at`; objects by key | SQL statements, PUT and DELETE of an object | everything |
| **uploads and deletes** (`apps/api/src/main.rs`) | the request in progress: which await it stands at | `upload_audio`, `discard_duplicate`, `delete_audio` | stores |
| **transcode worker** (`apps/worker/src/main.rs`) | the claimed `Job`, its attempt, a scratch directory | `claim_job`, `run_job`, `renew_lease`, `record_failure`, drain | stores, Redis, ffmpeg |
| **transcode** (`probe_duration`, `transcode`, `ProgressReporter`) | ffmpeg, its two pipes, the task that reads stderr, the last percentage and its Redis key | spawn, read a line, report, wait, join | ffmpeg, Redis |
| **deletion sweep** (`apps/worker/src/sweep.rs`) | the batch being finalized | `sweep_once`, `clear_resolved_jobs`, `claim_free_files`, `finalize` | stores |
| **progress** (worker, api, `TranscodeBars.tsx`) | Redis channel and percentage key; an SSE stream; the page's overlay | `publish_terminal`, `ProgressReporter::report`, `audio_progress`, `useTranscodeStates` | stores, Redis, the page |
| **lists and downloads** (api) | none | `list_audio_for`, `download_audio`, `download_derivative` | stores, the page |
| **accounts and sessions** (api, `session.ts`, `LoginPage.tsx`) | `users`, `sessions`, the browser's cookie, the page's idea of who is signed in | `register`, `login`, `logout`, `AuthUser`, `useSession` | stores, the page |
| **own page** (`App.tsx`, `uploadAudio.ts`, `FileList.tsx`) | library list, upload pool, playing track | `uploadAll`, `refreshFiles`, `onDelete`, `onPlay` | api |
| **public library page** (`SharedLibrary.tsx`, `Player.tsx`, `speed.ts`, `routes.ts`) | the link it was opened on, its list, notice, track, speed, the address bar | `sharedRoute`, `carrySpeedStep`, the list's arrival, clicks on rows and on the speed buttons | api, the address bar |
| **set-up, deployment** | environment variables, manifests | start, stop | all |

Status of a file: `uploading` → `uploaded` → `delete_pending` → `deleted`, with a
failed or abandoned upload going from `uploading` to `delete_pending`, and a
duplicate from `uploading` to `deleted` (or `delete_pending`). Status of a queue
row: `pending` → `in_progress` → `done` or `failed`, or back to `pending`.

What makes it hard:

- **Nothing spans the stores.** Postgres and the bucket are written one after
  the other, by processes that may die in between; each order was chosen so
  that what is left over is harmless, and the question is whether it is.
- **Everything runs more than once.** Every replica claims and sweeps; a lease
  lapses under a live worker, so a job may be run by two at a time; a sweep acts
  on a selection that another sweep has already finished.
- **A delete may come at any moment**: during the upload's PUT, during the
  transcode, between the two halves of either.
- **An error is not an answer.** A PUT, a DELETE, a COMMIT that errors may have
  been applied.
- **Redis forgets**: the page must converge on what Postgres says although any
  message may be missed.
- **The page outlives its requests, and they outlive the page.** A logout is fire
  and forget; uploads go on after a sign-out; answers of one sign-in arrive
  under the next; and only an answer can touch the cookie.
- **Two processes, two pipes.** ffmpeg writes progress to one and errors to the
  other, either may fill up, and the worker reads one of them between awaits on
  Redis: who waits for whom is nowhere written down.
- **What was read grows old.** A list, a row found for a download, a link somebody
  sent: each is acted on minutes after it was true.

What makes each component correct:

| component | property | where it is stated |
|---|---|---|
| stores | a live row's source, and an object for each flag it carries, are in the bucket | `LiveServable` |
| stores | `status` never goes back | `StatusOnlyAdvances` |
| uploads | a discarded duplicate leaves nothing; two live files are never the same upload | `DuplicateLeavesNothing`, `ImplementsLibrary` |
| uploads | an upload is thrown away only for a live copy of it, which stays until it is deleted | `DiscardKeepsACopy` |
| uploads | a file that goes live has its queue rows | `LiveQueueConsistent` |
| uploads | a 201 is a published file, or one its owner has deleted | `CreatedMeansPublished` |
| lists, downloads | what was offered, however long ago, can be had until the file is deleted | `OfferHolds` |
| worker | while a worker may still PUT, its row says `in_progress` | `BarrierHolds` |
| worker | a row is never `pending` past the cap; a claim resolves | `PendingIsClaimable`, `ClaimResolvesBelowCap` |
| worker | no two workers run the same attempt of a job, and the row counts them all | `RunsNumbered` |
| transcode | ffmpeg and the worker never wait for each other, and no loop between them is endless | `TranscodeEnds`, `NobodyStuck`, `LeftShrinks` |
| transcode | a final failure is judged with all of ffmpeg's stderr, or with none of one that is not text, never with a part | `WholeStory` |
| transcode | no attempt ends with its ffmpeg still running | `NoStrayEncoder` |
| sweep | `deleted` means no derivative is left, or appears later | `DeletedLeavesNoDerivative` |
| sweep | a delete that comes after its upload's PUT leaves no source | `LateDeleteLeavesNoSource` |
| sweep | a file found free of jobs stays free | `FreedStaysFree` |
| sweep | every delete finishes, also behind files Garage never lets go of | `DeleteConverges` |
| progress | a tier shown as ready is ready, one shown as failed has failed | `ReadyIsTrue`, `FailedIsTrue` |
| progress | a dropped stream heals | `SelfHeals` |
| progress | nothing that comes later takes back how a tier ended | `EndIsFinal` |
| page | nothing of one account is shown or played to another | `ShownIsOwn` |
| sessions, page | the api serves a signed-in page as the account on its screen, or as nobody | `ServedAsShown` |
| page | every file of a selection is settled, whatever becomes of the others | `PoolDrains` |
| sessions, page | a signed-in page has a session that works | `SignedInWorks` (violated) |
| public page | a link copied while a track plays opens on that track at that speed | `LinkKeepsItsWord` |
| public page | the page says why a link's track is not playing, as long as it is not | `SaysWhy` |

The line-by-line list of hazards is in `PROJECT.json`.

## 2 Modules

    AudioStore ── Uploads ────┐                 ┌─ MCAudioSystem ─┐      (TLC)
        │                     ├── AudioSystem ──┼─ Downloads ─────┴─ MCDownloads
        └──────── WorkerLoop ─┘                 └ INSTANCE AudioLibrary (refinement)
    Transcoder
    Progress
    Sessions ── Page ───────┐
    Speed ───── SharedPage ─┴── App ── MCApp                         (TLC)

    proofs (TLAPS)
    AudioSystem ── AudioSystemProofs ─┬─ LibraryProofs (with Downloads)
                                      │        └── DeletionProofs
    Transcoder ─── TranscoderProofs   SharedPage ── SharedPageProofs
    Progress ───── ProgressProofs     Page ──────── PageProofs
    App, PageProofs, SharedPageProofs ── AppProofs

| module | models | how it corresponds to the code |
|---|---|---|
| `AudioStore` | the two tables and the bucket | `file`, `flags`, `queue`, `bucket`; one operator per SQL statement or WHERE clause (`SetStatus`, `Claimable`, `Clearable`, `NoJobs`, `Collides`) and per S3 call |
| `Uploads` | `upload_audio`, `discard_duplicate`, `delete_audio` | `upload[f]` is the await at which the request that inserted row `f` stands, or the answer it gave; one action per await |
| `WorkerLoop` | `main`, `claim_job`, `run_job`, `renew_lease`, `record_failure`, all of `sweep.rs`; time | `stage[w]` is the await at which worker `w` stands, `job`/`attempt` its `Job`, `batch`/`keys` what its sweep has left |
| `AudioSystem` | api and workers over the shared stores | no state of its own; `Calm` and `Fault` split the steps, `FairSpec` states the fairness; all properties |
| `AudioLibrary` | what a user is promised | abstract: phases of a file, ready tiers, what may be fetched |
| `Downloads` | `list_audio_for`, `download_audio`, `download_derivative`, `download_audio_for` | over the whole `AudioSystem`: `offer` is what a list or a found row has promised and nobody has fetched yet |
| `Transcoder` | `probe_duration`, `transcode`, `ProgressReporter`, the ffmpeg they start | the inside of `WorkerLoop`'s stage `transcode`: `at` is the await of `run_job`, `encoder` the child, `stdout`/`stderr` the pipes, `drain` the task on stderr, `key` the percentage in Redis |
| `Progress` | how the page learns how a transcode ended | the queue, reduced; `link`/`inbox` the `EventSource`; `overlay`, `listed`, `answer` the page |
| `Sessions` | `users`, `sessions`, the handlers over them, the cookie, `useSession`, the login form | `session[k]` is the user of token `k`; `cookie` the jar; `screen` is `session.ts`'s `Session`; `form` and `logouts[k]` the requests under way |
| `Page` | `SignedInApp`: `uploadAll`, the list and its refreshes, Delete, the playing track | `rows`, `listed`, `playing` are its `useState`s, thrown away with it; `send[f]` is where the pool has file `f`; `fetch` the lists on their way back, `deletes` the deletes done and not yet answered |
| `Speed` | `speed.ts` | the grid of speeds, and the way of one into a link and back |
| `SharedPage` | `SharedLibrary`, `Player`'s speed, `routes.ts` | `address` the address bar, `wanted`/`carried` what the page took from it, `player`, `notice` its `useState`s |
| `App` | `App.tsx`'s choice between the two pages | `route` is settled when the tab loads |
| `MCAudioSystem`, `MCDownloads`, `MCApp` | | the values of the constants; `BacklogSpec` starts with a file the sweep is stuck on |
| `AudioSystemProofs`, `LibraryProofs`, `DeletionProofs`, `TranscoderProofs`, `ProgressProofs`, `PageProofs`, `SharedPageProofs`, `AppProofs` | | theorems and proofs |

`AudioSystem` implements `AudioLibrary` under the mapping phase = status, ready =
flags, fetchable = the keys in the bucket that a live row gives access to. The
abstract actions say that nothing on offer disappears except by a withdrawal and
that no two live files are the same upload: a step of the detailed system that
removed an object of a live file would be a step the library does not have.

## 3 Modelling decisions

**Granularity.** An action runs from one await to the next: the response of a
request arrives, is looked at, and the next request is on its way. A SQL
statement, or a transaction, is atomic. A request may be sent and its handler
vanish (`Abandon`, `Crash`) at each await. The effect of a request takes place
in the action that ends it: a PUT whose response has not come yet has not
landed, so an object never appears after the request that wrote it was given
up. That is an assumption about Garage and the network.

**Errors** (`Faults`): `garage` — a PUT or DELETE errors, applied or not;
`postgres` — a statement or COMMIT errors, applied or not; `abandon` — an api
handler is dropped; `crash` — a worker dies (SIGTERM's drain, `Exit`, leaves at
the top of the loop and is no fault); `stall` — a lease lapses while its worker
is still at work. In `Progress`, `redis` — a publish or a subscription fails;
`drop` — the SSE connection breaks. In `Transcoder`, `kill` — the container goes;
`pipe` — reading stdout errors; `redis` — no connection, or an error on it. In
`Sessions` and `Page`, `loss` — a request or its answer never arrives; `expiry`;
`postgres`. `Refused` are the files whose objects Garage never agrees to
delete, in every step and not as a fault that ends. That ffmpeg or the scratch
disk fails is no fault but an outcome of every attempt (`RunFails`).

**Data.** `Content[f]` stands for user, name and hash of an upload: equal when
the UNIQUE index would call them equal. Keys are `<<file, tier>>`; the code makes
them from a random token, so they never meet. A lease is `held`, `lapsed`, or
`stranded` (older than `STRANDED_AFTER`); only its row's clock moves it.
Timestamps, errors' texts, durations and names are left out. A row never loses
its queue columns; `NoRow` is an absent row.

**Order left open.** `claim_job` orders by `created_at`; the model claims any
claimable row, as rows locked by another claim are skipped. `finalize` deletes
the source first, then the derivatives in any order. Sweeps fall due at any
time.

**Downloads.** One listener is enough, as none of its steps changes what another
sees. It is followed from what it was shown to what it gets: a list that offers
a tier, the row of the request (asked for again at every seek), the object. A
502 is Garage's error or a missing object, and `OfferHolds` says it is never the
second for a file that is live.

**ffmpeg** writes any lines and any pieces of stderr in any order, up to a bound,
and blocks when the pipe it writes to is full. A line is the time it tells, or
none (another key of the block, or `N/A`); of stderr only the amount counts, and
whether it is UTF-8: `read_to_string` keeps nothing of what is not, nor of a pipe
whose read errors, and the code drops that error (`main.rs:548`), so such a failure
quotes nothing (`EndOfErrors`, `DrainFails`). After an error the pipe is closed, and
what ffmpeg still writes to it goes nowhere. That a quote is trimmed, and cut to its
first 500 characters where it is stored (`record_failure`), is left out. `Wait` takes
an error of `child.wait()` to mean that there is no child left to wait for (ECHILD,
the one way `waitpid` on a child of one's own fails): an error over a live ffmpeg is
assumed away.
Percentages are computed as `report` does, clamped before the cast to `u8`.

**Speed** is exact: a rate is in ten-thousandths, in which every step is whole.
`speedStepFromRate` divides in binary floating point, which tips some exact
ties to the lower neighbour; `Rounded` allows either neighbour on a tie, and a
rate written by the page is never on one.

**The two pages** share no state of the script and a way from one to the other is
a load, so a tab is followed on one of them (`App`). A list that fails to arrive
leaves the public page as it is for good, which is the same as one still on its
way. Whether a visitor of the public page is signed in changes only a corner of
it, and is left out there.

**A reply of `delete_audio`** changes nothing but the row: its error is its
UPDATE applied or a stutter, both covered by the success action. To the page it does
matter: in `Page` a delete reaches the api at once and is answered later
(`DeleteAnswered`), or not at all (`LoseDelete`: the row gone, the track playing on),
perhaps to a page that is gone by then.

**Slips.** Definitions marked `Slip` are plausible bugs, one beside each
definition they vary. No specification uses them; each property is known to fail
when a slip takes the place of the definition it stands next to.

## 4 Runs

| run | properties | constants | shows |
|---|---|---|---|
| `servable` | `TypeOK` `LiveServable` `LiveQueueConsistent` `OfferHolds` `CreatedMeansPublished` `RunsNumbered` `StatusOnlyAdvances` `FreedStaysFree` | `MCDownloads`: 1 file, 1 tier, 3 workers, 3 attempts, a listener, every fault | what is offered can be served, whatever happens and however long ago it was offered; nobody runs an attempt twice |
| `barrier` | `BarrierHolds` `DeletedLeavesNoDerivative` `PendingIsClaimable` | 1 file, 2 tiers, 2 workers, 2 attempts, every fault but stalls | the `in_progress` barrier, and what rests on it |
| `duplicates` | `DuplicateLeavesNothing` `ImplementsLibrary` `DiscardKeepsACopy` | 2 files with the same content, 2 workers, sweeps of 2, abandoned requests and errors of Garage and Postgres | the 409 path, for whose sake an upload is discarded, and the refinement |
| `converge` | `DeleteConverges` `ClaimResolvesBelowCap` `LateDeleteLeavesNoSource` | `BacklogSpec`: 2 files, of which Garage refuses the first for good; sweeps of 2, 2 workers, 2 attempts, every fault until they end | the sweep ends every delete it can, past those it cannot, and ends none before its objects are gone |
| `transcode` | `TypeOK` `WholeStory` `NoStrayEncoder` `NobodyStuck` `TranscodeEnds` `LeftShrinks` | `Transcoder`: pipes that hold 1, 3 lines, 2 pieces of stderr, a source of length 2, every fault | the worker and its ffmpeg come to an end together |
| `never_falsely_ready` | `TypeOK` `ReadyIsTrue` | `Progress`, 2 workers, every fault | no tier is offered before it is there |
| `self_heals` | `FailedIsTrue` `SelfHeals` `EndIsFinal` | `Progress`, crashes, drops, Redis outages | a stream reopened shows how a tier ended, and goes on showing it |
| `browser` | `AppTypeOK` `ShownIsOwn` `ServedAsShown` `LinkKeepsItsWord` `SaysWhy` `PoolDrains` | `MCApp`: 2 accounts, 2 files, 1 slot, 2 sessions, 1 list answer on its way, losses; 2 tracks, speeds two steps either way | what a sign-out leaves behind does no harm to the next account's page, pools drain, and links keep their word |
| `early_delete` `unrecorded` `missed_ready` `stranded` | one each | the smallest instance that shows it | section 6 |

**Bounds.** One file is enough for everything but duplicates: nothing in the code
couples two files except the UNIQUE index and `BATCH`. `duplicates` has two
files of one content, the most a collision involves, and a batch of two, so a
sweep carries a stale selection from one file to the next. Two workers give a
stale owner and a new one; `servable` has three, so a row may be on its third
claim while both earlier owners are still alive. Two tiers (in `barrier`) let a
delete be blocked by one tier when the other has finished. Three attempts give
a first, a middle and a last one. `Backlog` bounds in `Progress` only how far
ticks may run ahead of the page. `SYMMETRY` over replicas is used in the runs
without liveness. `duplicates` leaves out crashes and stalls, which `servable` and
`barrier` have on the same workers: a discarded duplicate never has a queue row.
In `browser` two accounts and two sessions are one sign-in after another of
somebody else, two files on one slot are one behind the other, and there is one
tab. It has one list answer on its way, so answers there do not overtake each
other; `OwnShown` is proved for any number of them, and the run with two
(`Fetches = 2`, 1.9 million states, somewhat over five minutes) finds no error in any
property either. In `converge` the refused file has the lower id, so it heads every batch the
other is in; a batch holds one more than there are refused files, which is what
the property needs: as many refused files as `BATCH` (32) starve every other one
(`LIMIT 32 ORDER BY id`), and the model with `Batch = 1` says so. In `transcode`
each pipe holds less than is written to it, so either can be full while the
other end is busy elsewhere; a source of length 2 gives percentages at 0, 50 and
100, and times past a length of 1 that ffprobe made of it. The grid of `browser` is
two steps either way of 100%, so a stepper, and a link, both get past the ends;
the typed rates are zero, one exactly between two steps, one nearer to one of
them, and one past the end. What the grid's size could hide is proved for every
grid (section 5).

**Deadlock** is checked in every run: the loops always have a step.

**Fairness.** `FairSpec` assumes that faults end (`<>[][Calm]_vars`): while
Garage refuses every delete nothing can converge. After that, every worker keeps
going round (its loop has no exit but SIGTERM, and Kubernetes restarts the
replica); a sweep falls due infinitely often, which is strong fairness because a
worker is at the top of its loop only now and then (`SWEEP_EVERY` is measured by
a clock that does not stop); leases age; and an api handler that is still there
gets its answers. Users and ffmpeg's verdict are under no fairness: a transcode
may fail every time, a user may do nothing. A tick under a lease that is held changes nothing (`Worker(w)`
is one weakly fair action, and a stutter is no step of it), so an ffmpeg that ticks
for ever is not a behaviour of `converge`: the fairness takes every transcode to
its end, and that one does end is what `transcode` shows. In `Progress`,
nothing is assumed about connections dropping or lists being fetched again. In
`Page`, `FairSpec` asks only that *some* upload or list answer makes headway while
one can: an XHR ends in `onload` or `onerror`, and the browser runs the callbacks.
That is less than fairness to each file, and enough, since a file is sent once. Nothing is
asked of deletes: their answers may stay out for good.
The public page is under none. In `Transcoder` an ffmpeg that is not blocked gets
on and ends, as it has only so much to write; the runtime polls both tasks
(`RunJob`, `Drain`); and Redis answers or errors. `WF_vars(RunJob)` covers the whole
worker, so nothing is assumed of a worker that waits for a blocked ffmpeg: that it
need not is the property.

**Checked with some faults left out.** `BarrierHolds`, `PendingIsClaimable` and
`DeletedLeavesNoDerivative` fail once leases lapse under live workers: the UPDATEs
that end a job (`main.rs:276-284`, `327-331`) are not guarded on `worker_id`, so of
two workers on one row the first to finish lifts the barrier of the other, which
`docs/delete-lifecycle.md:89-91` rules out. It takes no hanging process: a lease of five
minutes is renewed when the download is over and off ffmpeg's progress pipe
(`main.rs:228`, `566-569`), so a download or an upload that takes longer than that is such
a stall, on a healthy worker. `TranscodeEnds` excepts a worker that
failed to read stdout (section 6). `FailedIsTrue`, `SelfHeals` and `EndIsFinal` fail with
Postgres errors or stalls: a stalled worker ticks on after another has ended the tier;
`FAILED` is announced although its UPDATE failed; and a row whose failure was
announced by a stale owner may be finished by the new one. `RunsNumbered`,
`LateDeleteLeavesNoSource` and `DiscardKeepsACopy` need no such condition: stalls
spoil who owns a row, not how its runs are counted nor whose source it is.

## 5 Proofs

For any finite or infinite set of files, tiers and workers, any cap and batch
size, and under every fault unless a condition is given (`AppTypeCorrect` and the two
batch theorems count, so there what is counted is finite):

| theorem | states |
|---|---|
| `AudioSystemProofs!TypeCorrect` | `Spec => []TypeOK`; no claim takes `attempts` past the cap |
| `AudioSystemProofs!Servable` | `Spec => []LiveServable` |
| `AudioSystemProofs!StatusAdvances` | `Spec => StatusOnlyAdvances` |
| `LibraryProofs!QueueConsistent`, `FreedForGood`, `CreatedKept` | `LiveQueueConsistent`, `FreedStaysFree`, `CreatedMeansPublished` |
| `LibraryProofs!OfferKept` | `DownloadSpec => []OfferHolds` |
| `LibraryProofs!Implements` | `Spec => ImplementsLibrary` |
| `DeletionProofs!BarrierKept`, `PendingClaimable`, `DeletedIsClean` | `BarrierHolds`, `PendingIsClaimable`, `DeletedLeavesNoDerivative`, if `"stall" \notin Faults` |
| `DeletionProofs!DuplicateIsClean`, `DiscardsKeepCopies` | `DuplicateLeavesNothing`, `DiscardKeepsACopy` |
| `DeletionProofs!LateDeletesAreClean` | `LateDeleteLeavesNoSource` |
| `DeletionProofs!RunsAreNumbered` | `RunsNumbered`, stalls included |
| `DeletionProofs!LowestBatch`, `BacklogIsPassed` | a sweep's batch is the `Batch` lowest of what is free, exactly `Batch` of them unless that is all; fewer refused files than `Batch` do not keep the first other one out of it |
| `TranscoderProofs!TypeCorrect` | `TypeOK`: no pipe above its capacity, no percentage above 100 |
| `TranscoderProofs!WholeStoryTold`, `NoneStray` | `WholeStory`, `NoStrayEncoder`, for any capacities and amounts |
| `TranscoderProofs!NobodyIsStuck`, `LeftOnlyShrinks`, `LeftIsNatural` | `NobodyStuck`, `LeftShrinks`, and that the measure stays in `Nat` |
| `ProgressProofs!NeverFalselyReady`, `ProgressTyped` | `ReadyIsTrue`, `TypeOK` |
| `ProgressProofs!FailedForGood`, `EndsAreFinal` | `FailedIsTrue`, `EndIsFinal`, if neither stalls nor Postgres errors |
| `PageProofs!ServedRight`, `OwnShown` | `ServedAsShown`, `ShownIsOwn` |
| `SharedPageProofs!LinkRoundTrip` | a speed written into a link is the one read from it, on every grid |
| `SharedPageProofs!LinkKept`, `WhySaid` | `LinkKeepsItsWord`, `SaysWhy` |
| `AppProofs!AppShowsOwn`, `AppKeepsLinks`, `AppTypeCorrect` | the composed app has the properties of both pages, and `AppTypeOK` |

**What is served** (`AudioSystemProofs`, `LibraryProofs`).

`LiveServable` is not inductive: a flip makes a row live on the strength of a
PUT that ended earlier, a commit sets a flag on the strength of a PUT that ended
earlier, and a sweep deletes objects on the strength of a status it read
earlier. `ServableInv` says what each of those memories is worth:

- a request that is about to flip a row still at `uploading` has its source in
  the bucket, and one that is discarding a source has a row that is no longer,
  or not yet, live;
- a worker about to commit has its derivative in the bucket *if the file is
  live*;
- a worker about to delete an orphan holds a file that is dead;
- every file in a sweep's batch is dead, and the keys it has left to delete are
  those of such a file.

The last two stay true because a dead file never comes back (`StatusAdvances`
in one step), and they are what keeps one worker's deletes away from another's
work: no deletion ever touches a live file's keys, so no number of stale sweeps
or duplicate workers can. That is also why the theorem survives stalls, when the
barrier does not. The proof goes by the disjuncts of `Next` (`NextCases`); keys of
different files are different (`DistinctKeys`), which is where the random tokens
enter.

`QueueInv` adds to it that a file has queue rows only from its flip on;
`ToldInv`, that a request that is or was under way has inserted its row. `OfferHolds` is inductive on top of `ServableInv`:
flags only grow while a file is live, and no step takes an object of a live file
away. The refinement goes by the *shape* of a step. `FetchableByRows` turns what is
fetchable into something the rows alone say (under `ServableInv` the bucket has
it), after which every step either leaves every row as it is, moves one status
forward, or sets one flag, and each shape is one step of `AudioLibrary` or a stutter.

**What is left behind** (`DeletionProofs`). `BarrierInv` says who owns a row: a worker
from its claim to its last transaction has its row at `in_progress`, in its own
name, its lease held, at the attempt its claim returned, and no two workers have
the same row. The lease is what a stall breaks, and the rest with it.
`CleanInv` rests `DeletedLeavesNoDerivative` on it: of a deleted file, and of the
first file of a sweep's batch for the keys the sweep has done with, the derivative is
not in the bucket, and nobody is in a position to PUT it, as that takes a row
and the file has none (`FreedStaysFree`). A source has one writer, its own request,
so `DiscardInv` needs no barrier and no condition on faults.

`LateDeleteLeavesNoSource` speaks of a moment and of everything after it: if the PUT
is over while the row is not yet dead, then from there on a `deleted` row has no
source. `SourceSettled` is what such a moment establishes and every step keeps: the
PUT stays over (`EndedForGood`), and when the row is `deleted`, or first in a sweep
that has done with the key, the source is gone, with nobody left to write it. The
theorem says that the race of section 6 is the only way to leak a source.

`DiscardKeepsACopy` is about the two ends of a collision. The step that sends a request
on to discard is the flip's (`DiscardStarts`), and the index it collided with holds
live rows only, so the copy is live in that very state; that it can be fetched is
`LiveServable` of the other row. From then on every step keeps such a copy, or
deletes one (`CopiesKept`): a live row has one successor, and `ServableInv` keeps its
object. An index that counted tombstones would refute it, and so would two uploads
discarded for the sake of each other. It does not say that the copy is still live
when the loser is answered 409; it may not be.

**How often a job is run** (`DeletionProofs`). `RunInv` adds to `RunsNumbered` that the
file of a job is past its upload (`Counted`). A row only counts up while it is there
(`RowCounts`), and one that a sweep has cleared is never inserted again, as only a
flip inserts rows and the flip is over; so a claim gives a number beyond every
number held, whoever still holds one (`ClaimCounts`). Only `claim_job` writes
`attempts`: `record_failure` sets a status and leaves the count, which is what keeps
a stale owner and a new one apart.

**Which files a sweep takes** (`DeletionProofs`). `FirstBatch` is defined by counting
the ids ahead; `LowestBatch` turns it into what `ORDER BY id LIMIT 32` promises: at
most `Batch` by an injection of the batch into `0..Batch-1`, and no fewer unless it is
all, as the lowest file left out (`HasLowest`) has only the batch ahead of it. `BacklogIsPassed` is the size argument
behind `DeleteConverges`.

**A transcode** (`TranscoderProofs`). `PipeInv` accounts for stderr: until the pipe
breaks, what has been heard and what is in the pipe is what was written. The task's
end was an error, or a read of an empty pipe of a dead ffmpeg, so nothing was left; and a verdict other than a
failure to start comes after the wait. `TypeInv` adds to `PipeInv` that ffmpeg
starts to say only what it has left to say. For termination the proofs go as far
as they can without fairness: at every moment of a transcode one of ffmpeg, the task on stderr and the worker can
move (`NobodyIsStuck`: the worker's wait for an ffmpeg that is gone is the
invariant `WaitsForTheDead`), each of their moves lowers `Left`, and `Left` is a
natural number. `TranscodeEnds` is these three and the fairness of each.

**What the page is told** (`ProgressProofs`). "Ready" is said only of a tier in
`flags`, which only grows; `SaidTruly` follows it through the worker about to
announce it, the snapshot read, the stream, the overlay and both lists. "Failed"
is said of a tier given up, and that a tier stays given up needs `OneWorker`: a row
has one worker, and only that worker moves it on.
`EndIsFinal` is about order, and what is needed besides is `OrderKept`: after an event
that says how a tier ended, or once the overlay says so, every event still in the
stream that speaks of the tier says an end too, and so does a row read for a
stream that is about to be opened. Ends agree because both are what Postgres
says (`EndsAgree`). A tick is no exception since a worker at work has a row that
has not ended (`WorkIsNews`); the snapshot is none since a stream that is not open
has nothing in it (`OnlyAStream`).

**Whose page it is** (`PageProofs`). `TokensApart`: no token is handed out twice, and
the one an answer is about to bring belongs to whom the form says. `OwnInv` adds
that everything a mounted page holds or is about to be told is owned by the
account on its screen, that an unmounted one holds nothing, and that a file not
sent yet belongs to nobody.

**A link** (`SharedPageProofs`). `LinkInv` ties the address to what plays, the copied
link to what played when it was copied, and what the page took from its address
to that link. The round trip through `Rounded` is arithmetic.

**The app** (`AppProofs`). A step of the tab is a step of one page and a stutter of the
other, so `AppSpec` implements both specifications, and their theorems hold of it.
`AppTypeCorrect` adds `SessionTypes` and `PageTypes` to `OwnInv`; that calls of
`uploadAll` are numbered within the files needs a finite set of files
(`FilesAssumption`).

Assumed: the ASSUMEs of the modules, all of them evaluated by TLC in the runs.

Only model-checked: everything under fairness (`DeleteConverges`,
`ClaimResolvesBelowCap`, `TranscodeEnds`, `SelfHeals`, `PoolDrains`), which is out
of the prover's reach. Of `TranscodeEnds`, `DeleteConverges` and `SelfHeals` the part
that is no matter of fairness is proved: `NobodyStuck` with `LeftShrinks`;
`LowestBatch` with `BacklogIsPassed`; `EndIsFinal`. That `FfmpegCanMove` and its two
neighbours say when their actions are enabled is read off the guards: ENABLED is
out of the prover's reach too.

## 6 What the models found

Each is a run of its own, whose trace is the explanation; the details, with the
lines that disagree, are in `PROJECT.json`.

- `early_delete`: a delete that arrives during the upload may be swept and
  finished before the PUT lands; the object then stays in the bucket under a
  `deleted` row nobody visits again. The upload answers 201, which
  `uploadAudio.ts:32-33` takes for an uploaded file. `LateDeletesAreClean` is the
  other side of it: there is no second way to leave a source behind.
- `unrecorded`: a failure at the last attempt that cannot be recorded leaves a row
  that nothing re-claims, against the comment in `record_failure`.
- `missed_ready`: READY published between the snapshot's read and the
  subscription is lost, and the overlay then hides what later lists say.
- `stranded`: the page believes it clears the cookie itself. A reload while the
  logout is under way signs the page in again on a session about to go, and a
  logout answered after the next sign-in takes the new cookie with it.

Met while modelling, with no run of their own:

- The UPDATEs that end a job are not guarded on `worker_id`: see *Checked with some
  faults left out*.
- After an error on ffmpeg's stdout the worker stops reading, keeps the pipe
  open and waits (`main.rs:582-588`). An ffmpeg with more to say than the pipe holds
  blocks for good, the lease lapses, another worker takes the row, and this one
  never comes back: `worker.yaml:86-87` has no probe to notice. `LosePipe` has it;
  the comment in the code is right about an ffmpeg that is about to finish.
- SIGTERM is looked at between turns, so one that comes during a sweep lets the
  worker claim one more job, and start on it, before it leaves (`Exit` is at the
  top of the loop only).
- The percentage key outlives an attempt by up to `PROGRESS_TTL_SECS` (120 s), so a
  retry claimed at once shows how far the last attempt got until its own first
  report (`NextAttempt` leaves `key`).
- A rate exactly between two steps of the grid reads as the upper or the lower
  one, as binary division tips it (1.0875 and 1.2125 fall down, other ties go
  up). Only a typed link can carry one.
- As many files as `BATCH` that Garage refuses for good hold up every delete behind
  them.

- No code reaps a stale `uploading` row, which `0004_audio_files.sql:16` says is
  done: `Abandon` leaves one that only its owner's delete moves on.
- The pool of a selection goes on after a sign-out (`uploadAudio.ts:69`), so the
  rest of it is refused, or lands in the library of whoever signs in next (`Send`
  takes the owner from the cookie of the moment).
- `MAX_CONCURRENT_UPLOADS` bounds one call of `uploadAll`, so two selections have
  twice as many uploads in flight as the comment at `uploadAudio.ts:47` says.
- List answers may arrive out of order (`ShowList` takes any), so a deleted file
  can reappear until the next refresh; and a refresh asked for by one upload lists
  the row of another still `uploading`, which is then on the page twice.
- `ShownIsOwn` is a property of one tab: two tabs share the cookie, and each shows
  whoever signed in there.

## 7 Not modelled

The way of a percentage through the api to the bar (`Transcoder` ends at the Redis
key, `Progress` carries only states); `record_duration`, which writes a column no
other step reads; range proxying, content types and headers of downloads; username
resolution; toasts, upload percentages, and the media element: pause, volume,
seeking, the media session; titles and formatting; passwords and their hashes
(right or wrong is a choice); session tokens as strings (numbered in the order
they are drawn); two tabs of one browser; configuration read at start-up (`pg.rs`,
`cache.rs`), where a missing variable ends the process before it has any state;
deployment manifests and CI, whose consequences (restarts, replicas, grace period)
are the models' `Crash`, `Exit`, `Restart` and `Abandon`. Objects Garage refuses to
delete are whole files; one of several keys of a file refused is the same to the
sweep, which gives the file up at the first.

## 8 Plan

1. *(done)* `AudioStore`, `Uploads`, `WorkerLoop`, `AudioSystem`, `AudioLibrary` and
   their runs.
2. *(done)* `Progress` and its runs; `Sessions` and `Page`.
3. *(done)* `Downloads` over the whole system; permanent refusals in the sweep;
   `Transcoder`; `Speed`, `SharedPage` and `App`.
4. *(done)* Proofs of every safety property the passing runs check, type invariants
   included, with the refinement.
5. *(done)* The safety halves of the liveness properties: `TranscodeEnds`, the batch
   behind `DeleteConverges`, `EndIsFinal`.
6. Percentages from the key through the stream and the list to the bar, as a part
   of `Progress`.
7. What a pool sends and settles, file by file, as the safety half of `PoolDrains`;
   what a sweep's pass leaves for the next, as more of `DeleteConverges`.
8. `Progress` reduces the queue of `WorkerLoop` to what its messages are about; that
   the worker's steps in `AudioSystem`, seen file by file, are steps of that reduced
   queue is a refinement still to be stated.
