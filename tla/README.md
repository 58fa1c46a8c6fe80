# A TLA+ development of the printer emulator

The repository emulates an IPP / AirPrint printer in TypeScript (`src/src`): an
HTTP server takes IPP requests, a dispatcher hands each to one of some thirty
operation handlers, and the handlers act on a job queue, on administrative flags
of the printer and on event subscriptions.  Node runs one callback at a time, so
what is hard here is not threads but what happens *between* callbacks: handlers
that await, states that outlive a purge, flags every job-running path has to ask
for itself, leases that end while nobody looks, and long sequences of legal calls.

The development has state machines for everything that keeps state, reference
checks for the algorithms, three abstract specifications with the refinements that
show the detailed modules implement them, and proofs of the safety of jobs,
printer, answers, events, subscriptions, push deliveries, fetch, server, codec,
raster walkers and rendering for every size of instance.
`PROJECT.json` maps every definition to the lines it translates.

## 1. Inventory

Paths are relative to `src/src`.

| Component | Source | State | Operations | Hard behaviour |
|---|---|---|---|---|
| Job | `printer/job.ts`, `states.ts`, `state-machine.ts`, `ipp/hold-until.ts` | job-state, open for documents, job-hold-until, documents | addDocument, process, close, hold, holdWith, release, restart, cancel | protocol sequences: holds on open jobs, restarts of jobs that ended open or empty |
| Queue, flags, operations | `printer/job-queue.ts`, `ipp-printer.ts`, `ipp/dispatcher.ts`, `ipp/operations/*` | the queue, the next job-id, paused, accepting, holding new jobs | the job and printer operations | Print-URI and Send-URI await a fetch; every path that runs a job must ask for the pause and write the pages itself |
| Event source | `ipp-printer.ts` (handleRequest, handleRequestAsync, recordLifecycleEvents) | a snapshot per request | snapshot, compare, record | the snapshot of a slow request is outdated when it is compared |
| Subscriptions | `printer/subscription-manager.ts`, the subscription operations | subscriptions with their leases, sequence numbers and bounded queues | Create-*-Subscriptions, Renew, Cancel, Get-*, Get-Notifications, recordEvent | leases without timers, queue overflow, per-job scope |
| Job attributes | `ipp/job-template.ts`, the setters of `job.ts`, `ipp/operations/set-job-attributes.ts` | the template attributes of each job | submission, Set-Job-Attributes | the attributes of one request are applied one by one, and one of them may run the job |
| Push delivery | `printer/push-notifier.ts` | POSTs under way | deliverPush | POSTs nobody awaits or repeats: lost, late and reordered ones |
| Document fetch | `documents/uri-fetch.ts`, `transport/local-only.ts` | one fetch: its response, its bytes so far, settled or not | response, data, end, error, timeout | late socket events, the size cap, an idle timeout |
| Server lifecycle | `index.ts`, `ipp-printer.ts` (start, startTls, stop), `transport/*` | the listening servers, the advertised services, the certificate on disk, the connections | start, stop, SIGINT, crash | partial start, stop with requests in flight, two stops at once |
| IPP codec | `ipp/decoder.ts`, `encoder.ts`, `attribute.ts`, `message.ts`, `utils/buffer-*.ts` | none (functions) | decode, encode | groups, sets of values, truncated input, lengths at their limit |
| Raster walkers | `documents/raster-info.ts`, `raster-decode.ts` | none (functions) | parseRasterInfo, decodeRasterPages | two walks of one format that must agree; truncation |
| Page selection and rendering | `documents/raster-render.ts`, `gs-raster.ts`, `ipp/job-template.ts`, `ipp-printer.ts` (renderRaster) | the files under the output prefix, job-impressions | renderRaster | page-ranges, number-up and tumble over one page sequence; file names shared by documents, jobs and processes |
| Pixel work | `documents/icc*.ts`, `utils/png.ts` | none | color conversion, PNG | none a model checker reaches |
| Queries | `get-jobs.ts`, `get-job-attributes.ts`, `get-printer-attributes.ts`, `validate-job.ts`, `printer-attributes.ts`, ... | none of their own | reads | answers that must agree with one another: listings and limits, hold reasons, state and state reasons |
| Client | `host/*`, `transport/http-client.ts` | none | a test client | none |

**How they interact.** The HTTP servers pass a request body to
`IppPrinter.handleRequest`, or to `handleRequestAsync` for Print-URI and
Send-URI, which await the document fetch.  Both take a *snapshot* of all job
states and of the pause, dispatch to the handler, compare the states afterwards
and record the differences with the subscription manager; this hands events for
push recipients to the push notifier, which does not wait.  Handlers change jobs
through the methods of `Job`, ask `isPaused` themselves, and call back
`renderRaster` themselves once a job has run.  The raster modules are called
synchronously by the handlers (page count) and by `renderRaster` (pages).  Node
runs to completion between awaits, so there is no data race; what is shared
between callbacks is the queue, the `Job` objects a handler keeps across an
await, and the disk, which outlives the process.

**What makes each correct.** Job: an open job is held and never ran; completed,
aborted and canceled mean what they say; a hold survives everything but an
operation that ends it.  Printer: nothing prints while paused and nothing stays
deferred after; every run is printed; nothing is attached to a job that has
finished.  Events: after every operation subscribers know the present state.
Attributes: the pages show what is reported.  Queries: no job is hidden, and what
is reported as held can be released.  Subscriptions: a lease is over at its end, for
good; only an overflow loses events, and visibly.  Push: what a recipient is told
under a number is what a poll would have returned under it, and nothing after the
subscription has ended.  Fetch: the whole document or none, exactly one outcome,
always an outcome.  Server: what is advertised is served; a stop waits for
requests, and ends.  Codec: refuse what is malformed, mean what was sent, restore
what was read.  Raster: count and print the same pages; damage stays local.
Rendering: every selected page once, in order, under its own name.

## 2. Modules and how they correspond to the code

| Module | Models | State and actions |
|---|---|---|
| `Job` | `job.ts` and the state machine | No state: a method is an operator from a job object to the object it leaves; `XOk` is what it returns. History `runs` and `printed` count completions and renderings. |
| `Printer` (EXTENDS `Job`) | queue, flags, all operations that change them | One action per operation. Print-URI and Send-URI are `Begin...` up to the await and `Finish.../Refuse...` after it, in a slot. A `Job` object outlives a purge, as the reference a handler holds does. |
| `Spool` | *abstract*: what a client that watches job states is promised | `ImplementsSpool` in `Printer` is the refinement mapping. |
| `Attributes` (EXTENDS `Printer`) | the attributes beside job-hold-until, Set-Job-Attributes as its loop | Every step of `Printer` taken with what it does to the attributes; `prints` records what the pages on disk were made with. A request is the attributes before its job-hold-until, that, and those after it. |
| `Queries` (EXTENDS `Printer`) | Get-Jobs, Get-Job-Attributes, printer-state and its reasons | Operators on the state; they change nothing. |
| `Notifications` (EXTENDS `Printer`) | snapshot, compare, record around every operation | Composes the event source with `Printer`: a step of `Printer` is wrapped in the snapshot of the same request. |
| `Subscriptions` | `subscription-manager.ts` and the subscription operations | One action per operation, each with the pruning it does; `Tick` is the clock. |
| `Leases` | *abstract*: leases with timers | `ImplementsLeases` shows that pruning on access cannot be told from timers. |
| `Push` (EXTENDS `Subscriptions`) | `push-notifier.ts` with the operations that cause deliveries | Every operation of `Subscriptions` with the POSTs it makes; `Arrive` and `Lose` are the network, in any order. |
| `Feed` | *abstract*: what recipients are promised | A log per subscription whose entries are delivered at most once each, in any order; `ImplementsFeed` in `Push`. |
| `Fetch` | `fetchLocalDocument` | One action per socket event; events still come after the promise has settled. |
| `Server` (EXTENDS `Fetch`) | `start`, `stop`, connections, certificate, SIGINT, crash | A step is what runs between two awaits; connections that await a fetch are composed with the fetch itself. A connection is `fresh` until its first request, and `idle` only after an answer: Node tells the two apart. |
| `Codec` | `decode`, `encode` | A request grows token by token (`Group`, `Value`, `Cut` ...) with what it was meant to say beside it; the operators are checked against that. |
| `Framing` (EXTENDS `Codec`) | `BufferWriter`, `BufferReader`, the layout of a message in octets | `Spell` writes the tokens of `Codec` as octets, `Unspell` reads octets back as tokens or as a cut. |
| `Raster` | both walkers | A document grows by a header, by one run of pixels, or by what repeats a line; beside it stand the pages it encodes and the line under way (`line`).  A walker is three nested loops (pages, lines, runs), each the iteration of one step over a record of its variables.  A page is a buffer of its full height, as in the code; rows of zeros are `Blank`. |
| `Render` | `renderRaster`, both renderers | `AddDocument`, `RenderRaster` (all of the synchronous call; which writes fail, whether Ghostscript starts and how many pages it leaves are chosen), `Restart` of the process over the same disk. |
| `Lists` | the loops of `Queries`, `Render` and the walkers | `Ascending`: a set of numbers as a list.  `Iterate`: a step taken a number of times. |
| `PrinterProofs`, `AnswersProofs`, `SubscriptionsProofs`, `ServerProofs`, `CodecProofs`, `RasterProofs`, `RenderProofs`, `ListsProofs` | proofs | section 5; the last holds the lemmas about lists, sets of numbers, loops and induction that the others share |
| `MC*` | instances for TLC | |

**Composition.** `Printer` is `Job` with actions; `Notifications` is `Printer`
observed; `Attributes` is `Printer` with data; `Push` is `Subscriptions` with a network;
`Server` is `Fetch` with connections; `Framing` is the octets under `Codec`.  A step of
a composition conjoins the step of the module it extends, so that the smaller
module's theorems hold in the larger one; this is proved for all three that observe or
refine it (`WatchedIsPrinter`, `PushKeepsSubscriptions`, `AttributesIsPrinter`).  `Printer` sees a fetch only as
success or refusal, which is what `Fetch` shows it to be (`WholeDocumentOrNone`,
`FetchSettles`).  `Render` refines the single bit "pages were written" of `Job`.

**Abstractions.** Only what a property tells apart is kept: job-hold-until has
three values (absent, `no-hold`, any other), documents of a job are counted,
a template attribute is the number of its keyword, a document in `Fetch` is a
number of units, a POST is the record it carries, an attribute value in `Codec` is its
tag and a short word, an octet of a length in `Framing` has two values instead of 256, a pixel in `Render` is the place it came from.  A request
that is rejected before it changes anything is a stuttering step.

**Faults.** An operator named `FaultyX`, placed before `X` and marked "Fault:",
is `X` with a plausible bug.  No specification uses one; each stands for a
mutation that makes a property of the runs fail, so that the property is known
to depend on that definition.

## 3. Runs

All runs finish within minutes with two workers.

| Run | Bounds | Why they are enough |
|---|---|---|
| `printer_jobs` (six properties) | 2 jobs, 1 document, 1 run, 1 slot | Jobs interact through the pause, purge, cancel-all, the listings and the id counter only: two show every pair; the fetch of one is enough to be overtaken by operations on both. |
| `printer_races` (six properties) | 1 job, 2 documents, 2 runs, 2 slots; the attribute `sides` with one keyword and one value that is none, at most one item on either side of a job-hold-until | Races are about one job: two fetches in flight for it, a restart between, a document before and after. Attributes do not interact with one another, so one shows what becomes of each; one item on either side is enough to be applied before or after the run. |
| `notifications` (`AnnouncedIsCurrent`) | 1 job id, 2 slow requests | Two outdated snapshots and any number of fast operations between. |
| `subscriptions` (seven properties) | 2 subscriptions, 2 jobs, queues of 1, leases of 1 and never, time to 1, 2 events, 2 POSTs | Overflow by one; leases that end, at the instant they are looked at and unnoticed, beside ones that live on, and renewals between the two; two POSTs of one subscription overtake one another, of two do not mix. All seven properties are also proved, for any bounds. |
| `server` (seven properties) | 2 connections, 1 of them fetching, 2 SIGINTs, documents up to one unit over the cap of 2 | Two calls of `stop` interleave at every await; below, at and above the cap. |
| `codec` (five properties) | 5 tokens, 7 values; octet by octet up to 3 tokens, with lengths below 4 | Two groups with a set of two values and a further attribute, or a defect anywhere in them. Three tokens are every kind of token between two others, cut off after every octet; a text of two octets grows to four, the first length that does not fit. All five properties are also proved, for any bounds and any samples (the meanings from those of single values, section 5). |
| `raster` (three properties) | 2 pages of 3 kinds (8-bit, packed 1-bit, 16-bit), runs and repeats of 1 and 2 | A page after every kind of page: a walker that lost the boundary is found out at the second header. All three properties are also proved, for any bounds. |
| `render` (five properties) | 3 documents of 3 kinds, one a PDF of 2 pages; 7 templates; 2 renderings; at most 1 failure in each; process restarts | Ranges across documents and pages of unlike sizes; a full and a partial sheet; a third PDF whose offset depends on two before; a file that cannot be written among others that can; files of an earlier process. All five properties are also proved, for any bounds. |
| `set_hold`, `send_uri`, `created_twice`, `raster_agree` | as small as the counterexample | They show disagreements: section 6. |

`CHECK_DEADLOCK FALSE` stands where a behaviour ends when its bound is used up
(`Codec`, `Raster`, `Render`): these machines build an input or fill a disk and stop.  The
others never deadlock.

**Fairness.** `Printer` and the modules over it, `Subscriptions`, `Push`, `Codec`, `Raster` and `Render`
assume none: every action answers a client, and no client has to ask; and nothing
promises that a POST arrives.  `Server` assumes
weak fairness of what Node itself runs: the callbacks of `start` and `stop` that
are due, the idle timeout of a connection after an answer (`keepAliveTimeout`, on by default),
the resumption of a handler whose fetch has settled, and the armed timeout of a
running fetch (`req.setTimeout` in `uri-fetch.ts`).  Nothing is assumed of
clients, of the document server, of openssl or of the user.  `StopEnds` therefore
is conditional: a `stop` ends provided that clients finish the request they have begun, or the
first one on a new connection, or leave.  One that stalls in the middle of a body, or
connects and never sends anything (`fresh`), holds it up: `keepAliveTimeout` is armed only after an
answer, `close()` drops the connections idle after an answer only, and it ends Node's checks
for late headers and requests (section 6).

## 4. What is only model-checked

* Liveness (`FetchSettles`, `StopEnds`): the prover has no rules for fairness here.
* That `MCCodec`'s samples mean what they should: see *Codec* below.

Every other property of the passing runs, all thirty invariants among them, is also a
theorem, for every value of the constants.

## 5. What is proved

Assumptions: `BoundsAssumption` in `Printer` (the bounds are natural numbers, documents
and runs positive), and what `Attributes`, `Subscriptions`, `Push`, `Fetch`, `Server`,
`Codec`, `Framing`, `Raster` and `Render` assume of their constants in the same way (`None` is no job and no
recipient; a cap is a number; documents and templates have their types; an
attribute has a name; names and raw values are octets; no group begins with the tag that ends
them all; a header is that of a page with pixels, in a format both walkers
know, whose lines take the bytes the header says).  The bounds may be any numbers, so what is proved holds however
many jobs, slots, subscriptions, POSTs, clients, overlapping stops, tokens of a
request, octets of an integer, documents, pages and failing writes there are, and however
few values an octet of a length has.  TLC evaluates these assumptions in the runs.

The library's induction theorems are out of the prover's reach, because they take an
operator as a parameter.  Induction here is over *sets*: `SetInduction` in `ListsProofs`
says that a set which has 0, and n + 1 with every n, has every natural number, and follows
from the least element of what it lacks (`WFMin`).  That a recursive function exists
(`f` such that `f = [n \in 0..m |-> ... f[n - 1] ...]`) is shown by the same induction for
each of the loops below before anything is said about its values.

**Printer.** `IInv` (in `PrinterProofs`) is `TypeOK`, the conjunction `JobInv` of what
makes one job object sound, and `NoStrandedJob`.  None is inductive alone: that a
released job is not left PENDING needs that an open job is PENDING_HELD and that no
job is PROCESSING between operations, for otherwise `release` and `process` would
return without effect; that every run is printed needs the link between `runs`,
`printed` and the end state.  The argument has two layers.  The first shows for each
method of `Job` that it takes a sound object to a sound one and where it leaves
the state, without any printer.  The second shows how the queue may
change (`StepKeepsIInv`, `EnqueueKeepsIInv`, `ReplaceKeepsIInv`) and then has one
step per operation, which cites one of the three and one lemma about the job.
Theorems: `TypeCorrect`, `NothingStranded`, `RunsArePrinted`, `SoundJobs`.

**The refinement of `Spool`.** `PrinterImplementsSpool` (also in `PrinterProofs`) has two layers
again.  First, for each method of `Job`, which steps the *state* of one job can take,
the pages written afterwards included (`SpoolStep`): this is where "run at once
unless paused" of ten handlers becomes the one `Ready` of `Spool`.  Second, what a
change of one job (`OneJob`), a new job (`NewlySubmitted`), several (`SeveralCanceled`), or all
(`AllPurged`, `AllPendingRun`) is in `Spool`.  A late Send-URI to a purged job is a
stuttering step.  The invariant needed is `SInv`: `IInv`, and that `heldNewJobIds`
is empty.  The second conjunct is a fact about the code (no operation enters a
job there); without it, Release-Held-New-Jobs could release several jobs in one
step, which `Spool` does not allow.

**Races.** The action properties of `Printer` are proved from `SInv`:
`DocumentsAreFinal`, `HeldRunsNot`, `PauseHolds` and `LateFetchIsHarmless`.  One
relation between a job and what a step makes of it (`Kept`: closed jobs keep their
documents, and what was held runs only when its hold ends; `Still`: nothing is run or
written) is shown of each method and lifted to each operation (`StepKept`); its part `Counted`, how a
method may move the counts of runs, documents and pages, is shown with it.  That a
late fetch revives nothing needs more than `Kept`, because the end of a fetch runs
jobs; it is shown of the finishing halves of Print-URI and Send-URI.

**Answers.** `AnswersProofs` is about what clients are told.  `NoJobIsHidden` proves
`ListingsPartTheQueue` from the types: a listing is the queue filtered by
`Ascending`, and two lists of the same numbers in their order are equal
(`ListsUnique`).  `ReportsCanBeActedOn` proves `ReportsAreTrue` from `IInv`; that an idle printer has
left nothing undone is `NoStrandedJob` seen from outside.  `AttributesIsPrinter` shows that
every step of `Attributes` is one of `Printer`.  `PagesTellTheTruth` proves
`PagesShowTheAttributes` from `AInv`: `SInv`, types, and that pages exist only for runs that were
made (`PrintedInTime`), so that the pages of a new run are new ones, made with the
attributes of that moment.  The loop over one request is a fold, taken apart
by induction on its length.

**Events.** `NobodyIsLeftBehind` (in `AnswersProofs`) proves `AnnouncedIsCurrent`.  A
request compares with its snapshot, and announces too little only if it moved a
job *back* to the state the snapshot has of it.  The invariant that rules this
out is `Snapshots`: a Send-URI under way took its snapshot while its job was
PENDING_HELD, and a Send-URI moves no job into that state.  With it, whatever
differs from what subscribers were told differs from the snapshot too.

**Server and fetch.** `ServerProofs` proves the five safety properties of the run, and the types, from one
inductive invariant `LInv`: types; of each fetch, that until it settles it has read no
more than the cap and its promise is open (`Sensible`); of the servers, that what is
listening, advertised and reported agree in every phase of a start (`Served`),
that only a stop takes something away (`Intact`), how far each stop has come
(`Teardown`), and that a stop which waits alone has the connections as the only thing
left to wait for (`Drained`).

**Subscriptions.** The inductive invariant `IInv` (in `SubscriptionsProofs`) is `TypeOK` and
`NoSilentLoss`: a queue is the unbroken run of the most recent events.
`NothingLostSilently` follows: what is missing between the last event read and
the first one queued is visible in the sequence numbers, and only an
overflow makes it.  `PruningImplementsLeases` proves the refinement `ImplementsLeases`:
the mapping keeps the subscriptions that have not expired *now*, so that `Tick` takes
them at their end and a later pruning is a stuttering step.  `NoLeaseOutlivesItsGrant`
proves `LeasesEndInTime` with the invariant `LeaseInv` (`IInv` and the property): a step
keeps the lease of a subscription or grants it anew by `clampLease`.
`ExpiredForGood` proves the action property `ExpiryIsFinal`: ids are handed out once, and a
renewal prunes before it looks, so no step brings back what was canceled or is over.
`OnlyWhatWasAskedFor` proves `OnlySubscribedEvents`: whatever a step appends to a queue
is an event asked for, and for a per-job subscription one of its job.

**Push.** `PushInv` (in `SubscriptionsProofs`) adds to `IInv` the types, `PushIdentifiesEvents`,
`PushedAndPulledAgree`, and that ids not yet handed out have an empty log (`Unused`);
the last is needed because a new id must not inherit a log.  Every POST carries the
event its log has at the place its sequence number names, which gives
`PostsIdentified`, `PushAgreesWithPull` and the refinement `PushImplementsFeed`.
`EndedForRecipients` is about one step: a recording prunes before it looks who is subscribed.

**Codec.** `CodecProofs` shows that `decode` of a request followed by one more token is one
step further (`DecodeStep` of the fold), and then that an invariant `CInv` of the request
so far holds however long it gets: what is wrong with it, where the reader stands, and
that the groups read are the groups sent.  Theorems: `MalformedAreRefused`,
`RequestsAreRestored`, `ValuesArrive`.  The last has a hypothesis, `SamplesMean`: each value
by itself is decoded to its meaning.  That is a fact about the samples of an instance,
which `ReadsWhatWasMeant` checks with TLC (a request of one value); the theorem adds that
no value's meaning depends on what stands around it in a request of any length.

**Framing.** The second half of `CodecProofs` proves the two properties of `Framing`.
The writer lays a message out token by token, so each has its place (`Place`); the reader is told by the
place it has come to (`ReadingAt`).  `TokenRead` is about one round of the
loop at the place of a token whose octets stand there as far as they have arrived
(`Agrees`): if all of them have and the fields fit their lengths, the token is read and the
reader is at the next place; if some are missing, it breaks off; if a field does not fit, what
is read is another token, because a length is shown modulo its range (`Shown`).

* By induction over the tokens the reader comes from place to place up to the end of the attributes
  (`ReadBeforeEnd`), behind which every octet is a token (`CutAfterEnd`).  `CutBody` puts
  together what is read of a message cut off anywhere, and `BreaksAreNoticed` follows from what the client sends:
  data after the end of the attributes, and nothing else there (`DataSentLast`).
* The first token that does not fit is read wrongly, and the loop takes nothing back
  (`LoopKeeps`), so the message is spoiled (`UnfitSpoils`); with `CutBody` for the others this is
  the equivalence of `GrownValuesSpoil` (`WholeMessage`).
* That the answer is read as the request was needs an invariant of its own, `Echoed`: what
  would be written of the request so far is read as that request.  One token more keeps it, because a value
  is read as it was when it is written again (`ValueKept`): writing an integer undoes reading it, sign
  and all, for any number of octets (`IntReturns`), a text is mended once, and a value too short for an
  integer is 0 from then on.

**Raster.** `RasterProofs` is about two loops of three levels, over a document whose end the
walker does not know.  A loop is the iteration of one step on a record; `Iterate` in
`ListsProofs` gives its rounds by induction, and that rounds after the last change
nothing (`IterateRests`).  Three arguments follow.

* What the client sent is the encoding of its pages (`Encoded`): each finished page as its
  header and the lines of it, the page under way as far as it has come.
* A walker at a boundary of the document is at the same boundary of its own loops:
  `DecodedSoFar` says where the decoder stands after as many rounds as there are finished pages,
  lines and runs, and `CountedSoFar` says it of the counter.  One step of the client is
  one round of one loop; the other loops are where they were.  `DecodedAsEncoded` and `CountedAsEncoded`
  follow at the end of a page.
* A round that finds its data reads the same in a longer document (`Continues`), by cases
  at the innermost level and by induction outwards.  So a walker on a document cut off
  anywhere agrees with the walker on the whole one until it runs out of data, and what it
  has written then is a prefix of the pages with one shorter page at the end.
  Up to here pages are told by the rows written to them (`WrittenPages`); `PagesAreFull` then shows that
  the decoder finds these pages at their full height, blank below.  `DamageStaysLocal`
  follows (`PaddedPart`), and needs nothing about pixels.

**Rendering.** `RenderProofs` proves all five properties.  `RInv` is what the state must
have: types, documents with distinct numbers, a finite disk.  The rest says what one
rendering does in such a state, and goes through the functions it is built from.

* Ghostscript (`PagesAreKept`, `PagesAreCharged`): the loop over the documents, by
  induction.  `Probe` stops at the first number without a file because there are finitely
  many files (counted with `FilesCount`), so a document is given an offset beyond all files
  of those before it and writes over none of them.
* One page (`NamesAreTrue`, `BacksTumble`): every image is followed from `SourcePages`
  through draft quality, rotation and tumble as a map of pixels (`Shows`: an image in which
  every pixel is one of the page it is labelled with).  Labels are distinct because
  document numbers are.  Rotation by quarter turns is exact (`Turned`), and which pages
  are selected does not depend on the order of the page ranges (`WantedIsChosen`).
* Sheets (`EveryPageOnce`): a sheet is a grid of cells, and a cell is told by the quotients of a
  pixel's coordinates.  Read row by row, the first pixel of a cell is its corner, and the
  corners come in the order of the cells (`CornerInCell`, `CornersAscend`), so a sheet gives
  its pages in order (`SheetReads`).  Sheets in the order of their suffixes then give all pages in order
  (`PagesRead`), all but the last are full, and every page that is missing is at one of
  at most `NumberUp` places of a file that failed: an injection in each direction counts
  them.

## 6. Findings and observations

Four statements of the repository that its code does not keep, each a run:

* `set_hold`: Set-Job-Attributes with a holding job-hold-until *prints* the job:
  `holdWith` returns true for a hold too and the handler takes this for a release
  (`set-job-attributes.ts:118-123`).
* `send_uri`: a job that is closed, canceled or completed during the fetch drops the
  document, and the client is told successful-ok (`send-uri.ts:13`, `:108`).
* `created_twice`: a slow request announces again every job created during its
  fetch (`ipp-printer.ts:576-577`).
* `raster_agree`: the two walkers take the control byte of a run in opposite senses,
  so job-impressions and the pages printed differ (`raster-info.ts`, `raster-decode.ts`).

Seen while modelling, without a run of their own:

* The attributes that follow a `no-hold` job-hold-until in one Set-Job-Attributes are
  set on a job that has been printed: its pages keep the old values while
  Get-Job-Attributes reports the new ones.  `PagesShowTheAttributes` excepts exactly these.
* A Hold-Job that is refused leaves its value on the job, an ended one too.
* The reason of Hold-New-Jobs is never among printer-state-reasons.
* time-at-completed is the time of creation.
* `PUSH_DELIVERY_TIMEOUT_MS` bounds the idle time of a socket, not a delivery: a recipient
  that answers an octet at a time holds it open.
* A text whose damaged bytes grow to three octets each can outgrow its length field
  when it is echoed: `OnlyOutgrownValuesSpoil` says that nothing else spoils an answer.  A
  request that breaks off exactly between two tokens is taken for a complete one.

* Hold-New-Jobs sets a flag that no submission reads, and nothing calls
  `markHeldNewJob`: jobs submitted in this mode run at once (`hold-new-jobs.ts:4-6` says
  otherwise).
* Close-Job runs a job whatever its job-hold-until (`job.ts:457`; `src/README.md:272`).
* Print-URI reads `accepting` before the fetch only, so a job may be created after
  Disable-Printer; Validate-Job and Send-URI do not read it at all.
* A job canceled during the fetch of its Send-URI with last-document is not revived, but
  rendered again.
* Restart-Job from completed to completed emits no event: the snapshots are equal
  (`src/README.md:463-465`).
* Any exception of a handler is answered with request-id 0 and no event is recorded,
  whatever was changed before it.
* Create-Job-Subscriptions without notify-job-id subscribes to the printer;
  `clampLease` grants the maximum for 0.
* `gs-raster.ts` counts the pages of a document by the files that exist: pages left by
  an earlier process for the same job id are counted too.  A job that mixes raster
  documents and PDFs writes both under the same names, so the first PDF overwrites raster
  pages, and job-impressions becomes the count of the PDFs alone.
* With number-up, the tumble of short-edge jobs turns every second *page*, also
  when both pages are on the same side of a sheet (`raster-render.ts:98-104` says so).
* `raster-decode.ts:63-65` says that whatever pixels could be decoded are kept: the rows before the
  damage are, but the pixels decoded of the row in which the data ends are dropped with it
  (`:581-608`), and the whole row is 0.  `DamageIsLocal` states what the code does.
* A client that connects and never sends a request, or stalls in the middle of one, keeps
  `stop()` from returning (`http-server.ts:40`, section 3).
* A damaged certificate pair is reused at every start and TLS never comes up; the TXT
  record of the plain service claims TLS all the same.
* A second `stop()` does not wait for the servers the first is closing, and its
  `process.exit` cuts off the requests the first waits for; `http-server.ts:36`
  says that all connections are closed, where the code waits for them to end.
* Comments on push delivery are out of date (`constants.ts:373`, `README.md:458-460`), and so is
  the one of `printer-attributes.ts` that only pulling is supported.

## 7. What is not modelled

Pixel values, ICC and PNG: pure arithmetic on bytes,
for which unit tests against known images say more.  The attributes of queries
that never change, their selection by requested-attributes, and Set-Printer-Attributes:
strings copied from a request to an answer, or filters of them by name.  Whether job-hold-until is
sent twice in one request.  The client (`host/*`) builds a request, awaits one
answer and keeps no state; its scenarios and the logger print.  A restart of the process
starts ids and sequence numbers over, in `Render` and `Server` where that is
visible on the disk and in the services; `Printer`, `Subscriptions` and `Push` describe one life of it.
A Ghostscript that is stopped from outside after it has written pages is not modelled:
`Render` has runs that end well, runs that leave fewer pages than the document has, and
starts that fail.  TLS and HTTP themselves, mDNS packets, openssl and Ghostscript are
external; only how the code reacts to their outcomes is modelled.

## 8. Plan

Order of construction, most important behaviour first; all steps are done.

1. `Job`, `Printer`, `Spool`: the job life cycle with its races and the pause.
2. `PrinterProofs`: the inductive invariant of the printer, its refinement of `Spool`, and
   the action properties about races.
3. `Subscriptions`, `Leases`, `SubscriptionsProofs`: leases without timers.
4. `Notifications` over `Printer`: events from outdated snapshots.
5. `Fetch`, `Server`, `ServerProofs`: settlement, start and stop, with liveness.
6. `Raster`, `Codec`, `Render`: the algorithms, checked against references.
7. `Push`, `Feed`: deliveries that overlap, are late and fail, over `Subscriptions`.
8. `Attributes`: Set-Job-Attributes as a loop, so that a run in the middle of it is seen to
   use the old values of the rest; `Queries`: the answers; `AnswersProofs` for all
   three that observe the printer.
9. `Framing`: the codec in octets, for truncation and lengths at their limit.
10. `ListsProofs`, `CodecProofs`, `RenderProofs`, `RasterProofs`: the algorithms for inputs of every size.

What could follow: Set-Printer-Attributes with the services advertised over mDNS, which keep the name they
were published with; color conversion in `raster-render.ts` against a reference for the
values at the edges.
