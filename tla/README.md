# Flowmap in TLA+

Flowmap analyses a repository, keeps immutable snapshots of the result in an
*engine session*, and serves them to editors and to a local browser workbench.
This directory holds the specification of its concurrent core, of the algorithms an
index is built with, and of the page in front of them; the TLC instances that check
it; and the proofs TLAPS checks. Every definition was read off the source;
`PROJECT.json` gives the lines each one stands for.

Contents: [the system](#the-system), [engine session](#engine-session),
[protocol client](#protocol-client), [framing](#framing), [scan adapter](#scan-adapter),
[index](#index), [workbench](#workbench), [what each run shows](#runs),
[what is proved](#proofs), [limits the models found](#limits),
[what is not modelled](#not-modelled), [plan](#plan).

## The system

```
browser (static/app.js)
   | HTTP
HTTP adapter (internal/server)  -- Scan: start, wait for the notification, query
   | calls, notification handler
protocol client (internal/protocol/client.go)
   | Content-Length frames over stdio or io.Pipe (inprocess.go, framing.go)
engine session (internal/engine)  -- workspaces, views, analyses, snapshots
   | Options.Analyze, Summarizer
analyzer (internal/analyzer)  -- classification, Git attribution, queries
   | semantic.Backend
Go and JavaScript backends
```

| Component | State | Operations | What is hard | What makes it correct |
|---|---|---|---|---|
| Engine session (`engine.go`, `serve.go`, `handlers.go`) | session state, workspaces, per view: active analysis, snapshots, last failure, revision, emit lock; per analysis: context, terminal flag | initialize, open, close, start, cancel, queries, summary, shutdown, exit; the analysis goroutine; the context given to `Serve` | a goroutine per request and per analysis; decisions under one lock, writes outside it; cancelling at any moment; shutdown waits for handlers, not for analyses | one analysis per view; publication is atomic and ordered with cancellation; two snapshots retained; notifications in commit order, after the start response; shutdown leaves nothing running uncancelled, and ends |
| In-process connection (`inprocess.go`) | two pipes, the channel `served` | start, close | unbuffered pipes: a writer waits for its reader | `Close` ends, and with the session's own error |
| Protocol client (`client.go`) | pending calls by id, handlers, `done` | call, notify, read loop, end of stream | answers out of order, late, or never | an answer reaches its own caller; nobody waits after the stream ended |
| Framing (`framing.go`) | bytes read so far | read, write | end of stream inside a frame, declared length | frames are recovered exactly or the stream is refused |
| Scan adapter (`server.go`, `Scan`, `awaitAnalysis`, `recordOutcome`) | waiters, buffered outcomes, abandoned ids | scan, notification handler | the notification overtakes the scan; the HTTP request ends at any time | no outcome is lost or given to another scan; a scan that goes away frees its view |
| HTTP adapter (`server.go`, `convert.go`, `files.go`) | registry of projects (constant) | routes, paging loops | a snapshot is evicted between two pages | errors mapped to statuses; every page collected |
| Workbench (`static/app.js`, `sw.js`) | selection, graph, Git status, review markers, generations | select, search, focus, expand, rescan | several fetches in flight; the selection changes meanwhile | an answer is shown only for the selection that asked for it; no panel waits for ever; the history leads from the function in focus |
| Pagination (`convert.go`), file listing (`files.go`) | none (the cursor is in the request) | page bounds, cursor, listing | boundaries, equal keys, cursor of another query, a truncated listing | every symbol on exactly one page and under one file |
| Summary cache (`summarizer.go`) | files by content hash | get, put | two writers, partial file | a hit is a complete summary of that content |
| Classification (`classify.go`) | classification per function | direct evidence, purity fixpoint | iteration in map order | the result does not depend on the order; what is inferred pure reaches no effect |
| Queries (`query.go`) | immutable index | search, focus | cycles, depth, hidden tests | shortest distances, no dangling edge |
| Git attribution (`git.go`), review order (`git_hierarchy.go`) | none | hunks to functions, baselines, ordering | boundaries of spans, nested functions, renames, cycles | each change attributed; each function listed once |
| Go backend (`backends/go`) | none | load, collect symbols and calls | packages that do not load, calls without a known callee | every call is an edge or leaves a fact |
| JavaScript backend (`backends/javascript`) | none | extract, link modules, resolve calls | import cycles, re-exports, the order of files | a name is linked to what it denotes, or the caller stays open |
| Command line, telemetry, skill, scripts | process state | start-up, shutdown | - | not modelled |

`PROJECT.json` lists these components with their status, and under `hazards` the
places in the code that are hard to test; the properties below are for them.

## Engine session

`EngineSession.tla` models one `Engine.Serve` call: the read loop, a goroutine per
request, a goroutine per analysis, and what they share under `Engine.mu`.

**State.** One variable per field that matters: `session` (`Engine.state`),
`workspace`, `active`, `failure`, `revision`, `snapshots` (the fields of `view`),
`emit` (who holds `view.emit`), `cancelled`, `outcome`, `viewOf` (the fields of
`analysis`), `request` (the handler goroutines) and the position of each goroutine:
`loop` for `Serve`, `stage` for `runAnalysis`. `wire` is what reached the output
stream about each view, `acked` records the analyses whose cancellation was
acknowledged to the client; both only record.

**Atomicity.** One critical section of `Engine.mu` is one step, and so is one framed
write, which `FrameWriter` serialises. Everything between two of them may be
interleaved with any other goroutine: a handler between its answer, its write and
its launch (`Answer`, `Respond`, `Launch`); `notify` between reading `closed` and
writing (`Report`, `WriteOutcome`). `commit` runs with `view.emit` held, which is
released after the terminal notification (`Commit`, `Finish`).

**Actions.** `Initialize`, `BeginShutdown` and `FinishShutdown` run on the read loop
and block it; `Dispatch` gives any other request its goroutine. `Exit`,
`FramingError` and `ContextDone` leave the loop, `Stop` is the rest of the deferred
`stop`. `OpenWorkspace`, `CloseWorkspace`, `StartAnalysis`, `CancelAnalysis`,
`Query`, `Summary` are the handlers, each with its error replies; validation of
parameters is abstracted to its verdict. `Announce`, `WriteProgress`,
`AnalyzeReturns`, `Commit`, `Report`, `WriteOutcome` are `runAnalysis`. `Terminated`
stutters once `Serve` has returned and no goroutine is left, so that TLC's deadlock
check finds every other state in which the system stops.

**Abstractions.** Identifiers are never reused, so a snapshot is named by the analysis
that published it. Frames that are only answered with an error and change nothing
(malformed, unknown method, wrong session state) are left out. The output stream
accepts writes; what happens when the client does not read is left to the
connection.

`LanguageView.tla` is the abstract specification of one view: one attempt at a time,
revisions that increase by one, a current snapshot that stays queryable with its
predecessor, attempts that end without publishing and change nothing.
`EngineSessionImplements.tla` maps the session onto one `LanguageView` per view.

## Protocol client

`ProtocolClient.tla` models the calls that share one connection (`Client.Call` with
`register` and `unregister`), the goroutine that owns the reader (`readLoop`,
`deliver`, `notify`, `finish`), and a peer that does whatever an engine can do.

**State.** `at` is where each call is, `id` the identifier it was issued, `pending` the
calls in `Client.pending`, `channel` and `released` the content and the closing of
their channels; `writer` holds `FrameWriter.mu`; `reading`, `inHand`, `handling` are
the read loop, between taking a channel out of `pending` and sending on it, or inside a
handler; `stream` is what is in transit. `handled`, `received`, `answered`, `noticed`
record. Responses carry how many notifications preceded them, and whom they answer,
so that the properties can speak of order and ownership; the client reads only `id`.

**Actions.** One per critical section or blocking point of the code: `Register`,
`BeginWrite`, `SendFails`, the three ways out of the `select`, `Unregister`;
`ReadMessage`, `Deliver`, `Handle`, `Finish`. A write is a rendezvous with the peer
(`Receive`), as on an `io.Pipe` or a full pipe of the operating system. The peer may
answer out of order or never, send messages nobody asked for, and end either direction
at any time. `Expire` ends a caller's context.

The read loop ends with any error of `FrameReader.Read` (`ReadError`), not only when the
stream does: at a frame with headers it refuses (`Refused`), at an answer above
`MaxFrameBytes`, which the engine's writer lets pass (`Oversized`), and in a frame the engine
died in (`Torn`). What lies behind a refused frame is never read, so a call can fail with
`ErrClientClosed` although the engine answered it: `ClosedOnlyUnread` allows exactly that, and
only when `Client.Err` tells of the damage.

**Fairness** (`FairSpec`): the goroutines of the client run; nothing is assumed of the
engine. Left out: the typed wrappers of `Call`, `OnNotification` (registered before
the calls), and the decoding of results.

## Framing

`Framing.tla` models `FrameWriter.Write` by several goroutines, a transport that takes a
frame piecemeal and may be cut anywhere, `FrameReader.Read` with the checks of
`readHeaders` in the order of the code, and how both ends take the error (`Serve`,
`Client.finish`). The stream is a sequence of units: header lines, the blank line and
payload bytes tagged with their frame and position, so that a payload put together from
two frames cannot pass for either. An error is the set of sentinels `errors.Is` finds in
it. A peer that is not this program may send any headers: none, two lengths, an invalid
one, others before or behind it.

## Scan adapter

`ScanAdapter.tla` models `App.Scan` from the HTTP request to its last page: `Start` and
`StartReturns` (under a context that outlives the request), the two critical sections
and the `select` of `awaitAnalysis` (`Await`, `AwaitOutcome`, `AwaitClosed`,
`AwaitGone`), the cancellation, and the paging loops of the report and the Git status.
`recordOutcome` runs on the client's read loop. The client and the engine are the part
of `ProtocolClient` and `EngineSession` a scan can see: calls answered through one
ordered stream, one analysis per view, an outcome written after the view is free again,
two snapshots retained. The client's read loop may end at any time, with the stream or at a
frame it refuses, and then loses what is still in transit (`Disconnect`). All scans are of one view, which is where they meet: the maps of
the adapter are keyed by analysis, and analyses of other views share nothing else.

The scans of the model are requests that can be open at once; a request that ended makes
room for the next one, so that two of them and three analyses show everything that can
evict a snapshot under a scan. `GoneScanFreesView` is the promise of `server_test.go:541`
at every point where a browser can disconnect. It rests on `context.WithoutCancel` for
the start call: a scan that gave up before reading its analysis identifier could not
cancel it. `RecordsAreClaimed` shows the one case in which the `abandoned` map grows:
the request ends when its outcome is already in the channel, and the `select` prefers
the context.

## Index

What an analysis computes, and what is asked of its result, is sequential code over
immutable data. Each algorithm is a module of operators or, where its order is not
determined, a state machine; `IndexAnswers.tla` composes them: a behaviour either
classifies one program or answers one request.

- `Classification.tla`: `classifyDirect` and the fixpoint of `classifyFunctions`. A pass
  visits the functions in any order (`Visit`, `NextPass`, `Conclude`), as the walk over a
  Go map does, and may already see what it promoted itself. Facts are abstracted to the
  kinds the code tells apart. The abstract statement is the least set closed under the
  rules of purity (`Closed`, `PurityIgnoresOrder`).
- `CallGraph.tla`: `Focus` level by level, with what `handleGraph` coerces and
  `handleGraphNeighborhood` refuses; and the review order of changed functions
  (`orderChangedFunctions`: reachability, recursive components, frontiers).
- `GitAttribution.tla`: hunks to functions, HEAD baselines for Go and JavaScript, the one
  `git cat-file --batch`, untracked files, an unborn HEAD. A patch is a set of file diffs, each a
  set of hunks, computed from an edit script (`HunksOf`, external). `SpanChoices` is the set of outcomes of a
  walk over a map keyed by file and line. An edit (`EditType`) declares functions by their first
  line, the line they are found by and their last; they may stand in one another, as the
  functions that the JavaScript patterns find do, share lines and names. HEAD has functions of its own
  in the lines that were not added; the file may have been renamed there, in its directory or from another
  one, and `git cat-file` may find any of the paths missing.
- `GoCalls.tla`: which packages and functions become symbols, and the edges and facts of
  static, dynamic and unresolved call sites. go/packages, SSA and VTA are external: a
  load gives call sites with candidate callees.
- `JavaScriptCalls.tla`: `linkModules` (imports file by file in path order, then rounds of
  re-exports), public callables, receiver bindings, `resolveMember`, `recordRelationships`.
  What the regular expressions find in a file is given.
- `Pages.tla`: search, the order of symbols, `pageBounds` with its cursors, and the file
  listing of the explorer, by git or by a walk, truncated or not.

The properties compare an answer with what it should mean, stated without the steps of
the algorithm: `FocusIsNeighborhood` against distances, `CallersReviewedFirst` against
mutual reachability, `ChangesAttributed` against the lines of the edit and what HEAD declares, `GoCallsAccounted`
against the candidates of every site, `DirectCallsAccounted` against what a name may
denote through any chain of exports, `PagesPartition` against the set of symbols.

## Workbench

`Workbench.tla` models the page (`app.js`) and the HTTP handlers that answer it. The page
runs to its next `await`, so one step is one stretch of an async function; `call` holds
the suspended activations, and their answers arrive in any order. The page numbers the
requests of a panel and drops an answer that was overtaken: `live[p]` is the activation
whose number is still the last one of panel `p`. `shown[p]` is what a panel shows and about
which view; `rootID`, `focusHistory` and `focusHistoryIndex` are the page's own.
`scanned` and `loadState` are what the handlers see of the engine: a scan is refused while
its view is being analysed, any request may fail, and one about a view that was never
scanned must.

Every request of the page but the summary and the expansion of a node is an action, with the
branch for success, for an overtaken answer and for a failure: `SelectLanguage` and
`ChooseProject` with the scan, the Git status and the files that follow; `Search`,
`FocusGraph` with the history, `LoadGraph`, `ShowDetail`, `Rescan` with its four ways on. Showing
the details of the root again, which `focusGraph` goes on to do when the root is in focus already
(`app.js:463-467`), is the action `ShowDetail`.
Two abstractions matter: the content of snapshots is left open, so a request about a
scanned view may be refused (an evicted snapshot, a function that was removed); and the
status shown in a selector is taken to be up to date.

## Runs

| Run | Instance | Shows |
|---|---|---|
| `engine_overlap` | 1 view, 3 analyses, 2 handlers; open, close, start, query | retention window, what a query may miss, notifications in commit order, the session implements `LanguageView` |
| `engine_closing` | 2 views of one workspace, 2 analyses, 2 handlers; open, close, start, cancel | one analysis per view, acknowledged cancellation is final, start response first, load state agrees with the notifications, quiet after shutdown |
| `engine_liveness` | 1 view, 2 analyses, 1 handler; with summaries | a cancelled analysis frees its view; every outcome is reported; shutdown completes, provided summarizer commands end; the end of the caller's context ends `Serve`, even from a blocked shutdown, unless a summarizer command runs on for ever |
| `engine_silence` | 1 view, 1 analysis | *violated*: see findings |
| `client_calls` | 2 calls, 1 notification, 2 messages in transit | own answers, closed means unread, nobody stranded, notifications before answers; calls return when the engine dies, when answered, and on cancellation once read |
| `framing_stream` | 2 frames of up to 2 bytes, any headers, any cut | payloads intact and in order, damage to a payload or a header never silent; what was written completely is read |
| `framing_boundary` | 1 frame of up to 1 byte | *violated*: see findings |
| `scan` | 2 scans of a view at a time, 3 analyses, 2 pages | outcomes go to their own scan, none is lost or kept; when a published scan can still fail; scans end, and free their view when their request is gone |
| `index` | programs of 3 functions, edits of up to 7 lines and 3 functions, trees of 3 files, and the requests of `MCIndexAnswers` | classification in any order, neighbourhoods, review order, attribution, calls of both backends, pages |
| `js_calls` | one caller, calls of known and unknown names and receivers | *violated*: see findings |
| `workbench` | 2 views, 2 functions, 2 activations, history of 2 | panels are about the selected view, none is left waiting, the history matches the focus |
| `workbench_git` | the same | *violated*: see findings |

**Bounds.** *Engine.* Three analyses of a view are what it takes to evict a snapshot (two are
retained) while a query of it is in flight, and to have one analysis committing while
another reports. Two handlers are enough for any pair of requests to race (the liveness
run has one, and races it with the read loop and the analyses), and the read loop and the
analyses are goroutines of their own. Closing and shutting down act on all views of a
workspace, hence two views in one workspace. The only bounds stated in guards are in
`Dispatch`: a request that needs a fresh identifier finds one left,
and a query names a snapshot that was published at some time. Analyses and handlers
are interchangeable, which the runs without liveness use as symmetry.

*Client.* Two calls let an answer overtake another one, or reach a call that gives up,
and the safety properties are proved for any number;
`Notices` and `Capacity` bound the notifications and the messages in transit, and an
unusable message is sent only when nothing else is. Two messages are what it takes to strand
an answer behind a refused frame. One notification shows that an answer waits for the handlers of
what came before it; that several are handled in order of arrival is left to the proof
(`NoticesPrecedeAnswers`), which TLC agrees with for two (950,544 states without fairness). *Framing.* Two frames are what it
takes to interleave or to lose synchronisation, two bytes to tear a payload in the
middle. *Scans.* Two later publications evict a snapshot: one request collects its pages while
the other scans twice. Identifiers are a counter, which bounds the starts
(`IdentifiersLeft`), and a request slot is used again once nothing of its former request
is in transit (`Fresh`).

*Index.* Three functions give every shape of the fixpoint: a chain longer than one pass may
promote, a cycle, a cycle with a way out. The proofs cover any number.
Graphs have four nodes, which is enough for a component of two with a function above and
below, and edges in every position up to three; one chain is long enough for the depth to
be clamped. Edits cover every combination of kept, added and removed lines over two
functions with gaps around them, at one line of context instead of three, so that hunks
both split and merge, and over functions that adjoin, stand in one another, have one name or share
a line; of adjacent functions every rename, missing path, deleted file and state of the
repository is taken as well. Trees put the importing file before and behind the exporting one. Pages of
one and two items are cut through symbols with equal names. *Workbench.* Two activations
are any two requests that race, with what each goes on to ask; the views are those of one
project or of two as far as a page is concerned, since choosing a project goes through the
same selection. `MaxHistory` bounds what `Recorded` appends.

**Fairness.** *Engine.* Goroutines that can run do run, and the loop's `select` sees a cancelled
context (`EngineFairness`). `Options.Analyze` receives a context and is only assumed to
return once it is cancelled. Nothing is assumed of the client, and nothing of a summarizer
command: the end of its context kills the shell it was started with, but a child of the
shell that holds the output keeps `Run` waiting (`summarizer.go:46-51`).
`ShutdownCompletes` assumes, in the property, that commands end by themselves:
`beginShutdown` cancels the analyses but not the context of the handlers, so a command
that never ends would keep `shutdown` waiting. `ContextEndsServe` says that the end of the
caller's context is the way out of everything but a command that runs on for ever.

*Client and framing.* The goroutines of the client run; writers and readers of frames
continue. *Scans.* Every goroutine of the adapter, the client and the engine runs, and
an analysis ends once it is cancelled; one that is not cancelled may run forever, which
is why `GoneScanFreesView` needs the cancellation.

**Findings.**

- `engine_silence`, `SilentAfterReturn`: `stop` is documented to silence late
  notifications, but `notify` reads `closed`, releases the lock and writes afterwards,
  so a notification can be written after `Serve` returned.
- `framing_boundary`, `CleanEndOnlyAtBoundary`: `Read` is documented to return `io.EOF`
  only at a clean frame boundary. A stream that ends inside a header line, or between
  the headers and the first payload byte, gives an error that wraps both `ErrFraming`
  and `io.EOF`; `Serve` and the client test it with `errors.Is(err, io.EOF)` and take it
  for a clean end. `DamageIsReported` is what holds: a payload that was begun, or a
  header that was refused, is reported.
- `js_calls`, `EveryCallAccounted`: dynamic dispatch is documented to stay conservative for
  classification, but a member call whose receiver is not known adds neither an edge nor a
  fact, so a function that only makes such calls is inferred pure. `DirectCallsAccounted` is
  what holds for calls of bare names, `GoCallsAccounted` for Go.
- `workbench_git`, `GitDescribesCodeShown`: the user guide says that the branch label and the
  change list describe the code shown. The Git status is the one panel whose requests
  keep no number and which a change of language does not empty: it can be about the view
  that was left. `SelectedViewOnly` is what holds for results, details and files.

## Proofs

Every safety property of the runs is proved for any values of the constants. For the
concurrent components each proof has the same shape: an inductive invariant, named parts of
which say why the property is never one step from being violated; one lemma per action, or per
part of the invariant, that the step keeps it; and the property as its consequence. The invariants
were checked by TLC before they were proved, on instances as small as those of the runs
(engine session 448,518 and 1,518,138 states, scan adapter 553,033, workbench
2,325,510, framing 159,840). For the algorithms of the index the work is in the lemmas about
what an operator returns.

| Component | Invariant | Proofs | From |
|---|---|---|---|
| Engine session | `EngineSessionInvariant.tla` | `EngineSessionProofs.tla`, `EngineSessionViewProofs.tla` | `SessionAssumption` |
| Protocol client | `ProtocolClientInvariant.tla` | `ProtocolClientProofs.tla` | `ClientAssumption` |
| Framing | `FramingInvariant.tla` | `FramingProofs.tla` | `FramingAssumption` |
| Scan adapter | `ScanAdapterInvariant.tla` | `ScanAdapterProofs.tla` | `ScanAssumption` |
| Index | in the proofs | `IndexAnswersProofs.tla`, on `DataLemmas.tla` | `ProgramAssumption`, `RequestAssumption`, `PageLimitAssumption` |
| Workbench | `WorkbenchInvariant.tla` | `WorkbenchProofs.tla` | `WorkbenchAssumption` |

**Engine session**, for any workspaces, views, analyses, request slots and operations, where
views belong to workspaces and `None` is not an identifier.

- `TypeCorrect`: `Spec => []TypeOK`.
- `AtMostOneAnalysis`: an issued analysis that has not committed is the active one of
  its view. By itself it is not inductive: a start could register an analysis that
  some handler is about to launch again, and `commit` clears `active` whoever holds
  it. `Ownership` adds that `active` points at a live analysis of that view, that an
  outcome is a decision exactly once `commit` ran, and that each accepted start is
  launched by one handler.
- `ShutdownIsQuiet`: after shutdown no handler and no open workspace is left, and what
  still runs has been asked to stop. It rests on `ClosedIsCancelled` (a live analysis
  in a closed workspace is cancelled) and `LoopMatchesSession`: a start that is
  answered after `beginShutdown` swept the analyses is caught when `finishShutdown`
  closes its workspace.
- `CancelIsFinal`: an analysis whose cancellation was acknowledged is never published,
  in the view or on the wire. `CancellationHolds` covers the handler that has decided
  and not yet answered; `WireIsTrue` ties what was written to what `commit` decided.
- `RetainsLastTwo`: a view retains exactly its last publications, in revision order.
- `SessionImplementsLanguageViews`: under the mapping of `EngineSessionImplements.tla` the
  initial states of the session are initial states of every `LanguageView`, and each step
  of the session is, for each view, a step of its `LanguageView` or a stutter. The
  lemmas go through the kinds of steps (start, commit, closing, no change to the view);
  the revisions of the retained snapshots come from `Numbering` and `RetentionWindow`.
- `QueriesOutliveOnePublication`: a query can only miss a snapshot that two later
  publications replaced. `Numbering` (the published analyses of a view have pairwise different
  revisions, none above that of the view) and `RetentionWindow` say which snapshot
  the handler finds; `QueriesNamePublished` keeps what the client asked about fixed while the
  handler waits for the lock.
- `ResponsePrecedesNotifications`: `LaunchedAfterResponse` says that an analysis past its
  registration, or about to be launched, has its start response on the wire, so
  whatever it writes comes behind it.
- `CommitOrderOnTheWire`: `EmitIsHeld` names the analysis that holds `view.emit` at each
  stage, and adds that while a committed one holds it no other analysis of the view can be
  past its first lock; `WireFollowsStage` then orders what the two write.
- `LoadStateAgrees`: `AnnouncementsKeepUp` says, for a session that has not stopped, by
  how much a view is ahead of its notifications: by the commit that is being announced, and
  nothing else. The property, which excludes that window, follows.

**Protocol client**, for any number of calls, notifications and messages in transit. None of the
four properties is inductive by itself. `OwnAnswer` (`AnswersAreOwn`) needs that identifiers
are never shared and that every message in the stream, in hand or in a channel is
addressed to the call whose identifier it has. `NoCallStranded` (`NobodyStranded`) needs
`Reachable`: a call that may still wait is pending, has its answer in hand or in its channel, or has
been released; `Finished` then leaves the last two. `ClosedOnlyUnread`
(`ClosedMeansUnread`) needs `AnswersInTransit`: the answer to a pending call is still in
the stream, which is empty when `finish` runs, or begins with the frame that was refused; and
`Refusal`, which keeps that frame, and whatever is behind it, where the reader left it. `NoticesBeforeAnswer` (`NoticesPrecedeAnswers`)
needs `StreamOrder`: each message in transit carries one notification more than the message
before it if it is a notification, and as many otherwise.

**Framing**, for any number of writers, payloads of any size and a stream cut anywhere.
`FramesAlwaysIntact` and `DamageAlwaysReported` relate what the reader delivered to what
the writers began, but the reader only knows the units in front of it. `StreamFollowed`
supplies the link: there are positions `start` at which the frames begin in the stream (`Layout`),
the input is what was written behind the first `read` units (`InputFollows`), and the reader's
headers, length and payload are those of the frame that `read` lies in (`ReaderFollows`).
`WritersInOrder` is what `FrameWriter.mu` gives: only the frame begun last can be incomplete.
Each step then moves one of `start`, `read` or the written part, and the input can be looked
up unit by unit instead of being compared as a whole. `EndIsBeforePayload` says what is known when an
error wraps `io.EOF`: the stream was cut, and no undelivered frame has a payload byte in it. `Torn`,
the half-written header line, is what makes this more than a matter of counting, and why
`InputFollows` says in which part of a frame a torn unit can be.

**Scan adapter**, for any scans, analyses and number of pages. The properties speak of the end
of a scan; what they need is where its answer is before. `OutcomesAreOwn`
rests on `Issued` (an analysis is named to one scan, in a response that is computed, in transit or
received, or in the scan itself) and `OutcomesTrue` (whatever is told of an outcome is what
`commit` decided, and is told once). `NoOutcomeIsLost` needs the race of the two: the outcome
may be heard before the scan waits. `StartBeforeOutcome` orders the stream; `Waiters` and
`WantedAreKept` say that an outcome that was heard is in `finished` while the scan is about to
look there, and in its channel while it waits. `RecordsClaimed` needs `Claimed` and `Unwanted`: an outcome
still to be heard is wanted by a scan or was abandoned, never both. `UnavailableAfterTwo`
needs `Refusals`, which carries the eviction from the answer through the stream to the scan.

**Classification**, for any functions, facts and calls. `PurityIsTheLeastFixpoint`: whatever
order the functions are visited in, no pure function lies outside a set
closed under the rules of purity, and at the end the pure functions are such a set. The
first half is inductive with `LabelsFromEvidence` (a label is the direct one, or was
promoted from unknown without an external call). The second half needs what a pass knows:
`VisitedStay` says that, as long as the pass has promoted nothing, every function it
visited is settled or still has a callee that is not pure, so a complete pass without a
promotion (`LastPassQuiet`) leaves nothing to add. `InferredPurityIsEarned`: what is inferred
pure reaches no effect, because calls of pure functions stay among pure functions
(`PureCallsPure`), and reaches no call cycle, because the functions that do not reach the
cycle are closed under the rules (`CyclesStayOut`), and no pure function lies outside them.
No order of promotions has to be kept for this. Both are theorems of the whole `AnswersSpec`, in
whose other behaviours there is nothing to classify.

**Answers of the index.** A behaviour of `AnswersSpec` that is asked something answers it in one
step, or collects pages step by step, and then keeps the answer. `RequestInv` says so: what is
asked is well formed, and the answer is what the algorithm's operator yields of it
(`AnswerIsComputed`). A property of the answers is then a fact about that operator, for data
of any size. `RequestAssumption` (`WellFormed`) is what the code may rely on when it computes:
a published graph is finite and has the ends of its edges; symbols have unique identifiers;
SSA gives a static call its callee; a function begins and ends at lines of its file, those of Go
do not overlap, and a file that HEAD does not have has added lines only; a
name is bound once in a module and exported once, as the language demands; changed functions
are functions of the graph. TLC evaluates it on every request of the run.

The algorithms are written with recursive functions, and the induction theorems of the library
cannot be instantiated here, since they take an operator. `DataLemmas.tla` states what is needed
about sets instead, from the least element of a set of naturals: a set that has 0 and the
successor of each of its members has all naturals (`SetInduction`, `BoundedInduction`), a
recursive definition up to a bound has a solution (`RecursionExists`), a finite set can be
enumerated, by a strict linear order too (`SortedEnumeration`), and counting up to a line
(`CountStep`). Each algorithm has one lemma that says what its recursion unfolds to.

- *Go calls.* `GoCallsAreAccounted`, for any load; `SitesAreReported` is the lemma about one site.
- *Neighborhoods.* `FocusShowsNeighborhoods`, for any finite graph and request. `Focus` only
  expands the frontier, the reference expands the whole ball; `FocusSelectsBall` carries, level by
  level, that what is selected is the ball and that the neighbors of what is not in
  the frontier are selected already. `CoercedWithin` deals with the directions that HTTP
  accepts and the protocol does not.
- *Pages.* `PagesMakeAPartition`, for any symbols and page limits. Every page sorts the
  symbols again, from a map: `SortedIsUnique` says that names and identifiers leave one order,
  which is why pages of different sorts fit. `ExplorerInv` is the inductive part: what
  has been collected is whole pages of that order (`NextPageIsNext`), and the cursor is where
  the next one begins. `ListingIsRight` is about the files that are listed beside.
- *Changes.* `ChangesAreAttributed`, for an edit script of any length and any context, and any
  functions in it, nested, overlapping or on one line.
  `HunkCounter` says that the counter which a hunk advances stands where the script does, so that
  `FunctionHasDiff` can trade hunks for lines: a hunk touches a function exactly when a line of
  it was added or removed, or lines right above it were removed. `ChosenSpans` covers
  the walk over a map and what is left of functions on one line, `BaselineKnows` what HEAD had
  under paths that may have moved or be missing, and `ChangesRecorded` puts the states of
  a repository together.
- *JavaScript calls.* `DirectCallsAreAccounted`, for any tree of modules. `LinkImportsUnfolds`
  says what has been linked when the turn of a file comes; what an import finds then
  is a listed or declared export (`FoundIsExported`), and what it binds is among what the name
  may denote in the language (`ImportsDenoted`).
  `FollowedIsBound` is the other direction: an export that is known by then is found.
- *Review order.* `CallersComeFirst`, for any finite graph and changed functions. The walk of
  `changedReachability` and the distances of the property end in the same least closed set
  (`VisitsEndAtWalk`): a round that adds nothing is the last. Reaching is transitive, so
  mutual reachability makes components and what leads from one to another is a strict partial
  order (`ComponentsAreDag`). `Placing` is the invariant of the topological walk: what is
  placed is closed under its callers, an indegree counts the components that still lead to one,
  the frontier is what only placed ones lead to, and each level places a component unless none
  is left, because among those that are left some component has no caller
  (`SomeComponentIsFirst`). `OrderedBy` is what the sequence keeps when a level is appended.

**Workbench**, for any views, functions and activations. `PanelsShowSelectedView` is not inductive: it says
nothing of the answers still to come. `LiveAsksSelected` says that whoever may still fill a
panel waits for an answer of the kind that panel shows, and about the selected view;
every step that changes the selection must therefore overtake those activations.
`NoPanelIsLeftWaiting` needs `WaitingPanelsAwaited`: a panel that waits has an activation
that is live for it, or a selection under way that will start one. `HistoryStandsAtRoot` needs
`FocusStaysInHistory`: a focus in flight that is still live, and was asked for by
moving in the history, names the entry it was started from, although the history may have
changed meanwhile.

**Model-checked only.**

- Liveness under fairness, which is out of this prover's reach: `CancelledAnalysisFreesView`,
  `OutcomeIsReported`, `ShutdownCompletes`, `ContextEndsServe`, `CrashReleasesCallers`,
  `AnsweredCallReturns`, `WaitingCallHonorsContext`, `WrittenFramesArrive`, `GoneScanFreesView`,
  `ScanEnds`. So is the absence of deadlock.
- The properties a finding quotes, which TLC shows to be violated.
- What is given to the algorithms: that git, SSA and the regular expressions yield data
  as `RequestAssumption` says is read off their use, not proved.

## Limits

The models were written from the code, and properties are stated as far as they hold. What had to
be left out of them, because the code does otherwise:

- *Engine.* The protocol (`docs/tdd/0001-flowmap-engine-protocol.md:251-254`) promises less of a
  cancellation than `AcknowledgedCancelNeverPublishes` shows: it is best effort there, and
  publication may already have committed. The code decides both under one lock, and
  acknowledges only what `commit` will respect. `Serve` is documented to run until its context
  is cancelled (`serve.go:27-28`), but waits for its handlers then, and nothing bounds how long a
  child of a summarizer's shell holds the output (`summarizer.go:46-51` sets no `WaitDelay` and
  no process group): `ContextEndsServe` says that this alone can keep it.
- *Client.* `Call` writes its request before it looks at its context, and holds
  `FrameWriter.mu` meanwhile: while the engine does not read, a call, and every call queued
  behind it, is not released by cancellation. `WaitingCallHonorsContext` therefore speaks of
  calls that were read, although `client_test.go:166` speaks of any unanswered call.
- *Review list.* `USER_GUIDE.md:190` says that the list of changes "is sorted by qualified function
  name". It has the review order, callers first: `gitChanges` (`convert.go:162`) keeps it, and the page
  does not sort again. `CallersReviewedFirst` is about the order the code gives.
- *Git.* `USER_GUIDE.md:190-195` says that **Changes** lists the "functions that differ from `HEAD`", and
  that blue "indicates a new function". `ChangesAttributed` stops where the code does otherwise:
  a function right below removed lines is listed as updated although its text is that of
  `HEAD` (`hunkTouchesSpan` counts a removed line at the number of the next one, `git.go:552`), and a
  removal of a function's last lines alone is not attributed to it; of several functions that
  start on one line one stands for all, by the order of a map (`git.go:179`), and in
  JavaScript the others are not listed; in a JavaScript project below the root of its repository every
  changed function is new, since names at `HEAD` are qualified from the root of the repository
  (`git.go:416-420`) and those of the index from the root of the project (`git.go:195`).
- *JavaScript.* Imports are looked up in path order, before the listed exports (`export { x }`)
  of later files and before re-exports are followed: such imports stay unresolved, which
  `DirectCallsAccounted` allows because the caller is left open. A direct call of
  the caller's own name is skipped whatever it denotes, and a caller that is imported back into
  its module under another name gets no edge to itself (`backend.go:837`). Inherited members are not found
  through `this`.
- *Workbench.* The answers that follow a rescan replace the graph without looking at a
  number, and two choices of a project may be answered out of order; this is why
  `SelectedViewOnly` leaves out the graph. A 404 after a rescan is taken for a function that
  was removed, although the snapshot may have been evicted.

## Not modelled

- Parsing and validating parameters, the contents of results, wire models and URIs, load
  diagnostics, logging and telemetry: translation of data without decisions the properties
  could tell apart.
- The in-process pipes: both of their ends are modelled against an arbitrary peer, and the
  product of the two is out of TLC's reach.
- The summary cache: a directory of files by content hash; its interleavings belong to the
  file system.
- Extraction from JavaScript by regular expressions, and the lexer that masks the source for
  them: what they accept is a matter of text, character by character.
- go/packages, SSA, CHA, VTA and git, which are external.
- In the page: layout, zoom, expansion and collapse of the diagram, review markers, the
  summary request, the service worker.
- Command line, skill and scripts.

## Plan

1. `EngineSession`, `LanguageView` and their proofs (done).
2. `ProtocolClient` and its proofs, `Framing`, `ScanAdapter` (done).
3. The algorithms of the index against reference definitions, `Classification` with its
   proof, and `Workbench` (done).
4. The safety properties of the session, the client, framing, scans, classification and the
   workbench, and the implementation of `LanguageView`, proved (done).
5. The answers of the index proved for data of any size: calls, neighborhoods, pages,
   changes, review order (done).
6. Members of receivers and inherited names in `JavaScriptCalls`, the expansion of the diagram in
   `Workbench`.
