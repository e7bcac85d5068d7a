# DockerWeb in TLA+

DockerWeb is a web console for a Docker engine: an ASP.NET Core server
(`src/src/DockerWeb.Api`) that talks to an engine through Docker.DotNet, and a
React client (`src/src/client`). These modules model the parts of it where
order matters, check them with TLC on small instances, and prove their
safety with TLAPS for every instance.

## 1. The system

| Part | State | Operations | Talks to |
|---|---|---|---|
| `DockerConnectionManager` (singleton) | `_client`, `_current`, `_disposed` under one lock | `Client`, `Current`, `Reconfigure`, `Dispose` | every service, per call |
| `SettingsController` | none; its request | GET and PUT `/api/settings/connection` | the manager, `SystemService.PingAsync` |
| `SystemService`, `ContainerService`, `ImageService`, `NetworkService`, `VolumeService` | none | one to three Docker calls each | `_manager.Client`, read anew for each call |
| `DockerExceptionMiddleware` | none | exception to HTTP status | all of the above |
| `StatsService.StreamStatsAsync` | a channel, a pump task, callbacks in the pool, a reader | one stream per subscriber | the manager; `MonitorHub` |
| `StatsService.MapStats` | none; the engine keeps the counters | one mapping per sample | the engine's answer |
| `StatsService.StreamLogsAsync` | decoded text without a line feed | one stream per subscriber | the manager; `MonitorHub` |
| `TokenService`, `AuthController`, JwtBearer | the signing key of the process | log in, validate | the browser |
| `lib/auth.ts`, `lib/api.ts`, `AuthProvider`, `ProtectedRoute` | one `localStorage` slot for all tabs, one boolean per tab | send with token, 401, log in, log out | the server |
| `ContainerDrawer`, `LogsTab`, `StatsTab`, `InspectTab`, `lib/signalr.ts` | the tab; a hub connection and a subscription per effect; lines or numbers, pause, error | open, choose, close; subscribe, dispose, stop | `MonitorHub` |
| hooks over react-query | for each list: data, a request, staleness, an error; polls every 5 s | query, poll, focus, mutate, invalidate | `lib/api.ts` |
| `ImagesPage`, `NetworksPage`, `VolumesPage`, `ContainersPage`, `CreateContainerModal` | dialogs, drafts, the object a dialog is about, a mutation object per hook | open, edit, close, submit; answers | the hooks |
| `SettingsPage` | the form | edit, save; an effect fills it | the hooks, the settings API |
| `DashboardPage`, `AppShell` | none | show | the hooks |
| `ToastProvider`, `Modal`, `ConfirmDialog` | messages; nothing | push; Escape, close, confirm | the pages |

What is hard in it: requests run concurrently with a switch of the connection
that disposes the client they hold; a controller reads the manager twice and
assumes one answer; a stream lives across pool threads, a bounded buffer, a
cancellation and a Docker call that outlives them; output is decoded in chunks
of arbitrary size; several tabs and a restarting server share one token;
connections are started, stopped and lost under React effects; a list is
refetched by polls, focus, visits and invalidations that meet each other's
requests; a dialog may be closed and opened for something else before its
answer comes; and a form is filled by an effect while it is edited and saved.

What makes each part correct:

- **Manager**: the client handed out is usable and is the one described; every
  replaced client is disposed once, none is leaked; calls go to clients that
  were active while the request ran, and never back to an older one; the status of
  an update tells whether the switch took place; every request is answered or
  waits in a call that no timeout bounds.
- **Statistics**: no sample is lost unaccounted or delivered twice; overflow
  costs the oldest; a stream ends when the engine's call does and when it is
  cancelled.
- **Statistics arithmetic**: percentages stay in range through restarts, and show
  the load, whichever way the engine reports.
- **Logs**: lines do not depend on the chunks.
- **Session**: with a configured secret a restart costs nobody the session; a
  dead session ends at the login page; only a token that is stale is dropped.
- **Live view**: it shows the container it is about, says when it is
  interrupted, and leaves nothing running behind.
- **Lists**: a change made here and acknowledged is on display once the list has
  come to rest; no page is blank; no list goes back in time, and a polled one
  keeps up with the engine.
- **Pages**: what is sent is what the dialog on display says, with the force the
  user ticked for that very object; the services accept what the forms send; the
  engine gets every row of the form.
- **Settings**: the form and the server understand each other, and a saved
  connection comes on display.

`PROJECT.json` lists the components with what is left out of each, and the
hazards with the line where each bites and the properties that watch it.

## 2. Modules

| Module | Models | Kind |
|---|---|---|
| `ConnectionOptions` | `DockerOptions`, the update body, `BuildOptions`, `Build`, `ResolveEndpoint`, `LoadCredentials` | operators |
| `ErrorMapping` | `Classify`, `MapApiException` | operators |
| `DockerCalls` | how many Docker calls each REST operation makes, checked and bounded or not | operators |
| `ActiveConnection` | what the manager promises | abstract specification |
| `ConnectionManager` | the manager under concurrent requests and shutdown | specification, composes the four above |
| `ConnectionInvariant` | its inductive invariant | formulas |
| `ConnectionManager_proofs` | theorems and proofs | proofs |
| `MCConnection` | small instances of the manager | model checking |
| `StatsStream` | `StreamStatsAsync` | specification |
| `StatsMapping` | `MapStats`, `ComputeCpuPercent`, `ComputeBlockIo` against an engine | specification and operators |
| `LogStream` | `StreamLogsAsync`, `DrainLines` | specification |
| `AuthSession` | tokens, tabs, restarts | specification |
| `MonitorSubscription` | the drawer, the effects of its tabs, `subscribeStats`, `subscribeLogs` | specification |
| `EventualView` | what a page may expect of a list | abstract specification |
| `QueryCache` | the hooks, react-query, the pages as observers | specification, implements `EventualView` |
| `Mutations` | the page on display and its mutation objects | actions shared by the pages |
| `ImagesPage`, `NetworksPage`, `VolumesPage` | dialogs, drafts and buttons of each page | actions |
| `CreateContainerModal` | the form, its request, `BuildCreateParameters` | actions and operators |
| `ContainersPage` | row buttons and confirmation; extends `CreateContainerModal` | actions |
| `Console` | the four pages behind their routes | specification, composes the pages |
| `MCConsole` | a small instance of `Console` | model checking |
| `SettingsForm` | `SettingsPage` against the settings API; extends `ConnectionOptions` | specification |
| `MCSettings` | a small instance of `SettingsForm` | model checking |
| `Statistics_proofs` | inductive invariants, theorems and proofs of `StatsStream` and of `StatsMapping` | proofs |
| `LogStream_proofs`, `AuthSession_proofs`, `MonitorSubscription_proofs`, `QueryCache_proofs`, `SettingsForm_proofs`, `Console_proofs` | inductive invariants, theorems and proofs of the module in the name | proofs |

`ConnectionOptions` is used twice: under the manager, and as the server's half of
the settings form. What `QueryCache` knows of a mutation is that it changed the
engine and was answered; what the pages know is who hears the answer. The
stream that `MonitorSubscription` opens at the hub is one of `StatsStream` or
`LogStream`. The properties of each of these parts are about itself, so they are
checked apart.

### ConnectionManager

`client`, `current` and `closed` are the manager's three fields; `info` and
`disposals` describe the `DockerClient` objects. Each element of `Requests` is
one HTTP request with a program counter. A step is what happens between two
points where another thread can be seen:

| Action | Code |
|---|---|
| `RefuseBody`, `FailBuild`, `BuildClient` | `UpdateConnection` up to the lock in `Reconfigure` |
| `Swap`, `SwapRefused` | the lock section of `Reconfigure` |
| `Retire` | `old?.Dispose()` after the lock |
| `ReadCurrent` | the `Current` getter |
| `GetClient` | the `Client` getter, once per Docker call |
| `Send`, `Answer`, `CallFails` | the call itself (Docker.DotNet, external) |
| `RefuseArguments` | `ThrowIfNullOrWhiteSpace` |
| `Dispose` | `Dispose`, once, by the host |

A request has a client of its own name if it is an update that built one, so
clients need no allocator. `window` is a history variable: the clients that were
active while the request ran; `turn` is another: which switch installed each
client. `asked` are the clients a request has read for its calls, one for each call, the
last one in hand. Whether an engine knows the object of a call is the engine's
business: `CallFails` may happen to any call. A call that is
under way when its client is disposed may fail or may still be answered: both
are allowed. Endpoint texts are opaque; `UriOf` is what `new Uri` makes of them.
`Reconfigure` reads the argument of the request alone, never the fields, before
the lock: that is why `BuildClient` is one step.

The manager is created with options it can build; a server whose configuration
cannot be built answers every request with the exception of the constructor and
is not modelled.

### StatsStream

Samples are numbered by the engine. `posted` and `mapping` are the callbacks of
`Progress<T>` that wait for a pool thread and that run: there is no
synchronisation context, so they may overtake each other, run together, and run
after `GetContainerStatsAsync` returned. `queue` is the channel with
`DropOldest`. `ReadAllAsync` waits with the token and drains without it, which
is why the reader has the states `waiting` and `draining`. `MapStats` is one step
here; its arithmetic is `StatsMapping`. `dropped`, `refused` and `overtaken` are
history.

### StatsMapping

`MapStats` and what it calls are operators over the engine's answer; the state is
the engine's: counters that grow while the container works, are gone when it
stops, and reach the next sample as `preCpu`. `style` is how an engine reports: the
number of CPUs given, counted or missing, the two spellings of disk entries, a
limit or a word of all ones. Percentages are integers, hundredths of a per cent,
rounded as `Math.Round` does. A word has `2 * Half` values, and `Long` is the cast of an
unsigned word to a signed one. A double of
a 64-bit counter is not exact; that error, far below a hundredth, is left out.

### LogStream

The output is chosen in the initial state: every sequence of bytes up to the
bound that is valid UTF-8 per stream. The head of the loop looks at the token
(`Await`, `LoopEnds`); a read that is under way when the token is cancelled may still
return a chunk (`ReadChunk`, 1 to `BufferSize` bytes of one stream) or throw
(`ReadFails`). `Drained` is `DrainLines` as a function of the text. A carriage return
is trimmed where the code trims it, and not from the flushed rest.

### AuthSession

A callback is one step, other tabs and the server run between any two. A token
is valid if the present process has its key and it has not expired. `attempt` is
the login call of a tab, which uses bare axios and so is no concern of the
interceptor. `config` is how the server is deployed,
chosen in the initial state and never changed: a configured secret or none, an
engine that answers 401 or never. An `engine401` is a 401 of the Docker engine that
`MapApiException` passes on; to the interceptor it is a 401 like any other. One
call per tab and token is under way at a time, because calls with the same token
are answered alike.

### MonitorSubscription

`tab` is the drawer's tab. A Logs or Stats tab on display is an effect that runs;
effects are numbered as they run. `live` holds the effects of the mounted
component: React ignores `setState` for one that is gone, but not for an earlier
effect of the same component, which is what StrictMode (`main.tsx`) and a new
`containerId` produce (`Rerun`). The Inspect tab has no effect, so to choose it
only unmounts. `view` is what the tab shows: the last `MaxLines` lines, without
those that came while it was paused, or the newest sample. The connection's states
are those of `HubConnection`; the library's part of the actions is external.
`heard` is history: what the container on display sent since the tab turned to
it. The first line of a tab is its number 1, whichever container it comes from;
`from` tells them apart.

### QueryCache

What an engine holds is a version number: it grows with every change by anybody
and with every switch, and the data of a query is the version its answer was
made from. A query is fetched when it comes on display and is stale (`Go`), by
its poll (`Poll`), on focus (`GainFocus`), by the top bar (`RefreshAll`) and when
a mutation invalidates it (`Acknowledge`). `Joined`, `Restarts`, `Retry`, `Fail` and
`Collect` are react-query's part: a query has one request at a time, asking again
joins it, an invalidation starts the request of an active query with data anew,
the first failure is retried (`App.tsx`) unless everybody left, and the entry of a
query without observers is collected. A mutation that changed the engine may be
answered with an error (`Apply`, second case): a container created and not
started, a switch whose ping fails, a lost answer.

`owed` is history: the newest change that this browser was told had succeeded
and that the list still has to show. It excepts an invalidation that meets a
first load, or a request of a page that was left (`Crosses`): react-query lets
that request finish and takes its older answer for new. The pages cannot see it
and no code of theirs says otherwise.

### Console and its pages

Every dialog is a record of its draft and what it is about; a step is one event of
the user or one answer. `pending` is `isPending` of the mutation objects, `sent`
the request of the last step. `mutate()` with callbacks reports the newest call of its object
only, so the row buttons of `ContainersPage`, which share one object and stay
enabled, overtake each other. Leaving a page (`Go`) unmounts it: its drafts and
callbacks are gone, and what it had sent goes on unheard. A late answer closes
whatever dialog of its kind is open by then (`RemoveAnswered`, `TagSucceeds`,
`ContainerCreated`). Escape reaches every open dialog. Texts are model values: what
matters of a field is whether it is blank and where it goes. In
`CreateContainerModal` a port is the text of a number, a text that `Number` turns
into `NaN`, or blank; `NaN` is `null` in JSON. `NumberOf` is what `Number` makes of a
text: several texts may be one number, and a number need not be an int (`Ints`), which
makes the server refuse the form.

### SettingsForm

`current` is the manager's connection; a save goes through `sent`, `switched`, `read`
to `ok` or `unreachable`, or to `refused`, with the steps of `SettingsController` in
between, and other clients of the API switch at any moment, also to modes given by a
numeral, which the page takes over though its list does not offer them. `get` is the query's request
and `cached` its data; `GetArrives` fills the form only if the data differs, because
react-query keeps the identity of equal data and the effect depends on it.
`UriOf` makes the GET answer a URI where the user typed a spelling of it. `told`
is history: the connection the user was told is saved, as long as nothing else
happened.

## 3. What is checked

| Run | Instance | Shows |
|---|---|---|
| `manager` | 2 requests, one operation for each number of calls, checked or not, bounded or not, 10 bodies, shutdown | `Inductive`, `ActiveClientUsable`, `NeverDisposedTwice`, `NoClientLeaked`, `DisposedOnlyBySwitch`, `ReportsAnActiveConnection`, `UpdateStatusTellsSwitch`, `CallsGoToActiveClients`, `CallsMoveForward`, `EveryRequestAnswered`, `KeepsPromise` (refinement of `ActiveConnection`) |
| `stats` | buffer 2, 4 samples | `CallEndsStream`, `EverySampleAccounted`, `OrderedUnlessOvertaken`, `NormalEndDrains`, `CancelEndsStream`, `EverySampleSettles` |
| `figures` | 2 CPUs, disks and interfaces, 3 ticks, one restart, every style | `SharesAreTrue`, `TrafficIsTheEngines` |
| `logs` | up to 4 bytes on 2 streams, buffer 3 | `ChunksInvisible`, `EndDeliversAll`, `CancelEnds`, `LinesArrive` |
| `sessions` | 2 tabs, 1 login, 1 restart, every deployment | `RestartKeepsSessions`, `DeadSessionReachesLogin` |
| `monitor` | 2 effects, 4 items, 2 lines | `ViewOfShownContainer`, `InterruptionShown`, `DisposedComesToRest`, `WaitingEnds` |
| `cache` | the dashboard and the images page, one hook, 2 versions | `ListShowsOwnChanges`, `NeverBlank`, `KeepsView` (refinement of `EventualView`) |
| `pages` | four pages, 2 images, 2 networks, one volume and container, 2 rows of the form, two spellings of a port | `TypeOK`, `ForceIsTicked`, `ServicesAccept`, `RowsReachEngine` |
| `form` | a local and a remote engine, two spellings, one certificate, a numeral mode | `UntouchedSaveKeeps`, `SavedIsShown` |

Type invariants are conjuncts of the inductive invariants of section 4; the run
`pages` checks its own by name. Every property has a mutant: a
variant of one definition, written next to it and named for the mistake, under
which the run reports the property violated.

**Bounds.**

- `manager`: two requests are a switch and a bystander, a switch between the two
  calls of another request, or two switches. Everything proved in section 4 holds
  for any number, so the run need not be larger. The operations are one for each
  number of calls, with and without a check of the arguments, with and without the
  default timeout; ten bodies are one for each outcome of `Refused` and
  `BuildFault`, two spellings of one URI among them.
- `stats`: with a buffer of two, four samples overflow it twice.
- `figures`: a restart between two samples, two samples in one tick and a share of
  several CPUs need no more; words of 16 values (`Half` is 8) hold every difference of
  the counters.
- `logs`: four bytes hold two line feeds, a carriage return and a rest, cut in all
  ways.
- `sessions`: two tabs share the token of one login, which the other tab may drop,
  a restart or its age may kill, and a reload may find; two logins, which a token
  replaced under a call needs, are in the run `stale`.
- `monitor`: an effect and the one that cleans it up are all that two connections
  need to meet; four items fill a view of two lines twice.
- `cache`: a polled and an unpolled list on two pages, and a mutation on one of them
  that invalidates both, are what lists can do to each other; of the versions only
  the order of two matters.
- `pages`: two images tell the dialogs of two objects apart; two rows may be for the
  same port in two spellings and disagree on the host port, or one of them has a number
  that is no int. There is one restart policy: it is passed on as it is, and
  the theorem holds for all of them.
- `form`: the endpoints are one of each kind: equal to its URI, another spelling of
  it, no URI, blank; others switch to both modes and to one given by a numeral.

**Deadlock.** Requests are handled once, streams end, effects and versions are
bounded, and a page without a user stands still: in those runs the system really
stops and `CHECK_DEADLOCK` is off. The session runs check it.

**Fairness.** `ConnectionManager`: weak fairness of each request's handler, since
the pool runs it and `DefaultTimeout` bounds the wait for an engine. It does not for
the operations in `Unbounded` (the logs of a container, pull, load, stop, restart),
which Docker.DotNet sends without a timeout, and the browser has none either: while
such a call is under way (`Waits`) nothing is assumed, and `EveryRequestAnswered` says
no more than that the request is answered or waits there. No request
has to arrive and no shutdown to come. `StatsStream`: tasks, callbacks and the
reader run, and a call whose token is cancelled returns; the engine need not
send, end or fail, and a call need not notice that its client was disposed.
`LogStream`: the hub pulls and the method runs on between two awaits; a read may take
for ever while the container is silent, until its token is cancelled.
`AuthSession`: the shell polls, navigations finish, and, strongly fair, a call is
answered and its callback runs in spite of reloads; nobody has to log in. (The poll
is paused in a hidden tab: what is said of a dead session is about tabs that are looked at.)
`MonitorSubscription`: a start ends somehow, callbacks run, a stop takes effect,
the hub takes up calls and cancellations, and statistics keep coming; a container
need not log anything. `QueryCache`: the poll's timer fires; strongly fair, a
request that is made again and again is served and answered some time, which is
what keeping up with an engine means; nobody has to visit a page or come back to
the window. `SettingsForm`: a GET under way is read and, unless it fails, answered.
`Console` has safety properties only.

### Where the code departs from what it says

| Run | What the code says | What happens |
|---|---|---|
| `utf8` | `IStatsService.cs:11` "Streams log lines for a container" | a character cut by a chunk boundary is lost |
| `stale` | `api.ts:39` "drop the stale token" | the late 401 of a call with an expired token drops the token of a newer login |
| `saved` | `SettingsPage.tsx:69` "Saved but engine unreachable." | `PingAsync` returns true or throws, so the answer for that text never comes: the page says "Save failed" although the server has switched |

Smaller disagreements are in the models without a run of their own:

- `SettingsController.cs:72` logs "Ping failed after switching to {Endpoint}" with the
  endpoint read before the ping; a second switch in between makes the ping ask
  another engine.
- `api.ts:39` says "drop the stale token", and the 401 of a Docker engine, which
  `MapApiException` passes on (`DockerExceptionMiddleware.cs:93`), drops one that is
  current and good (`engine401` in `AuthSession`).
- `SettingsController.cs:44` says "Use 'Local' or 'Remote'.", and numbers pass
  `Enum.TryParse`; the mode is then neither (`Numbered`).
- The channel of `StreamStatsAsync` is created with `SingleWriter = true`, and
  `mapping` can hold two callbacks at once.
- `signalr.ts:34` says "Returns a disposer."; the start that a dispose and stop
  interrupted still calls `handlers.error` (`StartFails`), and the view of the next
  effect says "interrupted".
- The streams are documented to run "until cancelled", and `EngineEnds` ends them
  when the container stops.

## 4. What is proved

Each proof module states an inductive invariant, proves that the initial states
meet it and that every action keeps it, one lemma per action or group of
actions, and derives the properties. The theorems hold for every value of the
constants that meets the named assumptions of the modules; these say no more
than what the code has: the absent value is no value, blank texts are no
objects, capacities are positive, routes and forms have the items they name.

| Theorem | Property | Rests on |
|---|---|---|
| `Invariance`, `Typing` | `Inductive`, `TypeOK` | `OptionsAssumption`, `ManagerAssumption`: the manager was constructed |
| `ActiveUsable`, `DisposedOnce`, `NoLeak` | `ActiveClientUsable`, `NeverDisposedTwice`, `NoClientLeaked` | `Inductive` |
| `DisposedFaultExplained`, `ReportsHonestly`, `CallsAreCurrent`, `StatusTellsSwitch` | what requests may observe | `Inductive` |
| `CallsInOrder` | `CallsMoveForward` | `Inductive` |
| `ImplementsPromise` | `Promise!Safety`, the refinement of `ActiveConnection` | `Inductive` |
| `StreamInvariance` of `Statistics_proofs` | `StreamInv`, `TypeOK` among it | `StreamAssumption` |
| `SamplesAccounted`, `SamplesInOrder`, `EndsDrained` | `EverySampleAccounted`, `OrderedUnlessOvertaken`, `NormalEndDrains` | `StreamInv` |
| `SharesTrue`, `TrafficTrue` | `SharesAreTrue`, `TrafficIsTheEngines` | `MappingAssumption`; `FiguresInv` |
| `StreamTyping` | `TypeOK` of `LogStream` | `LogAssumption` |
| `StreamInvariance` of `LogStream_proofs`, `LinesAreTheOutputs`, `NothingIsLeftBehind` | `ChunksInvisible`, `EndDeliversAll` | `LogAssumption`, and `SingleByte`: no character is longer than a byte |
| `SessionInvariance`, `SessionsSurvive` | `RestartKeepsSessions` | `AuthAssumption` |
| `MonitorInvariance`, `ShowsItsContainer`, `InterruptionIsShown` | `ViewOfShownContainer`, `InterruptionShown` | the bounds are positive |
| `CacheInvariance`, `PagesNeverBlank`, `OwnChangesShown` | `NeverBlank`, `ListShowsOwnChanges` | the pages' queries are queries |
| `ImplementsView` | `View!ViewSafety`, the refinement of `EventualView` | `CacheInv` |
| `FormInvariance`, `UntouchedSaves` | `UntouchedSaveKeeps` | `OptionsAssumption`, `FormAssumption` |
| `ConsoleInvariance`, `ForceIsUsers`, `ServicesAreContent` | `ForceIsTicked`, `ServicesAccept` | `ImagesAssumption`, `ConsoleAssumption` |
| `ConsoleTyping`, `FormReachesEngine` | `TypeOK`, `RowsReachEngine` | `TextAssumption`, `FormAssumption`, `ConsoleAssumption` |

**Manager.** That the active client is not disposed is not inductive: `Retire`
disposes whatever `replaced` names, so one must know that it is not the active
client, that no two updates hold the same one and that it has not been disposed
(`RetireInv`); for that, that a client not yet swapped in is unknown to
everybody (`FreshInv`), that the two fields agree and the active client is
disposed exactly when the manager is closed (`ManagerInv`), and that nothing that
was never built is disposed (`DisposalInv`). What requests observe needs to know
what each carries at each point of its handler (`HandlerInv`) and that the window
contains everything it has read (`WindowInv`). `Inductive` is the conjunction,
checked by TLC in `manager` as well. `CallStep` is for the actions that touch no
client, then `ArriveStep`, `BuildStep`, `SwapStep`, `RetireStep`, `DisposeStep`;
`FinishFrame` and `ThrowFrame` say what an answer changes. That calls move
forward, and that a ping and the connection reported with it are in the order of
their reading, needs one thing more: nothing a request can have seen is newer than
the active client (`TurnInv`).

**Statistics.** That no sample is in two places (`EverySampleAccounted`) is a
count, and a count is kept only because the places are disjoint (`Apart`). Order
needs, besides what was delivered, that the queue rises and that nothing dropped
or delivered is newer than it (`InOrder`); the end needs that the reader leaves
its loop only with an empty channel (`Drained`).

**Statistics arithmetic.** The figures are those of one sample; the invariant is about
the counters it is made from (`FiguresInv`). A share of more than all CPUs needs that
the container's time grew by more than the host's since the sample before, so
`CpuCounted` says that it never does - also not when the counters went back to
zero, for then the difference only falls - and that for a container that ran
through, the two differences are `since.busy` and `Cpus` times `since.ticks`.
`CpuShare` then needs that `Hundredths` keeps within its bounds (`HundredthsRange`) and that a
common factor, here the number of CPUs, cancels, the tie to the even included
(`HundredthsCancelled`). For the traffic, `BytesCounted` keeps each counter
below `Half`, where the cast is harmless; that a sum does not depend on the order
in which the fold takes its elements is proved by induction over finite
subsets (`SumRecursion`, `SumTakes`), and `SumReindexed` maps the disks to the
entries whose names count (`EntriesThatCount`).

**Logs.** `ChunksInvisible` compares the lines handed out with `Split` of all that was
read, so a read has to be reasoned about as an append of whole chunks. `SplitAtLast`
says that a text's pieces are those up to its last line feed and the rest;
`DrainedStep` and `DrainedConcat` build on it: to drain a text and then the rest with
more after it is to drain both at once. `GetStringConcat` is the same for
decoding, and here the hypothesis comes in: a chunk decoded alone is the piece of
the output decoded only if no character is cut. That is not an omission of the
proof: with the two-byte characters of the run `utf8` TLC finds `ChunksInvisible`
violated too. `StreamTyping`
does not need it.

**Sessions.** Tokens in the slot, in calls and in logins under way are ones that
were issued (`KnownTokens`), and as long as no cause of a refusal occurred, every
call under way is one the server accepts (`CallsAccepted`).

**Live view.** Effects are numbered as they run, the last is the current one
(`Numbered`, `LastIsCurrent`), only a tab that is on display has one (`OnTab`), a
disposed effect's subscription is deaf (`DisposedIsDeaf`) and only logs pause
(`LogsPause`). With these, that the view is the newest part of what was heard
(`ViewMatches`) survives an item, since the newest of a longer sequence are the
newest of its own newest (`MatchesNext`).

**Lists.** No data and no request is newer than the engine (`Versions`); a query
without data that is on display has a request or an error (`Waiting`); and what
is owed is to be had from the request that is under way, or else the list is no
longer at rest (`Owing`). `ViewStep` maps each step to one of `EventualView`.

**Settings.** Every connection that anybody holds is one that `Build` accepts
(`AllUsable`), and an untouched form shows what is cached (`UntouchedShows`);
`ShownLeadsBack` then follows a filled form through the body, `BuildOptions` and
`Build` for the modes that have a name; for a numeral the body has no endpoint
and `Build` refuses it (`NumeralLeadsNowhere`).

**Pages.** A removal's dialog is about an image or nothing (`RemovalTyped`) and
the tick, if there is one, is for that image (`TicksAreShown`). What was sent is a
function of them (`SentWell`), page by page. `RowsReachEngine` follows from the types
alone, since a create request is that of the form on display: `WithoutLaw` says
that what is left of the rows is in their order and complete, `BindingsLaw` that a fold
over the ports leaves each with the last row that has a host port, and
`CreateRequestReaches` puts them together. The types are proved page by page
(`ImagesTypes` to `ContainersTypes`), with `EditTypes` for the form.

**Recursion.** The library's induction theorems take an operator as a parameter, which
the provers cannot instantiate. Where a recursive function or a fold has to be
followed to its end, the induction is over a set of numbers, finite sets or
sequences (`SetInduction`, `SubsetInduction`, `SeqInduction`): the numbers are
well-founded, so a set of them that contains zero and successors is all of
them. That a recursive function exists at all is proved first (`SumsExist`,
`CutsUpExists`, `DecodesUpExists`, `FiltersExists`, `BindsExists`).

Only model-checked: all liveness properties (`EveryRequestAnswered`, `CallEndsStream`, `CancelEndsStream`,
`EverySampleSettles`, `CancelEnds`, `LinesArrive`, `DeadSessionReachesLogin`,
`DisposedComesToRest`, `WaitingEnds`, `SavedIsShown`) and the fair halves of
`KeepsPromise` and `KeepsView`, since liveness and `ENABLED` are out of the prover's
reach. Every safety property that a passing run checks is a theorem; of `LogStream`
two are so for outputs of single-byte characters only.

## 5. Plan

Models still to be written: the life of an engine's containers under the six
actions, remove and prune; the timers of the toasts.

Not modelled, and why:

- What rows, cards and the inspect tab show; formatting; layout and style; scrolling
  of the Logs tab: display.
- Certificates handed to `HttpClient`, the certificate's password, packaging: no
  state.
- `GET /auth/me` and `usePruneContainers`: nobody calls them.
- In the models: React's rendering between two events is immediate; react-query's
  pause while the browser is offline is left out; `QueryCache` has one call of a hook
  at a time, and `SettingsForm` does not leave the page during a save.
