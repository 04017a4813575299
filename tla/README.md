# A verification of os2mo-fkk

os2mo-fkk copies KLE numbers from *Fælleskommunalt Klassifikationssystem* (FKK)
to OS2mo (MO), one way. This directory holds TLA+ models of it, TLC
configurations that check them on small instances, and proofs checked by TLAPS.

## The system

| part | source (under `src/os2mo_fkk/`) | state | operations |
|---|---|---|---|
| `sync()` | `events.py` | locals of each execution | read Klasse, read class, read facet, compare; delete, or create/truncate and update |
| AMQP handlers | `events.py:30-41`, `config.py:20-34` | one queue each, prefetch 1 | take a message, run `sync()`, acknowledge or give back |
| HTTP API | `api.py` | none | `POST /sync/{uuid}` runs `sync()`, without waiting for the handlers; three reads |
| conversions | `models.py` | none | Klasse → class validities, MO class → class validities, truncation to dates, MO inputs |
| event generator | `klassifikation/event_generator.py` | `last_run` in the database, the scheduler task | poll FKK, publish UUIDs, record the time |
| FKK client | `klassifikation/api.py`, `klassifikation/models.py` | cached SAML token | search (paged), read, fetch token, parse |
| MO client | `autogenerated_graphql_client/` | none | two queries, four mutations, errors raised |
| application | `app.py` | lifespan of the parts | start order 500, MO AMQP, 1100, 1200, stop in reverse; metric |
| settings | `config.py` | none | queues with prefetch 1, timeouts, intervals, certificate |

A Klasse that changes in FKK is found by the next poll of the event generator,
which publishes its UUID on the exchange `fkk`. `fkk_handler` takes it and runs
`sync()`. Every mutation of a class, by `sync()` or by a user, makes MO publish
the UUID on the exchange `os2mo`; `mo_handler` takes that and runs `sync()` too.
So a class that a user spoils is repaired, and every write of the integration
is looked at once more. Nothing keeps the handlers and the HTTP requests from
working on one UUID at the same time.

What is hard about this code:

* `sync()` decides on three reads and acts through several mutations, with
  other executions, FKK and users in between; MO has no transaction over them.
* A call may fail when the class has been truncated and not yet rebuilt, and a
  mutation whose answer was lost may still be carried out, after the retry.
* Events lead to writes and writes to events. The system comes to rest only if
  the comparison after a write finds equality: through truncation to dates, MO's
  day resolution, its end dates that are read one day early, and summer time.
* All callers of FKK share one token, which may be fetched twice at once, expire on
  the way, or be no token at all; the time in an envelope is older than the wait
  for its token, and a call may last longer than the envelope is good for.
* "There is none" and "something went wrong" are two layers of one answer apart; the
  first has a class deleted, or ends a poll.
* The parts start and stop in an order that handlers and runs under way must survive.
* The poll asks for pages of results that change meanwhile, with a timestamp
  rounded to milliseconds, and must not move past a registration it did not tell
  of, whatever fails.

`PROJECT.json` lists the hazards line by line with the properties aimed at them.

## Modules

| module | models |
|---|---|
| `Sync` | `sync()`, both handlers, `POST /sync`, MO's API and events, failures |
| `Mirror` | what `Sync` promises, without saying how |
| `SyncProofs`, `SyncActionProofs` | theorems about its invariants, its action properties, and that it implements `Mirror` |
| `ClassValidities` | `models.py`, and the comparison in `sync()` as one step |
| `ConversionProofs` | theorems about the conversion |
| `EventGenerator` | `event_generator.py`, `_search()`, `get_changed_uuids()` |
| `EventGeneratorProofs` | theorems about the poll |
| `FKKClient` | `_get_token()`, `_fetch_token()`, `_request()` of concurrent callers |
| `FKKClientProofs` | theorems about tokens |
| `Answers` | answers of FKK and MO from the wire to a decision, `api.py` |
| `Remote` | what `Answers` promises |
| `AnswersProofs` | `Answers` implements `Remote` |
| `Lifespan` | `app.py`, start and stop of the event generator and the FKK client |
| `LifespanProofs` | theorems about starts and stops |
| `Wire` | `parse_klasse()`, the inputs of mutations, the reading of `get_class` |
| `WireProofs` | theorems about documents and inputs |
| `MCSync`, `MCClassValidities`, `MCEventGenerator`, `MCWire` | values for TLC |

The components meet in few places, and a module takes what another one has
established: `Sync` has a Klasse as its set of disjoint validities
(`ClassValidities`, `DesiredDisjoint`), publishes what changed in one step
(`EventGenerator`, `NoLostChange` and `EventuallyNotified`), and reads FKK and MO
in one step that says what they held or fails (`Answers`, `TruthOrError`). A call
of `Answers` is one of `FKKClient` as far as FKK is concerned. `Lifespan` takes all
of them together, each with the little state that starting and stopping concerns.

### Sync

Workers are the two handlers and the requests. `pc[w]` names the call worker `w`
makes next; one action runs from one `await` to the next, which is what asyncio
makes atomic. `klasse`, `moClass` and `desired` are the locals of `sync()`,
`queue` the AMQP queues, `unpublished` the UUIDs that changed in FKK and have not
been published, `late` the mutations MO may still carry out for a caller that has
given up. A Klasse is the set of class validities it converts to (disjoint, all
under `kle_number`); that this is so is checked in `ClassValidities`. Not every
Klasse goes through the conversion and back unharmed, and `Sync` has both ways of
failing as constants: a `Faulty` Klasse makes its conversion raise, as does a class
in MO with an `Unreadable` validity (`Raises`), and `Stored(v)` is what MO returns for
a validity `v` written to it. `raced` and `related` are history variables for two
properties.

* `Take`, `PostSync`: a handler or a request enters `sync()`.
* `ReadFKK`, `ReadMO`: the first two reads. `Decide`: the answer of `get_facet`
  arrives and everything up to the next call happens: nothing to do, won't
  delete, or which mutation comes first. `Unconverted`: one of the conversions raises
  there, and the message goes back.
* `DeleteClass`, `CreateClass`, `TruncateClass`, `UpdateClass`: MO carries the
  mutation out, an event is queued, and `sync()` goes on or returns. Which
  validity is written next is arbitrary, since `desired` is a Python set.
* `Refused`: MO answers with errors. `Fail`: a call raises; a mutation may be left
  in `late`. `Crash`: all executions are lost. In all three the handlers' messages
  return to their queues, and requests are answered with an error.
* `ApplyLate`, `FKKChange`, `Publish`, `Duplicate`, `UserEdit`: the surroundings.

What is assumed of MO, which is not in this repository: a mutation is atomic and
makes it publish the UUID after it; `class_update` replaces what overlaps with the
new validity; updating, terminating or deleting a class that is not there is an
error, and creating one that is there is a write. Of the broker: it does not lose
messages. Queues are sets: two messages with the same UUID are one, and their
order is arbitrary.

`Converges` is stated for the time when every UUID `Settles`, that is when what FKK and
MO hold for it converts and `Stored` leaves the Klasse as it is, whatever happened
before: a Klasse with a gap is requeued for ever (`FailsOnGapsOnly`), and one that is
not read back as it was written is written for ever (`loop_on_summer_time`).
`TruthfulAnswer` excludes requests whose class somebody else wrote meanwhile, since
what they leave is up to the others, and is about what MO keeps, `Stored` and all.
`UnrelatedUntouched` is about UUIDs that never had to do with FKK or `kle_number`.

At the start MO has none of the classes, and all that FKK has is unpublished
(there is no `last_run`). Klasser FKK deleted before the first poll are not
covered, and FKK's search is taken to report a deletion like any registration.

### ClassValidities

An instant is an integer and `Offset(t)` the UTC offset in force, so the same
definitions serve calendars without and with a change of the offset. A tick is a
fraction of a day. The lists of a Klasse are sets of elements with `fra`, `til`,
a value and their place in the list, so that `one()` and `only()` see two elements
that are otherwise equal. `ClassValidities(k)` follows `fkk_klasse_to_class_validities()`
(timestamps, pairs of neighbours, elements in each interval), `Converts(k)` says
when it does not raise, `Desired(k)` is what `sync()` keeps.

MO keeps dates, and returns as an end the beginning of the date before (`MORead`).
`Reads` is the assertion of `models.py:167` on such an end, `DayLater` the day that
`models.py:168` adds to it: to its wall clock, in the zone the datetime has. Which
zone that is depends on the function that turns MO's text into a datetime, which is
not in this repository, so both readings are modelled: with `KeepsOffset` the datetime
has the offset it was sent with, and a day is 24 hours; without, it has the time zone
of Denmark, and a day is one on the calendar. `Returning(k)` says of a Klasse when
what MO does to its ends can be undone: the date before an end begins at midnight,
and, with `KeepsOffset`, has the offset of the end there. So with `KeepsOffset` a Klasse
that ends on the date after a change of the clocks is written again with every event.
`klasse_conversion` has the time zone; the theorems hold for both, and the run also
passes with `KeepsOffset = TRUE`.

`DatesAssumption` is what is assumed of a calendar: dates never go back, the clocks
are not put back to a midnight, offsets differ by less than a day, and there is one
change at most within two days. The law's summer time (02:00 to 03:00 and back, half
a year apart) has all of this, and so have the tables for Copenhagen since 1890, except
that a time zone database which gives Denmark the clocks of Berlin before 1980 puts
them back from 01:00 to 00:00 on 1 October 1916.

### EventGenerator

`StartRun`, `Search` (one page), `Publish` (one message), `Commit` are the awaits
of `_generate()`; `Fail` is an exception at any of them, after which the publish
tasks already started go on (`stragglers`), and `Crash` a restart. `registered`
and `version` say when and how often FKK registered a Klasse, `notified` which
version the last message about it leads `sync()` to read at least.

FKK is assumed to list its results in an order that does not change, and its clock
not to be behind ours (`Ahead`). The code has no provision for either.

### Mirror

The promise: a UUID on which FKK and MO disagree is `dirty`, and it ceases to be
dirty only in a step in which they agree. `Sync` implements it with the UUIDs that
are unpublished, queued, or attended to by a handler whose snapshot is current.

### FKKClient

A caller that wants an answer (`work`) is `idle`, waits for a token (`fetch`), for
FKK to take its envelope (`sent`), or for the rest of the answer (`accepted`).
`AskWithCached`, `AskAndFetch` and `AskInVain` are the three ways `_get_token()`
begins: a valid token, none or one that has expired, or a document in the cache in
which `_find()` finds no lifetime, or no `Assertion`. `TakeToken` caches what the
token service sent and posts the envelope with it, without another look at its
lifetime. `Post` and the copy of the token are one step since nothing is awaited
between them. Time is what is left of a token (`left`), what has passed since the
envelope's timestamp was taken (`age`, which stops at `Window`) and since the
present wait began (`waited`), so that it needs no bound. httpx limits a wait, not a
call: a place in the pool, the connection, the writing and each part of the answer
may each take the timeout, 300 seconds or httpx's default for a token. So a request
has up to `MaxWaits` waits (`NextWait`), and an envelope may well be stale when it
arrives: FKK, whose clock is `Ahead` of ours, refuses it (`Accepts`, `Rejected`),
and who calls again sends another one. `FKKClientAssumption` only asks that a token
lasts for all the waits of a fetch and a request; the bound `MaxWaits` is the
model's, for nothing in the code limits the number of parts an answer comes in.

### Answers and Remote

A job is an endpoint, a `sync()` or a page of a poll, and `Calls` the calls it awaits
in their order. An answer has four layers, each of which may be broken on its own:
the HTTP status, the document, the status or errors in it, and the content. The
operators that read it follow the code: `ReadRaw`, `Read`, `Search`, `GetData`,
`ReadMO`, each with the exceptions that the code raises there. FKK and MO may change between
any two steps. `Remote` promises that a call raises or tells what the service held
at some moment since it was asked (`seen`). A list of UUIDs is assumed not to be
damaged below its status: the code would take it for an empty one. `GET raw` may
pass on a damaged document, and `Told` maps that to having been told nothing.

### Lifespan

`Boot`, `EnterClient`, `DeclareExchange`, `Consume`, `EnterGenerator`, `Started` is
the start, `LeaveGenerator`, `LeaveSystem`, `LeaveClient`, `Stopped` the stop, in
the order of `Priority`, the numbers of `app.py`. `Stop` may come at any moment,
also in the middle of the start, as a manager that fails to start makes it; `Crash`
at any moment. A handler (`Deliver`, `ReadFKK`, `Return`, `Raise`) goes on while its
AMQP system closes, and its message is then delivered again. A run of the event
generator (`StartRun`, `Search`, `Publish`, `Record`, `FailRun`) is abstracted to
what its search finds (`unrecorded`), and what is registered during the run
(`recent`). FastRAMQPI and the broker are external: a queue lasts once it is
declared, and an exchange drops what no queue is bound for. A client that is used
before it is entered is `open`, which makes `__aenter__()` raise.

### Wire

An XML element is a record of the elements below it; one with a text also says
whether the text is there and is what is expected (`state`), and whether it has
whitespace around it. `Document(k, padded)` is what FKK answers for the Klasse `k`;
`Garble` breaks one part of it, any that `BrokenDocument` names, and `Pad` adds
whitespace. `ParseKlasse` and the operators above it follow
`klassifikation/models.py`, including the indicator of infinity that is compared
without `strip()`; each is the set of what the function returns, which is empty if it
raises. `Input` and `ClassRead` are the way to MO and back, where infinity is
null and is recognised by identity (`is`). `_findtext()` raises on an element without
text, and strips the others, so a blank text is read as the empty one: a UUID, a time
or a boolean then raises, but a user key or a title is written to MO as empty
(`Blanked`). Whole elements of a list are assumed not
to be lost: `findall()` takes them for not being there.

## Runs

| run | question | result |
|---|---|---|
| `sync_races` | does a request whose class nobody else wrote meanwhile report success for a class it did not rebuild? is a class touched that was never related to FKK or `kle_number`? | no; no |
| `sync_faults` | is a UUID forgotten after a failure, a late mutation, a duplicate or a restart? does `Sync` implement `Mirror`? does it come to rest, with MO mirroring FKK, once every Klasse converts and is read back as written? | no; yes; yes |
| `klasse_conversion` | does the split say what the Klasse says, at each instant and on each date, when does it fail, and does a second `sync()` find nothing to do, without raising? | holds |
| `poll` | does a registration fall between two runs? is each published in the end? | no; yes |
| `fkk_client` | is an expired token put in an envelope, or one cached that does not last for a request? does everyone who calls again get an answer? | no; yes, unless the token service answered with something else |
| `answers` | does `Answers` implement `Remote`: is a broken answer taken for one that says something else? | yes; no |
| `lifespan` | does a start, a stop or a crash lose a registration? is the client entered before its users, and left when nothing more is delivered to them? does the process stop, and is every registration dealt with, unless the Klasse is registered yet again? | no; yes; yes |
| `wire` | is a damaged document misread? is a Klasse read, written and read back as it was meant? | only in that a blank user key or title is an empty one; yes |
| `sync_moved_class` | is a class deleted only while it is under `kle_number`? | **no**, see below |
| `loop_on_summer_time` | does a second `sync()` find nothing to do, with times of the day on the day summer time ends? | **no** |
| `long_single_day` | are validities of a single date dropped? | **not** on a day of 25 hours |
| `fkk_client_stray` | is a token fetched if there is none? | **no** |

`klasse_conversion` has its last three properties, `DesiredDisjoint`, `DayShowsItsEnd`
and `SteadyNoSyncLoop`, under the condition `Steady`: no time of the Klasse lies on a
date after the clocks were changed on that date. Such times are what
`loop_on_summer_time` is about, and in spring two validities that meet there may also
overlap by an hour. All other times of the day, on other dates and on these, are
covered, in a year with both changes. `SteadyNoSyncLoop` also has the condition
`Returning`, which holds throughout on this calendar, and with `KeepsOffset` except for
an end on the date after a change of the clocks.

Bounds. `Sync` is checked with one UUID, since executions for different UUIDs meet
only in the queues and in a restart; with both handlers, and with a request where
races matter; with a Klasse that is absent, has one validity or two, so that there
are rebuilds of one and of two writes; with users who delete a class, move it to
another facet, stretch it beyond what FKK says, or give it an end that does not
convert; with one Klasse that raises (`Gap`) and one that is read back a day short
(`Drifting`); and with one change, one edit and one failure, each at any moment.
`sync_races` has no failure and `sync_faults` no request: all of it together is too
many states. `klasse_conversion` takes every combination of attributes, published
states and parents over four instants and both infinities: enough for gaps, overlaps,
neighbours and single days; attributes have seven more instants, around both changes
of the offset, and each list may hold an element twice. A day has four ticks. `poll`
has three Klasser on pages of two, so that a Klasse can move within and across pages
during a run, two ticks to the millisecond, so that rounding matters, and two
registrations of each. `fkk_client` has a handler, which calls again, and a request,
so that two fetches overlap; two waits to a request (`MaxWaits`), each as long as an
envelope is good for, so that envelopes become stale; and one failure (`MaxFaults`)
and one stray answer (`MaxStrays`), as has `fkk_client_stray`. `lifespan` has one
UUID and two stops, crashes or failures, in one of which the other may happen.
`answers` has two Klasser, one of which cannot be parsed, and two objects in MO, so
that `only()` and `one()` see none, one and two. `wire` has every combination of
bounded and unbounded spans, states and parents, and one damage.

Fairness. `Sync` assumes weak fairness of each worker's steps (the event loop runs
a task whose answer has arrived, and each call ends, with an answer or by `Fail`),
of delivery to an idle handler, and of the event generator's publishing, which
`EventuallyNotified` justifies. Requests, users, FKK, failures and late mutations
have none. `EventGenerator` assumes it of the steps of the scheduler loop.
`FKKClient` assumes weak fairness of each caller's steps and of time, and strong
fairness of two steps: of a call that begins while FKK still takes the cached token
(`AskInTime`), without which every attempt of one caller could fall into the last
moments of a token that another has just used, and of an envelope being taken while
it is good (`Accepted`), without which every envelope could take longer than its ten
minutes to arrive. No timeout rules either out; the retry delays, and an FKK that
answers at all, make both incredible. `Lifespan` assumes
weak fairness of starting and stopping (the container is restarted), of the steps of
handlers and of a run, and strong fairness of the delivery of each message, since a
handler is idle again and again rather than for ever. Stops, failures, MO and FKK
have none. `Sync` may stop when there is nothing to do, so deadlock is not checked
there.

## Findings

* **A class can be deleted after it was moved** (`sync_moved_class`). The facet is
  checked on a copy, and `class_delete` names no facet. In the trace a Klasse is written
  under `kle_number` and deleted in FKK, `sync()` decides to delete the class, and a user
  who moves it to another facet before `class_delete` arrives loses it.
* **Summer time brings the loop back** (`loop_on_summer_time`). `truncate_time()`
  keeps the offset of the datetime, so an end at 10:00+01:00 on the day summer time
  ends becomes 00:00+01:00, which is no midnight there. MO keeps the date, what it
  returns is read as 00:00+02:00, and each `sync()` finds a difference, writes, and
  causes the next event.
* **A single day may last 25 hours** (`long_single_day`), and is then not dropped.
* **An answer that is no token stays** (`fkk_client_stray`). `_get_token()` caches what
  the token service answers before anything looks at it. A document without a
  lifetime makes the assertion in `_find()` fail at each later call, before a new
  token would be fetched, until the process is restarted. `AnsweredEventually`
  therefore excepts it.

Three observations without a run of their own:

* `read_raw()` looks for the text of an error under `SoegOutput` (`api.py:449`), which
  an answer to `Laes` does not have: the assertion of `_find()` fails in place of the
  `LookupError`. Every caller treats both alike, and `Answers` has the assertion.
* A title or a user key of nothing but whitespace is written to MO as an empty text
  (`klassifikation/models.py:24-27`); a missing or an empty one raises. `NeverMisread`
  has it as its only exception.
* If FKK's clock is behind ours, a registration made right after a run began may be
  stamped before it and never be found. With `Ahead = -2` in `Poll.cfg`, TLC finds
  this as a violation of `NoLostChange`; the theorem assumes `NotBehind`.

## Proofs

`SyncProofs` proves for every set of UUIDs and requests, every set of Klasser and
edits, and every bound:

* `TypeCorrect`: the type invariant, with the relation of control state and locals.
* `NothingIsForgotten`: the inductive invariant of the synchronisation. For each
  UUID, the systems agree, or it is unpublished or queued, or a handler attends to
  it: it has read nothing yet, or what it has read is still what the systems hold,
  or it is about to write. Agreement alone is not inductive, because a handler that
  has taken the message is the only trace of it; "a handler works on it" would be
  too weak, because it may decide on a stale snapshot. Each action either leaves
  the UUID alone (`OthersAttend`, `HandlersStill`), writes the class and so queues
  an event (`StoreRemembers`), or gives the message back (`RaiseRemembers`).

`SyncActionProofs` proves, under the same assumption:

* `UnrelatedIsUntouched`: the integration leaves foreign classes alone. Its
  invariant `UnrelatedInv` follows what an execution has read: for a UUID that is
  not related, FKK has nothing and the class is foreign, so an execution for it has
  read just that and leaves at its decision; and a late mutation concerns a related
  UUID, since it was once requested.
* `AnswersAreTruthful`: what a successful answer means. `Undisturbed` says, for a
  request whose class nobody else has written, how what MO holds and what is left
  to write make up the Klasse it read: before the loop MO has nothing and all is
  left, in the loop MO has exactly what is not left. A write adds its validity and
  cuts none of the others because those of a Klasse do not overlap (`WrittenAdds`);
  a write of somebody else ends the obligation (`RequestStill`). What MO keeps of a
  validity may differ from it (`Stored`), as long as those of one Klasse stay apart,
  which `SyncAssumption` asks.

It also proves `ImplementsMirror`. A step of `Sync` is one of three
kinds: it writes one UUID, which is then dirty (a change in FKK, an edit, any
mutation); it writes nothing and makes nothing clean (messages taken, given back or
duplicated, reads, a decision to write); or it is a handler's decision to do
nothing, which makes the UUID clean only if its snapshot was current, and then the
systems agree. `PromiseIsEnough` shows that `Mirror` by itself entails that a clean
UUID is one on which the systems agree.

`ConversionProofs` proves, for every Klasse of finitely many elements and every
calendar:

* `SplitsFaithfully`, `FailsOnGaps`: an instant in the span of the Klasse lies between
  two neighbouring timestamps (`PairAround`, with the least of a set of naturals), no
  element begins or ends between neighbours, and so the elements that cover the
  interval are those in force at the instant (`FilteredInForce`). The conversion
  raises exactly if some interval has a wrong number of them.
* `DesiredIsDisjoint`: two different intervals of neighbours do not overlap
  (`PairsApart`), and truncation to midnights is monotone if the Klasse is `Steady`.
  This discharges, for such Klasser, the disjointness that `SyncAssumption` states.
* `ShowsTheEndOfDay`: a time is truncated to a midnight of its own date
  (`SteadyMidnight`), before which all dates are earlier (`BeforeMidnight`); so a date
  reaches the midnight exactly if its last instant reaches the time (`ReachedAtEnd`).
* `NoLoopIfSteady`: a midnight is the instant at which MO's date begins
  (`StoredAsIs`), the date that the instant before it is on is one less (`DateBefore`),
  and a day later than a midnight of that date is the end again (`DayLaterIsEnd`): with
  the time zone of Denmark because no other instant nearby has that wall clock, with an
  offset because `Returning` has it equal. So `sync()` does not raise, and what it reads
  is what was written (`ReadBack`). That each date has one beginning is proved from
  `DatesAssumption` (`DateBegins`, `OneBeginning`).
* `ConversionTypeCorrect`: also for Klasser that are not `Steady`, what MO holds begins
  before it ends. MO moves a truncated time back to the beginning of its date, by
  less than a day whichever way the clocks are changed (`DayBeforeTruncated`), and
  more than a day lies between the two.
* `WithoutClockChanges`: if the offset never changes, `NoSyncLoop` and
  `SingleDaysIgnored` hold without a condition, by either reading of an offset. The
  findings `loop_on_summer_time` and `long_single_day` have no cause but the changes
  of the clocks.

`EventGeneratorProofs` proves `NoChangeIsLost` and `RunsCatchUp` for every set of
UUIDs, order of results, page size and precision, if FKK's clock is not behind
(`NotBehind`). The position of a Klasse in the results of a search only grows while
Klasser are registered, and the positions of those found have no gaps; so whoever was
registered before the run began is found by a page that has been read, or still lies
ahead. The two properties are inductive together, with the order of the clocks
(`Clocks`): the time to be recorded was taken before the search, and rounding takes
it down.

`FKKClientProofs` proves `TokensAreValidWhenSent` and `FetchedTokensSuffice` for any
callers and any times that keep the order stated in `FKKClientAssumption`. Its invariant
`ClientInv` says that a token under way has its lifetime less what was waited for it
(`Lasting`), and that this is at most the waits that are over and the present one
(`WaitsAddUp`), each limited by the timeout in `Tick` (`Timing`); the assumption leaves
enough for the waits of a request (`LeftEnough`). A cached token is looked at when it is
taken, a fetched one need not be.

`LifespanProofs` proves `RegistrationsAreKept`, `NobodyOpensTheClient` and
`ClientOutlasts`. Its invariant `LifeInv` adds to `DueIsKept` which parts are entered
(`Ordered`: those whose priority is below some bound), that an AMQP system consumes
while it is entered and has its queue from then on (`Connected`), that nobody is at
work before the client is entered (`Beginning`), that nothing is entered once it is
closed (`Closed`), and what a run has published, has yet to publish or leaves to the
next one (`Published`). That the queue exists whenever a run publishes follows from
the order of the priorities, so publishing never drops.

`AnswersProofs` proves `TellsTheTruth`: `Answers` implements `Remote`. Its invariant says
that an answer under way is one that may be given to something the service has held
since it was asked (`Witnessed`); the lemmas `KlasseIsMeant`, `SearchIsMeant` and
`ObjectsAreMeant` take each kind of answer through its layers.

`WireProofs` proves `NothingMisread`, `DamageAloneRaises` and `OneWrite` for any
Klasser. Its invariant `WInv` says that the document cannot be parsed, or says what the
Klasse does (`Said`), with a blank user key or title as the empty one, and that the
class in MO is empty or what some such Klasse means, and the present one if it has been
written since that was registered. `DocumentRead` follows an unbroken document through
the parser, `BrokenRead` each broken one: it is not parsed, or is that of a Klasse in
`Blanked` (`BrokenEgenskabRead`). `Compared` is why it holds in a step of `sync()`: the
comparison by value tells whether MO holds what is meant, for times that come from FKK
and times that come from MO alike.

The assumptions are those named `...Assumption` in the modules, which TLC evaluates in
every run, and `NotBehind`.

Model-checked only: what must eventually happen (`Converges`, `EventuallyNotified`,
`AnsweredEventually`, `StopEnds`, `DealtWith`), since the prover has no rules for
fairness. All other properties of the passing runs are theorems.

## Not modelled

* The signature of envelopes and the encryption of the connection; the certificate,
  whose dates are looked at once, when the settings are read.
* Of the generated MO client, the subscriptions over websockets and the input types
  of mutations the program does not send.
* A list of UUIDs, or of the elements of a Klasse, that has lost a part: the code
  cannot tell, and the models assume that it does not occur.
* The rate limit of `fastramqpi` and the order of the queues, hence how a message that
  fails for ever delays the others: neither is in this repository.
* The metric of the last run, a gauge that nothing depends on; the database schema,
  one row, and its migrations, run by hand; dependency injection, which has no
  state; the settings that only name hosts and files.

## Plan

1. `Integration`: `Sync` with `EventGenerator` in place of its `Publish`, both for two
   UUIDs; `Mirror` is the promise of the whole.
2. `HandlerQueue`: a FIFO queue with prefetch 1 and a Klasse that does not convert,
   once it is known where the broker puts a message back.
