# Shanyraq: a verification project

Shanyraq runs housing complexes: a NestJS backend over PostgreSQL and Redis,
a Next.js web client for the staff and an Expo mobile client for residents.
This directory models the parts of it where concurrent calls, stale reads,
lost events and crashes decide whether the program is right, checks the models
with TLC and proves the most important properties with TLAPS.

The backend is many handlers over one database. There is no in-process lock:
every handler is a chain of awaits, any other handler runs between two of them,
and several backend instances may run at once. What keeps the data right is
PostgreSQL (READ COMMITTED transactions, conditional updates, unique indexes)
and the order in which each handler reads, checks, writes and tells. That is
what the models keep. Texts, amounts and layout are left out.

## The system

| Component | State | Operations that change it | What is hard | What makes it correct |
|---|---|---|---|---|
| SOS alerts (`sos`) | alerts; hand-over notes and audit rows about them | trigger, accept, resolve | check-then-create; racing accepts and closures; rows written from stale reads; events after commit | one responsible employee, one closure, one note, a true audit trail |
| Realtime gateway (`realtime`) | sockets in rooms | join, leave, relay | nothing is replayed after a reconnect | clients converge by reloading |
| SOS page (`frontend-web`) | rows on screen, one load request, one socket | load, refresh, events | list and events are unordered | never ahead of the database; misses no alert |
| Service requests | request rows and their history | create, update status or assignee, comment, rate | optimistic lock; a rating outside it | no lost change; a continuous history |
| SLA sweep, booking, meter, finance, voting and property crons | debounce keys in Redis | periodic sends | stale lists; get, send, set in each instance; calls that throw, pushes whose failure is swallowed; expiring keys | a key silences only after every call was made; what stays due is handed on again |
| Bookings | bookings, waitlist entries, resources | book, cancel, join, leave, edit a resource | overlap check and insert; serving a waitlist while people join it | no avoidable double booking; waiters served |
| Votings | meetings, agenda, votes, protocols | create, vote, close | vote against closing; recomputed quorum; owners who change | an area decides once; the quorum is never ahead; closing is final |
| Properties and ownership | buildings, units, ownerships, areas | add, claim, verify, unlink | sum of shares; rows read before they are written; a claim beside a rejection | shares within 100 %; a lost right stays lost; nobody is detached by mistake |
| Meters | meters, readings | submit, review, replace | review without a check of the status; months verified in any order | nothing is billed twice |
| Finance | tariffs, charges, payments, balances | generate, pay, recalculate, void | overlapping recalculations; crash between charges and balances | balance = payments - charges |
| Access control | guest passes, access log | create, revoke, redeem, open | redeem against redeem or revoke | a pass never becomes good again; the log is true |
| Authentication | codes and lockouts in Redis, tokens | request, verify, refresh | counters and expiry | limits hold |
| Chat | conversations, messages | send, open, reply, resolve | resolve against a new message; mark, then list | nothing new is hidden; what is marked as read was shown |
| Community board | listings | create, edit, moderate, archive | edit and archiving against moderation | removed stays removed |
| Notifications | push tokens, preferences | register, prefer, send | merge of preferences; delivery may fail | best effort |
| Announcements, audit log reader, uploads, search, analytics, health | - | inserts and reads | - | - |

Components interact by direct calls (every service calls notifications), by
transactions that write another component's table (closing an SOS alert writes
the shift journal and the audit log), and by events: a service emits on an
in-process EventEmitter after its commit, the gateway relays the event to a
Socket.IO room, and the pages of the clients edit their lists by it.

## Modules

| Module | Models |
|---|---|
| `SosRegistry` | What the SOS service promises: an alert is raised, taken by one employee, closed once by that employee, with its journal note in the same step. |
| `SosAlerts` | `sos.service.ts`, from await to await. |
| `SosBoard` | EXTENDS `SosAlerts`: the gateway's SOS room and the SOS page of one employee. |
| `ServiceRequests` | `service-requests.service.ts`: one request, its history and the cards on the pages. |
| `Bookings` | `bookings.service.ts`: one resource and its waitlist. |
| `Meetings` | `votings.service.ts`: one meeting, its votes, quorum and protocol, while owners change. |
| `Ownership` | `properties.service.ts`: claims to units, their verification and unlinking. |
| `Meters` | `meters.service.ts`: one meter's readings; and what `generateCharges` bills for them. |
| `Accounts` | `finance.service.ts`: charges, payments and the stored balances. |
| `GuestPasses` | `access-control.service.ts`: the life of one guest pass. |
| `Conversations` | `chat.service.ts`: one resident's conversation with the dispatchers. |
| `CommunityBoard` | `community-board.service.ts` and its nightly sweep: one listing. |
| `Records` | The six modules before this line side by side. |
| `Reminders` | The debounce that the six reminding schedulers share. |
| `...Proofs` | Theorems: `SosProofs` (`SosAlerts`, `SosBoard`), `ServiceRequestsProofs`, `BookingsProofs`, `MeetingsProofs`, `AccountsProofs`, `RecordsProofs` (the other records), `RemindersProofs`. |
| `SumTheorems` | Lemmas on sums over finite sets and on greatest numbers, for `MeetingsProofs` and `RecordsProofs`. |
| `MC...` | Finite instances for TLC. |

Each component module has the tables as functions from ids to rows, plus a set
of slots (`Requests`, `Calls`, `Sweeps`) with the handlers in flight. A handler
records where it is (`at`), what it was asked and what it has read (`seen`). An
action is the code from one await to the next; a transaction whose first
statement takes the row lock is one action; one that only reads first is two
(`BookCheck`, `BookInsert`). `Abandon` ends a handler anywhere: the process
died, or a statement failed and its transaction rolled back. Mutated forms of
a definition (`Name_Flaw`) stand in front of it, each a plausible bug of the
code; they are used to see that a property notices the bug, and nowhere else.

### SosAlerts and SosRegistry

`alert`, `handover` and `audit` are the tables `sos_alerts`,
`shift_handover_notes` and `audit_logs`. `trigger` is `TriggerLookup`
(findFirst), `TriggerCreate` (create) and `TriggerAnnounce` (push, event);
`accept` is `AcceptCheck`, then `AcceptCommit` or `Conflict`, then
`NotifyUpdated`; `resolve` likewise with `ResolveCheck` and `ResolveCommit`.
`StillFree` and `StillAsSeen` are the `where` clauses of the two conditional
updates, evaluated when the row lock is held. `Processable` is
`getProcessableAlert`, whose role and tenant checks are the set `Processors`.
A row that does not exist yet is `Unborn`. An instant is recorded as the call
that took it: `acceptedAt` is "never", "acceptance" or "closure".

Refinement mapping: an alert's phase from its status, its taker from
`acceptedBy`, the journal from the authors of `handover`. Everything else in a
handler's life is a stutter of the registry.

### SosBoard

`Relay` appends to `channel` what the gateway emits to the room, if the socket
has joined. `link` is the socket, `load` the request of `loadAlerts`, `board`
the state `alerts` of the page. A new load aborts the previous one, an answer
replaces the board, a failure leaves it. `Disconnect` loses what is under way,
and a reconnect asks for the list before the room is joined, as the page does.
`answer` is the HTTP answer to the employee's own acceptance, which replaces a
row the board has (`handleAccept`); it is ordered neither with the events nor
with the lists.

### ServiceRequests

`row` is the request, `history` its audit rows, `card[s]` what the page of
employee `s` shows. `WebUpdate` passes the check of `expectedUpdatedAt`
against the card; `MobileUpdate` sends no version. `Unchanged` is the
`where: { id, updatedAt }` of the update. `based` is a history variable: the
row a change was based on. `told` is the last push to the resident. The rating
reads (`RateRead`) and writes (`RateCommit`) without the lock. The creator may
be an employee (`service-requests.service.ts:40-58`), whose ratings compare only
the creator (392); so each entry of `history` has a history field `via`, which
tells status changes from ratings, and the properties of the history are about
the former.

The row of an update is read once, and the candidate assignee after it; the
model folds the two reads, because a row that changes between them makes
the conditional update fail. `updatedAt` is a counter: two writes of a row are
taken to fall in different milliseconds, as the lock itself takes them to. Two
commits in one millisecond with a read in between would get past the lock and
are outside the model.

### Bookings

`booking` and `entry` are the tables, `call` the handlers. `checked[b]` (what
stood when `b` was checked) and `offered[e]` (was a push tried) are history
variables, and `broken` says that some handler died. Instants are ticks:
`PerMinute` to a minute, `Day` to a day, so that dropped seconds and nights are
there. `Conflicts` is the overlap query, used by booking and by joining;
`WaitersOf` is the query for the exact slot that was freed; `Queued` is the
unique index. Serving a waitlist is `ListWaiters`, `Offer` (one push, sent or
failed, in any order, since the query has none) and `ClearList`.

### Meetings

`share` is the confirmed part of `unit_ownerships`, which `Unlink` and `Confirm`
change while the meeting runs; `meeting`, `votes` and `protocol` are the tables.
`castVote` is `CheckMeeting`, `CheckOwnership` (then the SMS code, during which
anything may happen), `InsertVote` and `updateMeetingQuorum`, which is
`ReadTally` and `StoreQuorum`; the closing is `ReadMeeting`, `CloseMeeting` and
`StoreProtocol`. `Confirm` is the update of a verification, whose check
(`properties.service.ts:523`) came in an earlier statement; so the shares of a
unit are not kept within 100 percent here. `VotedAreas` is a set: a unit that
voted with two weights counts with the one the query returns first, and the
query has no order. Areas are in hundredths, so that the two roundings are
there.

### Records: Accounts, Meters, Ownership, GuestPasses, Conversations, CommunityBoard

`Records` has an instance of each module, and `scene` says which one moves. No
handler of one reads or writes a table of another, so nothing is lost by
following each by itself, with one exception: the generation of charges reads
the meter. `Accounts` leaves open (`GenerateSkip`) whether a tariff by
consumption is charged, and `Meters` holds the steps that read and bill
readings.

- `Accounts`: a batch is `GenerateStart`, `GenerateOne` for each charge in any
  order, then a recalculation of each affected account; `RecordPayment` is
  followed by one. `recalculateBalance` is `SumPayments`, `SumCharges` and
  `WriteBalance`. A balance is kept as the two sums it is the difference of, so
  that two errors cannot cancel. `raced` and `broken` are history: the last
  recalculation overlapped another, a handler died owing one.
- `Meters`: `reading[p]` is the row of a month, of which there is one by the
  unique index; submitting checks the last verified reading before it writes;
  reviewing looks at no status; billing reads the month's reading and the last
  verified one before it, then inserts. `basis` is history.
- `Ownership`: `own` are the rows, `user` what a resident's row says of the
  complex and the flag. Only the rejection is a transaction, at READ COMMITTED,
  and it looks before it deletes (`RejectLook`, `RejectCommit`). `StillThere`
  is what a statement by id needs. `checked`, `weighed` and `stood` are history:
  the rows that a row's confirmation weighed, each without those confirmed again
  since; the same of a handler; and the claims there were when a rejection began.
- `GuestPasses`: `Status` is `computeGuestPassStatus`; the checks are a read,
  the updates are by id, the audit row comes after them.
- `Conversations`: an opening marks (`MarkRead`) and then lists (`List`); a
  message is inserted and then reopens the conversation; resolving compares
  nothing. Time is counted in messages, and an update carries the clock read
  before it: `OpenRead` and `ResolveRead` take it, `MarkRead` and `ResolveCommit`
  write it. `crossed` is history: the messages that were reopened while a
  resolution with an older clock was on its way. Without it TLC finds a message
  hidden: it is inserted and reopens the conversation between the clock of
  `chat.service.ts:589` and the update (590-597), which then resolves as of
  before the message. `NothingNewIsHidden` excepts exactly these messages, those
  whose handler is still to reopen, and those whose handler died.
- `CommunityBoard`: an edit, a moderation and the sweep each read first and
  write by id later. The audit row follows the removal.

### Reminders

One key of one sweep. `List` is the sweep's query, `LookDue` the `get` of the
key, `Send` and `SendThrows` the call for one recipient, `SetFlag` the `set` with
a time to live, `Expire` its end, `Change` everything that makes the thing due
or not. For the parking alert the query lists every car park, and one with a
free place drops the key (`LookFree`, `Clear`). The six schedulers differ in
their queries and recipients, not in these steps.

`Send` is a call to NotificationsService that returns, which it does as well
when the category is off, no device is registered or the push failed
(`notifications.service.ts:164-187`, 237-260, 356-401); the schedulers look at
no result. `SendThrows` is a call that throws, as a failing query does. So the
properties speak of what was handed on, not of what arrived: `handed` (for whom a
call returned since the key last expired), `tried` (for whom the sweep that set
the key made a call) and a sweep's `made` are history.

## Runs

| Run | Result | Question and answer |
|---|---|---|
| `sos` | holds | One resident, two employees who may process and one who may not, two alerts, three handlers. Whatever interleaves or dies: one responsible employee, one closure, one note, a true audit trail; and `SosRegistry` is implemented. |
| `sos_duplicates` | violated | May one resident have two active alerts? Yes: lookup and create are two statements. |
| `sos_board` | holds | Is the page ever ahead of the database, and does an announced alert appear? Never; and yes, unless the connection breaks. |
| `sos_board_loses_alert` | violated | Does an alert on the board stay there while it is active, once the page is connected and nothing is under way? No: a list evaluated before the alert was raised, and shown after its event, takes it off. |
| `requests` | holds | Does the optimistic lock protect what a change was based on, and does the history explain the request, with ratings outside the lock and a creator who is staff too? Yes, up to the closure below. |
| `requests_silent_close` | violated | Does the history end at the status? No: a rating that read CLOSED closes a reopened request without a row. |
| `bookings` | holds | Are overlapping bookings only due to the check-then-insert race, are booked minutes open, is a freed slot's waitlist served with nobody dropped? Yes. |
| `bookings_forgotten_waiter` | violated | Is everybody who waits for a free slot told? No: only the waiters of exactly the freed slot are. |
| `meetings` | holds | Does an area decide once, although owners change and several vote at once? Is the stored quorum never ahead, and are outcomes final after the closing? Yes, once nothing is under way. |
| `records` | holds | What can go wrong with a balance, a meter, a right, a pass, a conversation, a listing? Only what the properties except: the named races and crashes. Rights, passes and removals never come back otherwise. |
| `chat_window` | violated | Does opening a conversation show its latest messages? No: an answer carries the first hundred. |
| `reminders` | holds | Does a key silence only after a call was made for everyone, is anything handed on twice only by a race, a failure or an old list, is what stays due handed on again and again? Yes. |

The five violated runs check what a comment, a task document or a text of the
client says, quoted in `PROJECT.json` under findings. The double booking race
is a known limitation of tasks/0009; `DoubleBookingOnlyByRace` says that it is
the only way. The properties of `records` named `...OnlyBy...` are of that kind
too: they state an exception that the code has, and that nothing else goes wrong.

### Bounds

- `sos`: three handlers let a third call observe two that race; two alerts let
  one resident's duplicate exist. Handlers, alerts and processors are
  interchangeable (symmetry; the module compares them only for equality).
- `sos_board`: one alert, two handlers and two events under way
  (`MaxChannel`, a guard of `Relay`) are enough for a stale event behind a
  fresh one and a list between them; one answer to an acceptance is under way at a
  time. More events repeat the pattern: the page
  keeps no more than the last row shown. No symmetry, as liveness is checked.
- `requests`: two handlers and four writes (`MaxWrites`, a guard of the two
  commits): enough to reopen, reassign and rate around a stale read. The staff
  is one superadmin with two concurrent calls, who created the request and rates
  it as well: the code compares the caller with nothing but the creator; the
  proofs have no bound on either. The three statuses are the ones the server
  tells apart. The history cannot outgrow the writes.
- `bookings`: two bookings, two entries, two handlers, one resident and one
  guard. The slots are all of the opening hours, one that overlaps it and ends
  inside the closing minute, and one across the night.
- `meetings`: one unit, two owners with any combination of 40 % and
  all of it, more than 100 % together included, one item of each
  kind, two handlers, votes FOR. Both owners can vote at once, and a unit can
  change hands between two votes. The area property speaks of one unit; the
  quorum is a sum over units, each with its own choice of a vote; that it is one
  for any units is proved.
- `records`: two handlers, which is what every race of the properties needs.
  One account pair with a metered tariff, one month, two payments each
  (`MaxPayments`); readings of two months with a third between them; two units
  of one complex, two ownership rows, shares of 60 so that two are too many;
  three entries (`MaxEntries`); a window of two and three messages (`Window`,
  `MaxMessages`), so that one is past the window; three removals
  (`MaxRemovals`). The Max constants are guards of the action that counts.
  Handlers are interchangeable, and so are the people.
- `chat_window`: the conversation of `records` by itself.
- `reminders`: two sweeps and two recipients: one recipient may be reached when
  the other is not, and one sweep may overtake the other. No symmetry.

Deadlock is checked in every run but `records`: there a listing that was taken
down is final, and the other records stop at their bounds.

### Fairness

Safety needs none. `SosBoard` has weak fairness on `Receive` alone: the
browser's event loop hands over what a socket received; people, the network and
the server owe nothing. `Bookings` has weak fairness on `Serve(c)` for each
handler: between its queries a running handler waits for no other handler, and
Node schedules it; that it may die is `Abandon`, which the liveness property
excludes through `broken`. `Reminders` has weak fairness on `Expire` (keys have
a time to live), on `List` (schedules fire again), and on `LookFree` and `Clear`
of a sweep that runs; and strong fairness on looking, sending, finishing and
setting the key: a sweep may die at any of them, time and again, but no step
fails every time it is tried. Of `Send` it asks that the queries of
NotificationsService do not throw every time; a push service that is down for
good is no counterexample, as its failures are swallowed and the call returns.
Nothing is assumed of `SendThrows` or `Fail`, and for one of two recipients no
call may ever return.

## Proofs

The theorems hold for every number of residents, employees, alerts, handlers,
statuses, writes, bookings and slots. They assume only the `ASSUME`s of the
modules: processors are staff, `Nobody` is nobody, the three distinguished
statuses are statuses, a resident has one unit, there is a slot to ask for, the
units of a meeting are finitely many and have an area, shares are percents,
instants are natural numbers and a day is whole minutes, and the bounds are
natural numbers.

`SosProofs`, the service. The safety properties are not inductive: what a commit
writes comes from its handler's context, not from the row. `IInv` adds
`ContextOK`: a handler about to commit acts for a processor, and one about to
close either saw nobody responsible or saw its own user, and then the row still
names that user and the same instant (nobody else can take the alert from it).
It also adds that a row agrees with itself, and the three properties on journal,
audit and taker. `Invariant` proves that `IInv` is an invariant, one lemma per
action that writes a row; `TakerFinal` uses it for the action property; `Refinement`
maps every action to one step of `SosRegistry` or to a stutter.

`ServiceRequestsProofs`. The core of `IInv` is that versions name rows: a
handler or a card whose `updatedAt` equals the row's holds the row itself, and
none is ahead of it. With it a passed lock means that the row is the one read,
which gives `NoLostChange`, `AssigneeStays` and the continuity of the history;
the last entry of a status change names the assignee, whatever ratings add
between. Entries are told apart by `via`, not by who made them, so the creator
may be staff.

`SosProofs`, the page. Every copy of a row, in a handler about to emit, in the
channel, in a list, in an answer or on the board, was the row once. `Behind`
says what a past row still tells of the present one (who raised it, who took it,
and everything once it is closed), and `BehindStays` that no step of the service
ends that; this rests on `IInv` of the service. So the page may mix copies of
any age in any order: `BoardInv`, every copy is behind its row, is inductive and
gives `BoardNeverAhead`.

`BookingsProofs`. A handler acts on rows it read earlier. What makes this
harmless is that rows are never deleted or given another slot (`Lasting`): what
was apart when it was checked stays apart, a slot that was freed stays freed,
and a push that was tried stays tried. `IInv` says so of every handler context
and of the two history variables, and gives `DoubleBookingOnlyByRace`,
`NobodyDroppedUnserved` and `OfferedSlotWasFreed`; `Typed` includes the unique
index of the waitlist. `AllBookable` keeps what the checks of a slot said, and
`BookableIsOpen` draws from it that every whole minute is open
(`BookedMinutesAreOpen`), for any length of a minute and of a day: it rests on
lemmas about quotients and rests (`QuotientIs`, `MinuteWithinHours`) and on the
size of an interval (`MinutesAreRounded`).

`AccountsProofs`. Whether a balance is exact is not inductive: a handler writes
sums it read earlier. `Owed` adds `Alone` (of two recalculations of one account
neither counts as undisturbed) and `Fresh` (an undisturbed one has read current
sums, or some handler still owes the account another). So the write that
leaves nobody owing leaves an exact balance. `NotAhead` is a second
invariant: stored sums and sums in flight never exceed the tables.

`SumTheorems`. The community modules define a sum by a recursion that takes the
summands in the order of CHOOSE. A proof by induction over the set cannot cite
the library's theorems, so each lemma looks at a least subset for which it would
fail (`LeastSubset`, from the well-foundedness of finite subsets): two such
recursions agree (`AddsAgree`), one exists (`AddsExists`), any element may be
taken out first (`SumOfRest`), and more or greater summands have no smaller sum
(`SumOfMore`).

`MeetingsProofs`. `MeetingInvariant` has the types, `Once` (one vote for a unit
and an item, of at most the unit's area), `Sound` of each handler (the votes it
has read are still there) and the quorum itself. `Turnout` is the area that has
voted if each unit counts with its greatest vote: a tally, with whichever vote
it takes, sums to no more (`VotedNotAhead`), the turnout only grows
(`TurnoutGrows`), and rounding keeps the order (`PercentGrows`). Hence a quorum
that is stored late, from old votes, is not ahead. `QuorumNearHalf` says for all
areas what rounding and >= together give away: a quorum may have 49.995 percent
of the area, and never less. `ClosingHolds` proves the nested temporal formula
of `ClosingIsFinal`: `Closed`, completed and nobody left who may vote, is stable
and freezes the votes (`ClosedStays`).

`RecordsProofs`. A step of `Records` is a step of one record or leaves it alone
(`OneRecordSteps`), so each record has its own invariant. `PassInvariant`: a
handler about to admit had read an unused pass. `AuditInvariant`: each audit row
about an entry, and each handler about to write one, stands for an entry of its
own. `MeterInvariant`: what is billed begins at the last of the readings that
were found, which is the highest unless they decrease (`LastIsHighest`; that
there is a last one, `LastExists`, comes from the well-foundedness of finite
subsets, in `SumTheorems`). `BoardInvariant`: a handler
about to edit had read a listing that was not removed then. `Counted`: removals
are audit rows, rows to come and rows lost. `UnitInvariant` and `Sound`: the
rows a rejection will find were alive when it began (`StoodHis`), and what it
found are all of them that still live (`SawOthers`); `RowsAge`, that a row only
gets older and never changes hands, keeps both when others act.
`WeightInvariant`: any confirmed rows of which one of every two weighed the
other fit into the unit. The last of them to be confirmed weighed the others, and
its check left room for it; this gives `OverfullOnlyByRace`. An earlier form
of the property recognised a weighed row by its share; the proof did not get
past a row that is rejected and confirmed anew with the same share, and TLC then
found it false with three rows. Hence the ids in `checked`, and that a row
confirmed again counts as weighed by nobody. `RecordsTyped` is the type
invariant of all records: `BoardTyped` (removals are as many as their rows, so
both keep the bound), `MeterTyped` and `OwnersTyped` say of handlers what their
next step writes. `ConversationTypes` says that nothing is dated or marked ahead
of the messages there are, and that a handler about to reopen has sent a message.
A resolution writes a clock read earlier, so `NothingNewIsHidden` is not
inductive: `OnTheirWay` adds that after the clock of every resolution still to
commit the resident's messages are `Covered` already, each of them `Safe`
(pending, orphaned or crossed). A commit then hides nothing it should not, and
a reopening crosses what it takes out of the pending ones.

`RemindersProofs`. `Remembered` relates what was handed on to the keys: a sweep
that sends alone has handed on nothing for anybody whom a live key remembers
(`Noticed`, `Apart`, `FreshSweep`, `Current`), which gives
`RepeatOnlyByRaceOrFailure`; a key is only set by a sweep whose calls, left and
made, were all the recipients (`Shape`) and of which none is left, which gives
`EveryoneWasTried`.

Every safety and action property of a passing run, and the refinement, is
stated by a theorem. Only model-checked are the liveness properties
`AnnouncedAlertAppears`, `FreedWaitersAreServed` and `DueIsHandedOn`, which rest on
fairness and so are out of the prover's reach.

## What the models leave visible

While the code was translated, these showed up besides the five findings. They
are kept in the models as the code has them; the properties say what holds in
spite of them.

- A vote accepted after the closing read the votes is missing in the protocol
  (`votings.service.ts:195`, 294), and the quorum stored last may have been
  computed from fewer votes (499).
- Exactly half of the area is a quorum (522), where the comment beside the
  threshold and docs/SPECIFICATION.md:24 ask for more than half, and rounding
  admits slightly less; 66.67 percent stands for two thirds, so that exactly two
  thirds fall short (667).
- Two approvals at once can confirm more than 100 percent of a unit
  (`properties.service.ts:523`); a claim moves the resident to the complex of
  the unit before anybody verified it (460); a rejection takes the complex away
  although it may be another one by now (554).
- Readings of later months may be verified below those of earlier ones
  (`meters.service.ts:193`), and a slow resubmission replaces a reading that was
  verified meanwhile (215).
- Recalculations write in any order (`finance.service.ts:571`), and a batch
  that died is not repaired by running it again, which finds the charges there
  and affects no account (351).
- Two guards who read a pass together both admit (`access-control.service.ts:1091`),
  a second revocation replaces who revoked (1003), and a pass that is revoked
  after the guard read it admits (1093).
- An edit or a sweep that read a listing before it was taken down brings it
  back (`community-board.service.ts:202`).
- A staff reply marks messages as read that nobody saw (`chat.service.ts:536`).
- A message that is inserted and reopens the conversation between the clock of a
  resolution (`chat.service.ts:589`) and its update stays hidden behind a resolved
  conversation, which tasks/0068:22-29 set out to prevent.
- A push that failed, or that had no device to go to, is swallowed
  (`notifications.service.ts:356-401`), and the key silences a reminder that nobody
  got, where tasks/0021-scheduled-charge-generation.md:98 sets the key "after a
  successful send". Of several owners, one whose call threw is silenced with the
  others as soon as one call returned.
- An alert raised before the page joined its room, after the list was evaluated,
  is not on the board until the next list (`page.tsx:207`); and a late list, or a
  late answer to an acceptance, can show a closed alert as active until then.

## Not modelled

- Authentication: one-time codes, lockouts and tokens in Redis. The modelled
  services take an authenticated user as given.
- Creating buildings and units with recomputed areas, editing tenants, the
  expense journal, announcements, uploads, the barrier: single writes around
  which no other component decides anything.
- The merge of notification preferences, which two devices can overwrite.
- The pages of the clients other than the SOS page, the mobile client, search,
  analytics, statistics, CSV and PDF: they read and format.
- Tenants and who may enter the socket rooms, roles beyond who may act, the life
  of employees (a dismissed assignee), edits of a bookable resource, comments,
  texts, coordinates, amounts of tariffs.

`PROJECT.json` lists every component with its status, and the hazards at the
line where they bite.

## Plan

Done, in this order: `SosRegistry`, `SosAlerts`, `SosBoard`, `ServiceRequests`,
`Bookings` with their proofs; then `Meetings`, `Ownership`, `Meters`, `Accounts`,
`GuestPasses`, `Conversations`, `CommunityBoard`, their sum `Records`,
`Reminders`; and the proofs about each of them.

Next, in this order:

1. Abstract specifications of a guest pass and of a meeting, with the steps of
   their modules shown to implement them, as `SosAlerts` implements `SosRegistry`.
2. `Authentication`: codes with attempts, lockouts and expiry.
3. `recalculateAreas` against units added at the same time.
