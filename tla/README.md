# SOBH Messenger: TLA+ verification

TLA+ models of the parts of the SOBH messenger whose correctness depends on the
order in which things happen: the transactions of the message store and its
sync log, the devices that follow that log, the outbox of the mobile app, group
membership, scheduled posts, the WebSocket hub and presence; and, each as a
component of its own, signing in, sessions, recovery, contacts, secret chats,
calls, polls, topics, discussions, named roles, stories, media, notifications,
news, bots, data rights and limits. TLC model-checks them on small instances;
TLAPS proves the safety properties of all of them for instances of any size, those
of group membership up to what section 6 lists. Every definition that models code is mapped
to its source lines in `PROJECT.json`.

To check a run: `tlc -config <run>.cfg MC<Module>` (the table under *Runs* names
the module). To check the proofs: `tlapm <Module>_proofs.tla` for each of
`ChatStore`, `GroupMembership`, `ScheduledMessages`, `Outbox`, `DeviceSync`,
`RealtimeHub`, `Accounts` and `Chats`.

Contents: 1 Inventory · 2 Modules · 3 Runs · 4 Fairness · 5 Proofs ·
6 Divergences between code and documentation · 7 What is not modelled · 8 Plan

## 1. Inventory

The system is a Go modular monolith (`backend/`, an API process and a worker
process), a Flutter app (`apps/mobile`) and an admin panel. PostgreSQL holds the
durable state, Redis presence and rate limits, NATS the live fan-out and the job
stream.

### The components that carry the protocols

| Component | State | Operations | Talks to | What is hard |
|---|---|---|---|---|
| Message store (`messaging/repository.go`, `service.go`) | `chats.last_seq`, `messages`, `chat_members` cursors and counters | Send, Edit, Delete, ClearHistory, MarkRead | sync log (same transaction), bus (after commit) | concurrent transactions, row locks, READ COMMITTED snapshots, retries of a send, deadlock |
| Sync log (`user_events`, `user_event_counters`) | one numbered log per user | append in the sender's transaction, page by cursor, prune | store, devices, worker | no gap may become visible; no event pruned that a device still needs |
| Device synchronisation (`realtime/handler.go`, `inbound_sync.dart`, `socket_client.dart`) | server cursor, local cursor, local database | handshake, live frame, catch-up, `sync.ack`, sign-in, sign-out | sync log, hub | lost frames, reconnection, crash in mid-batch, stale cursors |
| Mobile outbox (`chat_repository.dart`, `local_database.dart`) | local rows, outbox entries | queue, flush over socket or REST, back-off, settle, echo | `Service.Send` | lost answers, timeouts, app killed, late requests |
| Groups and channels (`groups/`) | membership rows, roles, counters, link, join requests | add, remove, leave, role, transfer, settings, delete, join by three routes, approve, reject | store (member count), data rights (erasure) | decisions on values read before the transaction |
| Scheduled posts (`messaging/organise.go`, `worker`) | queue rows with lease and attempts | schedule, revise, cancel, claim, publish, record, give up | `Service.Send` | crash between sending and recording, leases that run out, author edits |
| Real-time hub (`realtime/hub.go`, `client.go`) | connections, subscriptions and their reference counts, send queues | register, unregister, subscribe, deliver, shut down | bus, sockets | goroutines, callbacks that outlive their subscription, full queues |
| Presence (`presence/`) | keys with a time to live, device sets, last_seen | MarkOnline, MarkOffline, Refresh | Redis, bus | overlapping connections of a device, commands that fail half-way |

What makes each correct: the store numbers messages and events without gaps and
once per idempotency key; a device that follows the log loses nothing and shows
what the store holds; a message the user wrote is neither lost nor sent twice
nor misreported; a chat has at most one owner, exact counters and a limit that
holds; a scheduled post goes out exactly once or says why not; a socket either
gets every frame or is closed; a user who is gone reads as offline.

### The components that serve one account

| Component | State | Operations | What is hard |
|---|---|---|---|
| Signing in (`auth/`) | codes with attempts, account, devices | request, verify, second factor, open a session | two clients with one code; the first sign-in of a number twice |
| Sessions (`auth/`) | refresh tokens, access tokens, denylist, cached account | refresh, authenticate, sign out here or elsewhere, suspend, reset | a refresh or a request under way when its session ends; a cache that is down or stale |
| Recovery (`auth/recovery.go`) | address on the account, codes sent to it | enrol, prove, change, remove, reset | the address changes under a code |
| Data rights (`datarights/`, worker) | requests with a delay | ask, withdraw, claim, carry out, fail | withdrawal against a worker that has claimed; retries |
| Contacts (`contacts/`) | book, favourites, blocks, requests | sync, favourite, block, ask, answer, withdraw | answers that cross; a sync that replaces the book |
| Limits (`ratelimit/`, `antispam/`) | sliding windows, scores, restrictions | allow, signal, decay, lift | edges of the window; restrictions that must be served |
| Secret chats (`secretchat/`) | prekeys, the chat of a pair, mailbox | publish, claim, open, send, fetch, acknowledge | a key used twice; two openings; mail between fetch and acknowledgement |
| Notifications (`notifications/`, `worker/push.go`) | settings, tokens, jobs | pass over an audience, push, register | paging over a set that changes; a job delivered again |
| Media (`media/`, `worker/media.go`) | session, parts, object, row, jobs | upload, complete, abort, sweep, scan, process | completion against abort and expiry; redelivery; a worker that dies |
| Stories (`stories/`) | stories, audience, views | post, open, feed, delete | two rules for one audience; counting views |

### The components that work on something shared

| Component | State | Operations | What is hard |
|---|---|---|---|
| Calls (`calls/`) | call, participants, sessions | start, answer, refuse, join, leave, end | hang-ups and answers that cross |
| Polls (`polls/`) | options with counters, ballots | create, vote, change, retract, close | ballots that cross each other and the end |
| Topics (`messaging/topics.go`) | topics with counters, cursors | convert, create, edit, close, delete, send, read | sends that cross a conversion or a deletion |
| Discussions (`groups/comments.go`) | links, mirrors, threads, comments, the reader's membership | link, mirror, comment, join, leave, delete a mirror, count | two mirrors of a post |
| Named roles (`groups/roles.go`) | bundles with their names and who holds them | define, rewrite, delete, hand out | a role deleted under its assignment |
| News (`news/`, worker) | article, gallery, translations, jobs | write, submit, decide, schedule, promote, read | promotion against withdrawal; approvals of what was read before |
| Bots (`bots/`) | update queue, keyboards, inline queries | enqueue, trim, poll, confirm, observe, press a button, ask and answer inline | identifiers out of commit order |
| BotFather (`bots/botfather.go`) | stored conversation, bots, tokens | commands, answers, tokens and `is_active` through the API | two messages of one person at once |

What makes these correct is stated by one property each (section 3).

### The others

Folders, communities, search, users, stickers, admin, feature flags, HTTP and
configuration plumbing, screens. `PROJECT.json` lists each with its sources, its
status and the reason; section 7 summarises.

The hazards (`PROJECT.json`, `hazards`) are the places in this code that a test
would hardly reach; each names the property that covers it or why none does.

## 2. Modules

| Module | Models | MC module | Proofs |
|---|---|---|---|
| `EventLog` | abstract: a numbered append-only log per user | | |
| `ChatStore` | `messaging/repository.go` transactions with the checks of `service.go`; implements `EventLog` | `MCChatStore` | `ChatStore_proofs` |
| `DeviceSync` | devices, handshake, catch-up, cursors, pruning, over such a log | `MCDeviceSync` | `DeviceSync_proofs` |
| `Outbox` | the outbox worker, requests in flight, `Service.Send` reduced to what `ChatStore` promises | `MCOutbox` | `Outbox_proofs` |
| `GroupMembership` | `groups/` handlers and repository, erasure of an account | `MCGroupMembership` | `GroupMembership_proofs` |
| `ScheduledMessages` | the queue, its author and its publishers | `MCScheduledMessages` | `ScheduledMessages_proofs` |
| `RealtimeHub` | hub, client and connection life cycle on one node | `MCRealtimeHub`, `MCScheduledMessages` | `RealtimeHub_proofs` |
| `Accounts` | instances of `Login`, `Sessions`, `Recovery`, `DataRights`, `Contacts`, `AntiSpam`, `SecretKeys`, `SecretMail`, `Notifications`, `Media`, `Stories`: the components of one account | `MCAccounts` | `Accounts_proofs` |
| `Chats` | instances of `Calls`, `Polls`, `ForumTopics`, `Discussions`, `NamedRoles`, `News`, `Bots`, `BotFather`, `Presence`: the components around something shared | `MCChats`, `MCScheduledMessages` (`Presence`) | `Chats_proofs` |

`Accounts` and `Chats` hold instances of components that do not share state: the
variables `x1`, `x2`, ... take the values of the component that `active` names,
which is chosen in the initial state and kept. The state spaces add up instead of
multiplying, each property speaks of the component it is about, and a theorem
about the whole is one about each component by itself. `MCScheduledMessages` holds
instances of `RealtimeHub` and `Presence` in the same way, for the three
properties that something comes to its end.

The components meet at interfaces that are themselves checked: `DeviceSync`
assumes the log `ChatStore` is shown to implement; `Outbox` and
`ScheduledMessages` assume the idempotency of `Send` that `OneMessagePerKey` and
`StoreIsSound` state (and keep the order of the code: permission, slow mode and
validation come before the lookup of the key). An operator whose comment begins
"A form that" or "A form in which" (`ChatNotLocked`, `AcknowledgeAll`, ...) is
not used by any specification: it is a plausible mistake in the definition that
follows it, and `PROJECT.json` names the property it would break.

**ChatStore.** A handler is a transaction: `pc` says which locks it holds and
what it is waiting for, so there is no separate lock table. A send checks
membership and the idempotency key, locks the chat, looks the key up again,
allocates `last_seq + 1`, inserts, updates the member rows, locks the event
counters of the recipients in ascending user order, and commits, at which point
its writes appear. Edit and Delete lock the message row only; ClearHistory locks
the chat, then the message rows (for everyone) and the member rows. MarkRead is
one UPDATE that takes its snapshot when it begins and re-reads only the row it
waited for; the position it is given may lie beyond the newest message, which
nothing in the code prevents. A handler may roll back at any step. Sending in a chat above the
fan-out threshold writes no events for the members. Content is an edit version;
mention counts and delivery cursors move with the unread count and the read
cursor and are left out.

**DeviceSync.** One user, several devices. The handshake reads cursor and head
*before* it registers the socket, as `ServeHTTP` does; `broadcast` publishes
after the commit, to the sockets registered then; the app's catch-up, its use of
the answer's `latest` key, the live cursor and `sync.ack` follow the Dart code.
A device outside `Mobile` follows `docs/protocol/websocket.md`, section 6, so
that the server side is exercised by a client that uses it as documented.

**Outbox.** One device, one chat. `flushOutbox` reads a batch and attempts one
entry after the other; each read and each await is a step. A request is in
flight until the server handles it, even when the device has given it up
(`MaxInFlight`). The server decides on every attempt, before it looks the key up:
`slow_mode` is fixed when a behaviour starts, and `refused` changes under way
(`PermissionChanges`). The ghost `wavered` records the messages whose permission
changed after they were written.

**GroupMembership.** A handler reads the caller's membership, decides, and
writes in a transaction of its own: the read is one step and the transaction
another. A transaction is one step because it locks the chat row before it reads
or touches each row with one UPDATE whose condition is evaluated again on the
locked row. The exception is AddMember, which is two: its statement begins, and
reads the member limit (`LockFor`), and then gets the chat row and writes
(`AddMembersLocked`, `JoinLocked`), because `FOR UPDATE OF c` does not lock the row
of `chat_settings` the limit is in. Permission overrides are reduced to the grant of `manage_admins`;
denials are left out and named role bundles have a module of their own; one invite link exists from the
start; `subscriber_count` moves with `member_count`.

**ScheduledMessages.** A claim marks due rows with a lease; each post is then
sent and its outcome recorded in separate steps, between which the publisher may
crash, be slow enough for its lease to run out, or fail to record. Claiming,
sending and recording use the row id and the copy of the post the claim
returned, as the code does.

**RealtimeHub.** What runs under the hub's mutex is one step. Each subscription
delivers on a goroutine of its own, so a callback that has taken a message may
still be queueing it when `Unsubscribe` has returned and a new subscription for
the same subject exists. The membership check of `chat.subscribe` is left out.

**Presence.** Each Redis command and each publication is a step; any command may
fail, and keys may lapse at any time (nothing calls `Refresh`).

**The components of `Accounts` and `Chats`** are written alike. A request is
a record per handler that says where it stands (`at`) and what it has read; a
statement, or a transaction that locks what it reads, is one step; two
statements of one handler are two steps, and anything may happen between them. A
handler may be abandoned or fail where the code can: its earlier statements stay
if they were committed. Time is either a bounded clock (limits, data rights) or
a single event (a code expires, a story, a poll or an upload session comes to its
end). Redis and NATS may fail or deliver again where the code has an answer to
that. A variable marked ghost records history for a property and is not read by
an action. In particular:

- *Login, Recovery.* A code is its number; matching is equality. Attempts are
  burnt before the comparison, and the conditional update that consumes a code is
  the step that decides.
- *Sessions.* An access token is its session and its `token_version`. The cache
  holds denylist and account state and may go down and come back with them.
- *SecretKeys, SecretMail.* Keys and letters are numbers; nothing is encrypted. The
  mailbox is a set of rows with the time they were stored; a page is the letters of
  its oldest rows.
- *AntiSpam.* The script of the limiter is one step, as Redis runs it. The suffix
  that tells two events of one microsecond apart is counted by each process
  (`Processes`), and a limit that is not positive lets everything through.
- *Media.* The bytes are whether the client was honest about them and whether
  they are infected, which the scanner sees and the database does not. A processing
  job may give up at any of its steps (`GiveUp`).
- *Notifications.* A page is the members of the audience whose rank, the number of
  members before them, lies between its offset and the next; a pass keeps what is
  left of its page and the offset, and opting in or out moves the ranks under it.
  The pass counts (ghosts) who joined and who left the audience while it ran. A row may
  be written without its push being published.
- *Stories.* Accounts may be erased; the feed leaves their stories out and the check
  before a view does not.
- *Discussions.* The reader joins by commenting, may leave or be removed at any time,
  and a comment is sent in two steps, the look at the membership and the transaction;
  mirrors are deleted by moderators and by the timer as well as by who withdraws them.
- *NamedRoles.* A role is its bundle and its name, which is unique in the chat.
- *News.* One article with its gallery and one translation. A reader's request finds the
  article and records the view in two statements.
- *Bots.* An update has the identifier its transaction drew; it becomes visible at
  the commit, which may come in another order.
- *BotFather.* A conversation is the flow and what has been answered; wording is
  left out. A step is saved and its question put in two steps, and the second may
  fail. The management API issues and revokes tokens and sets `is_active`. The ghost
  `bfWord` says of each handle how far the person's words go towards deleting it:
  /deletebot, the handle as the bot that is meant, the handle again as the confirmation.

## 3. Runs

Twelve runs: ten that pass, and two that show a disagreement between the code
and what the repository says of it (section 6). Sizes are distinct states.

| Run | Module | Checks | States |
|---|---|---|---|
| `store_send` | MCChatStore | OneMessagePerKey; StoreIsSound, ImplementsEventLog, RequestsFinish | 163 thousand |
| `store_change` | MCChatStore | ChatGapFree, ReplayIsFaithful, ClearIsExact | 2.8 million |
| `store_unread` | MCChatStore | UnreadNeverLost (violated) | |
| `sync` | MCDeviceSync | NoEventIsLost | 3.1 million |
| `sync_pages` | MCDeviceSync | CatchUpReachesTheHead (violated) | |
| `outbox` | MCOutbox | OutboxIsHonest; Drains | 182 thousand |
| `group_owner` | MCGroupMembership | AtMostOneOwner | 555 thousand |
| `group_counts` | MCGroupMembership | CountsMatch; EntryIsGuarded | 655 thousand |
| `sched` | MCScheduledMessages | PublishedOnce; Settles, ClosedIsForgotten, GoneReadsOffline | 343 thousand |
| `hub` | MCRealtimeHub | SubscriptionsMatchListeners, FramesArriveOnce | 3.6 million |
| `accounts` | MCAccounts | eleven properties, one per component | 2.3 million |
| `chats` | MCChats | ten properties, one per component and two of presence | 1.2 million |

Several properties are conjunctions of parts that are named, commented and proved
apart: StoreIsSound (TypeOK, LogGapFree, AnswersAgree, NoWaitCycle and
CursorsOnlyAdvance), ReplayIsFaithful (ReplayConverges, NewEventsInChatOrder),
ClearIsExact (ClearHidesOnlyThePast, ClearedForEveryoneIsGone), NoEventIsLost,
OutboxIsHonest, FramesArriveOnce, LimitsAreKept, SecretMailArrives, PublishedOnce.
EntryIsGuarded says of one step what JoinsRespectLimit and ClosedToNewcomers say, with
the limit the step goes by in place of the limit there is.

What they show, and why the bounds are enough:

- **store_send.** Two handlers serve sends with one key, retries, publications,
  deletions, clears and reads over two chats that share both users, and may roll
  back anywhere. Two chats with the same members are what a deadlock over event
  counters takes; one key is what a retry takes; two messages per chat and three
  events per user let a third append meet two earlier ones. No number is lost or
  taken twice, retries agree on one message, no cycle of waiting forms, every
  request is answered, nothing read is unread again, and every step of the store is a
  step of `EventLog`. A read may name a position beyond the newest message.
- **store_change.** One chat, `FanoutThreshold` 1, user 2 joins and leaves, so
  the chat crosses the threshold in both directions between a message, its edits
  and its deletion. Two handlers with symmetry. Edits, deletions and clears hold
  different locks; replaying the log still ends at what is stored, a clear never
  hides a message being written, and nothing that was cleared comes back.
- **sync.** One mobile device and one that follows the documented protocol; a
  page of one event and a log of two make every catch-up longer than a page; two
  connections in all, so one device may connect twice or each once; all four
  faults. A device acknowledges only what it applied, cursors never go back, and
  the worker never prunes an event that a signed-in device has not acknowledged.
- **outbox.** Two messages, the second of which may be refused, from the start or
  from some moment on, and allowed again; with and without slow mode, in which nothing
  else is refused (`OneReason`); all five faults; one abandoned request still on its way
  while the next attempt is made. A message is never forgotten by the queue, `sent`
  means stored under the number shown, and, slow mode and changed permissions aside
  (section 6), what settled is shown as sent, `failed` means refused and not stored, and
  the queue drains.
- **group_owner.** Three users and two handlers whose reads may both be stale; every
  operation but the change of settings, divided by the settings of the group
  (`OneFamily`): at a limit of two what changes rows; with room for three transfers,
  erasures and joins, together with changes of roles, or, where joining takes an
  approval, with the answers to join requests. `NeverTwoOwners` proves it with all of them
  at once.
- **group_counts.** The same users and handlers, every operation that moves a row
  and its counter (approvals and erasures aside, section 6) and the change of
  settings, with a limit of one or two: the chat is full at the first or the second
  join, and `settings` changes the limit and turns approval on and off while a join waits for the chat.
- **sched.** Two publishers, two posts in one batch, two versions in all, so a
  post may be revised or both may be queued; two attempts before a post is
  abandoned; three claims of a version; one crash or one outcome that is not
  recorded. No key is ever stored twice, and every due post is settled. The hub
  instance has two sockets, one publication and no chat: a socket closed by any
  of its causes leaves the hub. The presence instance has two connections over two
  devices of one user, in every assignment: keys and sets that a failed command left
  behind lapse.
- **hub.** Two sockets of one or two users, one chat, a queue of one frame, two
  publications, one request per socket: the last listener of a subject can leave
  while the next registers, and the second frame finds the queue full.
- **accounts.** Two handlers and, where a worker takes part, two workers, each
  set symmetric. Two is what a race takes: the second actor reads what the first
  is about to change. Login has two codes, so that an old one is met by a newer,
  and a device limit of one; sessions two sessions and two versions; data rights
  two requests and a clock that outlasts the delay and a retry; limits a window
  of two ticks on a clock of six and one process; media two deliveries of each job, with two
  requests or workers busy at once on a video and one on anything else (`TwoAtAFile`);
  notifications three accounts, subscribed or not, in pages of two, so that the second
  page is short, two changes of settings and two deliveries: people join and leave on
  either side of the offset, during and between passes, and pushes, tokens and reading
  are left to the time outside a pass (`PassAlone`); stories one story with at most
  one name on its lists and two relations in all (`FewNamed`), which is what tells
  the rules of an audience apart.
- **chats.** Two handlers. Calls have three people, which is what tells a group
  call from a direct one; polls two voters and two options; topics one
  beside General, which is the one that is edited and closed (`OneTopicModerated`);
  discussions two channels and two groups that compete for a link, and one deletion
  among the post, its comments and its mirrors (`OnePostDiscussed`); roles an owner,
  an admin and a member with a limit of one; news one reader, who reads an article
  without pictures that they neither bookmarked nor follow (`ReadersAndButtons`); bots a
  backlog of two and identifiers for one update beyond it; BotFather two bots and any number
  of messages, two at a time where one of them is about deleting a bot
  (`DeletionUnderWay`), so that the bot under discussion changes under a confirmation;
  presence three connections over three devices of two users, so that two connections may
  share a device and two devices a user.

What the properties of `accounts` and `chats` say is stated in `Accounts` and `Chats`, in
a sentence each, and in full in the component's module.

Deadlock is not checked where the modelled system really comes to rest: when the
bounds on messages, events, codes or versions are used up and no request is open.
The hub run checks it, with an explicit final step.

## 4. Fairness

- `ChatStore`: strong fairness of each handler's next step. PostgreSQL queues the
  waiters for a row lock, so a transaction whose lock keeps becoming free gets
  it; clients may stop sending requests, so accepting one is not fair.
- `DeviceSync`: weak fairness of the server's handshake and registration, of the
  frame handler and of the steps of a catch-up that has started. (Used for
  `ReconnectionCatchesUp` only.)
- `Outbox`: weak fairness of the flush worker (a timer and triggers run it), of
  the server handling a request and of the back-off running out; strong fairness
  of an attempt succeeding and of its answer arriving, that is, a network that
  does not fail every time. `Drains` also assumes that the user stops killing the
  app at some point.
- `ScheduledMessages`: weak fairness of time (posts come due, leases run out) and
  of each publisher's loop, which `worker.schedulerLoop` runs on a ticker.
- `RealtimeHub`: weak fairness of the goroutines that serve a connection and
  deliver, and of a read on a closed socket returning.
- `Presence`: weak fairness of the expiry of keys, which Redis does by itself.
- The components of `accounts` and `chats` state safety only: their handlers may
  be abandoned at any point, and what a worker does again is not promised by a
  queue that is outside the repository.

## 5. Proofs

`tlapm` checks every proof to the last leaf. The theorems hold for any sets of
users, chats, keys, handlers, devices and connections and any bounds that meet the
named assumptions of the component's module, which TLC evaluates in every run.
The assumptions say that ids and bounds are numbers, that limits that must not be
zero are not, that what the code starts from exists (a creator, a member set, an
owner for each device), and that handlers, sockets and, where they are counted,
people are finitely many, as they are in a process with a pool of connections.

Two patterns recur. A property of rows is not inductive without what a handler
between two steps knows of them: the invariant then says which row a handler has
locked or claimed, and that what it read there is still so. And a property that
counts needs the counted set to be finite and each step to add or remove one
element of it.

**ChatStore_proofs**

- `TypeCorrect` (TypeOK), from `TypeInv`: TypeOK, the member sets a transaction
  works from are finite, and an open clear has a caller.
- `SyncLogGapFree` (LogGapFree). Not inductive as it stands: that numbers
  committed later fit needs `LogInv`, which adds `CountersHeldOnce` (a counter
  row is locked by at most one transaction) and `CountersFresh` (the value a
  transaction took is the counter's value plus one for as long as it holds the
  row). One lemma (`StepOnLog`) reduces every step of the store to a commit, a
  counter lock or a step that leaves the log alone.
- `StoreImplementsEventLog` (ImplementsEventLog): with the same invariant every
  step of the store maps to an append or a stutter of `EventLog`.
- `ChatNumbersGapFree` (ChatGapFree) and `SendsIdempotent` (OneMessagePerKey),
  from `ChatInv`: the chat lock is exclusive, and a send that holds it carries
  `last_seq + 1`. Edits, deletions and clears rewrite rows without changing their
  number, sender or key (`SameIdentity`), so they cannot disturb either; that a
  rewrite acts on the row it locked is `RewriteWaits`. Idempotency rests on the
  partial unique index, which the insert obeys under that lock.
- `ClearExact` (ClearIsExact), from `ClearInv`: no cursor and no event about
  messages points past the chat, a clear carries the `last_seq` of the chat it has
  locked, and no write brings a deleted message back.
- `ReplayFaithful` (ReplayIsFaithful), from `ReplayInv`: a transaction that rewrites
  a message has its row to itself, whoever was in the chat before the message is
  among those it tells, and its event goes on top of their logs. The lemma
  `StepKinds` reduces each step to what it does to rows and handlers, so that the
  invariants look at that much only.
- `StoreSound` (StoreIsSound): the absence of a circle of waiting is proved from the
  order of the locks. A transaction that waits for a chat, a message or a membership
  row waits for one that is further along; of those that lock counters, the one that
  waits for the greatest counter waits for nobody, because counters are taken in the
  order of the users. That a greatest one exists is why `Handlers` is finite. That
  nothing read is unread again takes that a send in progress carries the number after the newest
  message: it sets its sender's cursor there, which is back only from beyond it.

**GroupMembership_proofs**

- `GroupTypes` (TypeOK) from `TypeInv` = TypeOK and "no handler carries a grant
  of the owner role"; without the second part SetRole could create one.
- `NeverTwoOwners` (AtMostOneOwner): inductive together with `TypeInv`, for all
  operations, however stale the reads.
- `CountersExact` (CountsMatch), `DeletedIsClosed` (ClosedToNewcomers) and, as the
  action property the run checks, `EntryGuarded` (EntryIsGuarded): under the hypothesis
  that neither approvals nor erasures run (`Operations \cap Uncounted = {}`), because
  with them the counter and the limit do not hold (section 6). The invariant adds that
  no handler is on its way to an approval and that the membership is finite.
  `EntryGuarded` speaks of the limit as it was when the join's statement began, and
  holds also where the limit changes; `LimitHolds` (JoinsRespectLimit), which speaks of the
  limit there is, needs that nobody changes the settings (`"settings" \notin Operations`)
  and the invariant `LimitIsRead`: a handler that waits for the chat carries the limit.

**ScheduledMessages_proofs.** `ScheduledPublishedOnce` (PublishedOnce). `SchedInv` adds
that an item a publisher has sent is in the store, that one version of a post is stored,
and that rows and claimed items were written by the author: a claim holds a copy of the
row, and the row may be revised, released or claimed again meanwhile.

**Outbox_proofs.** `OutboxHonest` (OutboxIsHonest). `OutboxInv` adds that a flush
works on entries of the outbox, that an answer on its way is unique and true of the
store, that a refused message outside `wavered` is not stored, and that what has left the
outbox has its outcome; requests that were given up may be handled after all of that.

**DeviceSync_proofs.** `SyncLosesNothing` (NoEventIsLost): two invariants and that no
cursor goes back. `SyncInv` adds that a catch-up reads within the log (its cursor and
its top are at most the head), that a frame under way is about an event that was
written or repeats a cursor the device's has not fallen behind, that only a signed-in
device has a socket, and that a device outside `Mobile` has applied what it
acknowledges and everything before the place where its catch-up goes on reading.

**RealtimeHub_proofs.** `HubSubscriptions` (SubscriptionsMatchListeners) from `HubInv`
(where a connection stands says whether the hub has it) and `HubDeliversOnce`
(FramesArriveOnce) from `FrameInv`: a frame is in one of the places between the bus and
the socket, and a callback that outlives its subscription holds only frames that no
later callback can take.

**Accounts_proofs and Chats_proofs.** One invariant and one theorem per component; a
lemma (`OneMoves`) says that a step of the whole is a step of the component that is
active. What each invariant adds to its property:

| Theorem | Property | What the invariant adds |
|---|---|---|
| `CodeSingleUse` | CodeOpensOneSession | between consuming a code and opening its session a request has that code to itself |
| `SignOutHolds` | SignedOutStaysOut | a session that is out is revoked for good, and its denylist entry stays while a token of it, or a refresh that was under way, could meet it |
| `RecoveryProved` | RecoveryAddressIsProved | a request that used a code has its address among the proved ones; each reset has a used code of its own |
| `DeletionDelayed` | DeletionHasItsDelay | a request is with one worker at most, is ripe and was not withdrawn while it waited; one that waits again was ripe before |
| `ContactsSound` | ContactsHold | a handler that answers a request has it locked, so it is pending when the answer is written; the second part is an action property |
| `LimitsKept` | LimitsAreKept | where the limit is positive and one process counts the suffixes, what passed is what the window still holds; a sentence is never longer than the restriction on record |
| `PrekeysSingleUse` | PrekeyHandedOnce | every prekey is of the published identity, and what was handed out under it is still there, taken |
| `SecretMailSound` | SecretMailArrives | the pair's row decides which chat there is; what is on a page was received |
| `AudienceTold` | SubscribersAreTold | of those of rank below the offset all have been told, passed over or are on the page, except for no more than have left; who joins raises the ranks by one and who leaves lowers them by one, and after a page that is not full there is nobody |
| `MediaStored` | VerifiedMediaIsStored | a request about to finalize has seen all parts and the bytes; every job and scan result is of a finalized file, whether or not its processing gave up |
| `StoriesCounted` | ViewsAreCountedAndFeedOpens | a view is of a story there is; the feed's rule is the other one with the author's account added |
| `CallsEnd` | HangUpIsFinal | a handler past the statement that ends the call finds it ended, whoever ended it |
| `PollsTally` | TalliesMatchBallots | a ballot being cast holds the lock of its poll, so what it read of the voter's last ballot is still so |
| `TopicsSound` | TopicsHoldTheirMessages | a topic never opened has nothing filed and no send on its way; General is never deleted |
| `ThreadsAreOne` | OneThreadAPost | the mirror a handler has yet to claim or withdraw is of its post, nobody else's and no thread; a thread's mirror was not withdrawn, and whoever is about to comment holds it |
| `RolesAsGiven` | HeldAsGiven | a request carries a real bundle; a name is written only where no other role has it; the roles there are and those about to be written stay below the limit and one per handler |
| `FeedIsEditorial` | OnlyEditorsMoveTheFeed | whoever announces or indexes an article saw it published, and a reader whose request found it found it published |
| `UpdatesArrive` | UpdatesReachTheBot | a row not committed is held by one request; nothing that waits below an update the bot was given is unknown to it, other than what was committed later |
| `BotsDeletedOnPurpose` | DeletedOnPurpose | a conversation about a bot, stored or loaded by a handler, stands only where the person's words about its handle have got that far; a message being handled is the next word; the only bot there is is the first |
| `KeysHaveOwners`, `QuietUsersAreOffline` | NoGhostDevice, QuietMeansOffline | until a command to Redis fails, every key and listed device has a connection that will remove it, and what was announced last agrees with the connections |

Only model-checked: liveness under fairness (RequestsFinish, Drains, Settles,
ClosedIsForgotten, GoneReadsOffline), which is outside the prover's reach. Every
safety property that a passing run checks is stated by a theorem.

## 6. Divergences between code and documentation

Where a comment or a document says something the code does not do, the formula
that states it stands at the end of the component's module. Two are kept as runs
and are listed under `findings`:

- **`store_unread`**: MarkRead counts unread messages in the snapshot its
  statement began with. If it waited for the member row that a Send had locked,
  the count misses that message and overwrites the increment: the message stays
  above the read cursor with `unread_count` 0 (`repository.go:996`).
- **`sync_pages`**: `catchUp` takes the next cursor from `latest`; the server
  answers `server_seq`. Each further page is the first again
  (`inbound_sync.dart:195`).

The others are reproduced by giving the MC module a configuration with the
constants below (those not named as in the passing run; "one device" and the
like say which sets shrink) and the formula as its only property:

| Formula | Constants | What the code does |
|---|---|---|
| `ReadCursorNeverGoesBack` (ChatStore) | as `store_send` | MarkRead takes any position, and a send sets its sender's cursor to its own number: a cursor beyond the newest message comes back (`repository.go:989`, `:530`) |
| `MissedFramesAreRecovered` (DeviceSync) | one mobile device, PageSize 2, MaxPages 3, Faults {"lose_frame"} | a live frame moves the cursor over a frame that was lost, and later catch-ups start after it (`inbound_sync.dart:121`; `service.go:826` says a device that misses a frame catches up by cursor) |
| `ReconnectionCatchesUp` (DeviceSync, FairSpec) | one mobile device, PageSize 2, MaxPages 3 | a device told it is behind gets the status `syncing`; only `connected` starts the catch-up and nothing calls `markSynced` (`socket_client.dart:176`) |
| `SignedOutIsWiped` (DeviceSync) | one mobile device, PageSize 2, MaxPages 3 | a catch-up under way goes on storing after sign-out has wiped the database (`session_controller.dart:224`) |
| `RetriesSettle` (Outbox) | one message, Faults {"lose_reply"}, and SlowModes {TRUE}, or SlowModes {FALSE} with MayRefuse the message | membership, permission and slow mode, which counts the message being retried, are checked before the key is looked up: the retry gets 403 and the stored message is shown as failed (`service.go:139`, `:161`; `:206` returns the original to a retry "so its outbox settles") |
| `RejectionsSurface` (Outbox, FairSpec) | ClientIds = MayRefuse = {k1}, no faults | a refusal answered on the socket is retried for ever (`chat_repository.dart:436`) |
| `EchoReplacesPlaceholder` (Outbox) | no faults | an echo before the answer violates UNIQUE(chat_id, client_message_id) and is dropped (`local_database.dart:293`) |
| `CountsMatch`, `JoinsRespectLimit` (GroupMembership) | Operations {"add", "public", "approve"}, MemberLimits {2, 3} | an approval counts someone who is a member already, and never looks at `max_members` (`groups/repository.go:645`) |
| `JoinsRespectLimit` (GroupMembership) | Operations {"add", "public", "settings"}, MemberLimits {1, 2} | a join that waits for the chat goes by the limit its statement began with, which was lowered meanwhile (`groups/repository.go:181`) |
| `NeverOwnerless` (GroupMembership) | Operations {"add", "leave", "transfer"} | Leave acts on the role it read: a member made owner meanwhile leaves (`groups/service.go:215`) |
| `HierarchyHolds` (GroupMembership) | Operations {"add", "role"}, GrantedRoles {"moderator"} | SetRole never compares the caller with the target (`groups/service.go:250`) |
| `DeletedOnlyWhenEmpty` (GroupMembership) | Operations {"leave", "public"} | Leave deletes on the count it read, although somebody joined since (`groups/service.go:219`) |
| `CancelledStaysUnsent`, `RevisionIsPublished` (ScheduledMessages) | one post, one worker | a publisher sends the copy it claimed, whatever the author was told since (`organise.go:700`, `:311`) |
| `FailureIsHonest` (ScheduledMessages) | one post, one worker | after a crash between sending and recording, a retry that is not permitted any more records the stored post as failed (`organise.go:704`) |
| `NoEcho` (RealtimeHub) | as `hub` | `deliverToChat` does not skip the sender's socket (`hub.go:194`) |

The formulas of the components of `MCAccounts` and `MCChats` fail with the
constants of these modules: to reproduce one, add the invariant or property
`Component!Formula` to the MC module, and start from the disjunct of `Init` that
names the component. Some need more than the run has: `DecayIsPaceFree` a day of
three ticks that sheds two points, `LimitHoldsOnEveryNode` two processes,
`MessageNamesOnePoll` two polls, `OnePictureAPosition` two desks, two pictures and no
constraint `ReadersAndButtons`, `OneReplacement` and `LimitsHold` no constraint
`DeletionUnderWay`.

| Formula | What the code does |
|---|---|
| `DeviceCapHolds` (Login) | the devices are counted without a lock, and two sign-ins at the limit both add one (`auth/repository.go:267`) |
| `CacheIsFresh` (Sessions) | a request that read the account before a ban caches what it read after the entry was dropped (`auth/middleware.go:194`) |
| `WithdrawnDeletionKeepsTheAccount` (DataRights) | a deletion withdrawn while it is carried out is refused its last statement, and the account is gone (`datarights/datarights.go:157`) |
| `OneOpenRequest` (DataRights) | where there is no open request there is no row to lock, and two devices both get one (`datarights/datarights.go:102`) |
| `CarriedOutOnce` (DataRights) | when the outcome cannot be recorded the request goes back and is carried out again (`datarights/datarights.go:180`) |
| `ClaimedIsBeingDone` (DataRights) | a request whose worker stopped is claimed by nobody, and no other may be made (`worker/worker.go:306`) |
| `BlockedIsNoContact` (Contacts) | a request accepted, an Add or a sync puts the entry back while the block stands (`contacts/contacts.go:246`) |
| `DecayIsPaceFree` (AntiSpam) | rounding makes the decay depend on how often the worker runs (`antispam/antispam.go:162`) |
| `LimitHoldsOnEveryNode` (AntiSpam) | each process counts its own suffixes, so events two of them record in one microsecond may form one member, and the window holds one for the two (`ratelimit/rules.go:59`) |
| `BundlesAreOfOneIdentity` (SecretKeys) | a claim that read the identity before a rotation takes its prekey after it (`secretchat/secretchat.go:150`) |
| `DeliveredOnce` (SecretMail) | the row that recognises a retry is deleted by the acknowledgement (`secretchat/secretchat.go:674`) |
| `EverySubscriberIsTold` (Notifications) | who opts out of an earlier page moves the next one past a subscriber (`worker/push.go:144`) |
| `PushRingsItsOwner` (Notifications) | a push that had read its tokens rings a phone that was handed on (`notifications/notifications.go:195`) |
| `CleanWasScanned` (Media) | an unrecognised reply of the scanner ends as a clean digest (`media/scanner.go:128`) |
| `ReadyHasItsVariants` (Media) | the poster of a video marks it ready before its renditions (`media/repository.go:210`) |
| `PendingIsPickedUp` (Media) | the sweeper leaves out what waits for its scan (`media/service.go:289`) |
| `ContactsAreReciprocal` (Stories) | the author's entry for the viewer is enough (`stories/stories.go:114`) |
| `FeedListsWhatOpens` (Stories) | the rule is written twice: the story of an erased author leaves the feed and can still be opened (`stories/stories.go:124`) |
| `EmptyCallEnds` (Calls) | two who leave together each count the other, and nobody ends the call (`calls/calls.go:228`) |
| `JoinsRespectTheCap` (Calls) | two who join together count the same people (`calls/calls.go:509`) |
| `EndedCallHasNoOpenSession` (Calls) | a refusal closes no session, and a late signal opens one (`calls/calls.go:389`) |
| `MessageNamesOnePoll` (Polls) | the retry of a create stores a second poll, and the one message names both (`polls/polls.go:527`) |
| `ShownAnswerIsCommitted` (Polls) | the answer of a quiz is shown to a voter, who may then vote again (`polls/polls.go:427`) |
| `EveryMessageHasATopic` (ForumTopics) | what is said while the forum is off is filed under no topic when it is on again (`messaging/topics.go:5`) |
| `NothingIsLeftBehind` (ForumTopics) | a send that had looked the topic up leaves a message in the deleted one (`messaging/topics.go:335`) |
| `UnreadFollowsTheCursor` (ForumTopics) | the first read counts nothing, a later one the reader's own messages (`messaging/topics.go:56`) |
| `NoSecondCopy` (Discussions) | a claim or a withdrawal that fails leaves two copies (`groups/comments.go:401`) |
| `AuthorsAreIn` (Discussions) | who leaves, or is removed, between the look at the membership and the store has the comment in a group they are not in (`groups/comments.go:447`) |
| `CountDescribesTheThread` (Discussions) | a deleted comment starts no recount, and of two recounts the older may be written last (`groups/comments.go:224`) |
| `RoleLimitHolds` (NamedRoles) | the roles there are get locked, and not the one another request is about to write (`groups/roles.go:91`) |
| `OnePictureAPosition` (News) | neither of two replacements of a gallery deletes what the other inserts (`news/gallery.go:79`) |
| `BreakingIsPushed` (News) | an article that was scheduled is published without its push (`news/repository.go:670`) |
| `ClosedSectionLeavesTheFeed` (News) | the feed does not look at is_active, and the section's articles stay (`news/repository.go:166`) |
| `ApprovalKeepsTheText` (News) | an approval writes back the row it read, and a translation saved meanwhile is lost (`news/gallery.go:271`) |
| `NothingIsLost` (Bots) | a bot that confirms a later update confirms an earlier one committed after it (`bots/bots.go:614`) |
| `BotHearsItsChats` (Bots) | a command reaches any bot with that name, in the chat or not (`bots/observer.go:122`) |
| `CancelEndsTheConversation` (BotFather) | an answer taken up before /cancel saves its step after it (`bots/botfather.go:92`) |
| `OneReplacement` (BotFather) | a token issued through the API between the two statements stays live (`bots/botfather.go:418`) |
| `LimitsHold` (BotFather) | bots and tokens are counted without a lock (`bots/bots.go`) |
| `LiveIsOnline` (Presence) | nothing calls Refresh, so a key lapses under its connection; and the end of a device's old connection deletes the key of the new one (`presence.go:73`, `:61`) |
| `OfflineMeansLastDevice`, `OnlineMeansFirstDevice` (Presence) | the end of a device's old connection removes the key of its new one and announces offline, faults or not; every connection announces online (`presence.go:61`, `:55`) |

Beside these, `PurgeExpired*` of the bots' tables, `PendingWebhooks`,
`MarkDelivered` and `RecordWebhookResult` are written and called by nothing: a
webhook that is set receives no update, and the updates wait for a poll.

## 7. What is not modelled, and why

- *No protocol state of their own*: folders, drafts, live location, communities,
  users, stickers, feature flags and most of the administration (edits of single
  rows in single transactions; where a count is checked before an insert, the
  form is that of `NamedRoles`), HTTP, logging and configuration plumbing,
  screens and the admin panel.
- *Reading*: listings, histories, statistics, search queries, exports. A read
  appears in a model where something is decided on it.
- *Outside the repository*: PostgreSQL, Redis and NATS are modelled as far as the
  code uses them (row locks and snapshots, keys with expiry, at-most-once live
  publication, jobs delivered again); object storage as an upload that is open,
  assembled or aborted; push services, search engine, image and video conversion
  and cryptography are not.
- *Changes of messages that write no sync event*: `autoDeleteMessages` of the worker
  (`worker/worker.go:364`), the messages of a deleted topic (`messaging/topics.go:356`),
  a mirror that is withdrawn (`groups/comments.go:212`) and the keyboard of a bot's
  message (`bots/keyboard.go:230`) update the row and tell no device. They are not
  actions of `ChatStore`: `ReplayIsFaithful` speaks of sends, edits, deletions and clears,
  and a device learns of the others only by loading the chat again.
- *Of bots*: webhooks, command lists and menus.
- *Abstracted within the models*: content, formatting, attachments, mentions,
  several nodes behind the hub; microphone and camera flags of a call; matching of
  telephone numbers.

## 8. Plan

1. Theorems: the counters of a group with approvals and erasures, as far as
   they hold; that what
   a catch-up shows in `DeviceSync` is what `ReplayIsFaithful` promises of the log.
2. Composition: `DeviceSync` over `ChatStore` through `EventLog`, so that
   retention and numbering are checked in one behaviour; `GroupMembership` with
   `NamedRoles`, so that authorisation by a bundle meets removal and transfer.
3. The job stream of `bus/nats.go` as an abstract specification (duplicate
   window, ack wait, termination) that the handlers of media, news and
   notifications are composed with.
4. Folders, communities and the counts that `NamedRoles` stands for.
