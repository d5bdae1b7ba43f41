# A TLA+ model of the messaging automation platform

The platform answers WhatsApp customers of many tenants (shops). It is a NestJS
server on PostgreSQL (through Prisma), Redis and BullMQ, with a React dashboard.
This directory holds TLA+ modules of the parts in which steps of several actors
interleave, TLC runs on small instances, and TLAPS proofs for all instances.
Paths below are relative to `src/src/`; those
that begin with `dashboard/` are relative to `src/`.

Run everything from this directory:

    tlc -workers 2 -config MCWhatsappSend.cfg MCWhatsappSend
    tlapm WhatsappSend_proofs.tla

## The system

    Cloud API --> webhook ---+                    +--> FAQ / order / product / AI
                             +--> ChatService ----+
    Baileys --> handler -----+        |           +--> follow-up (24 h)
                                      v                     |
                         conversations, messages            v
    dashboard, agents --> lock in Redis --> BullMQ queue --> processor --> Cloud API

| Component | State | Operations | What makes it correct |
|---|---|---|---|
| Outbound queue and processor (`queues/whatsapp-send/`) | jobs in Redis: status, attempts, stalls; local variables of a run | enqueue text, image, video, list, buttons; process; retry; recover a stalled job | no copy of a message without a reason, no completion without delivery, a bounded number of runs, an end for every job |
| Conversation lock (`chat/services/collision-guard.service.ts`) | one key per conversation with an expiry | try, release, extend, look | one holder at a time, released by its owner or by time |
| Conversation pipeline (`chat/chat.service.ts`, `channels/whatsapp/whatsapp-webhook.service.ts`, `channels/baileys/baileys-message.handler.ts`) | rows of `conversations` and `messages`, welcome keys in Redis | handle a message: welcome, find or create, decide, store, reply | one row per customer, one welcome, a language that stays, a lead that stays hot |
| Follow-up (`chat/services/follow-up.service.ts`) | `lastFollowUpAt`, delayed jobs | schedule after a reply, skip when the customer has answered | not twice a day, not after an answer |
| Outbound facade (`channels/whatsapp/whatsapp.service.ts`) | none | choose the number, consume the limit, enqueue or drop | what it accepts reaches the queue |
| Order flow (`chat/decision-engine/order.service.ts`, `leads/`) | `Lead.orderStep` and the answers so far | begin, six steps, cancel, expire after 15 minutes | a confirmed order has every answer; a cancelled one stays cancelled |
| Number routing (`whatsapp-accounts/`, `channels/whatsapp/whatsapp-account-cache.ts`) | rows of `whatsapp_accounts`, `wa:` keys in Redis | create, update, delete, cached lookup | a message goes to the account that serves the number, or served it a bounded time ago |
| Rate limit (`infra/tenant-rate-limit.service.ts`, `cache/cache.service.ts`) | counters per tenant, kind and minute, in Redis or in memory | consume | not more than the limit in a minute, refusals only for one's own traffic, counters that expire |
| Baileys sessions (`channels/baileys/baileys.service.ts`) | a map of one session per tenant, the sockets of the library | connect, disconnect, events of a socket, send text and images | unless calls overlapped: one socket per tenant, a status that is true; always: nothing sent after disconnecting, a disconnected session left in the map has its reconnection on the way |
| Broadcast (`broadcast/`, `dashboard/src/MessagingDashboard.jsx`) | the running requests, the form | count, page over conversations, enqueue | every row once unless the list moved or the queue's answer was lost; counts that add up |
| Orders and shop (`orders/`, `shop/`, `dashboard/public/shop.html`) | carts, rows of `orders`, notices | order a cart, change the status and tell the customer | nothing ordered twice or forgotten; the last notice is of the last status |
| Administration (`admin/`, `dashboard/src/AdminDashboard.jsx`) | `isActive`, `subscriptionEnd`, the table on the screen | toggle, extend, load | days and toggles add up; the table is current |
| Clients' logins (`admin/`, `auth/auth.service.ts`) | tenants and their client users, credentials on the screen | create a tenant, reset a password, log in | one client per tenant, credentials that work, tokens for the right password |
| FAQs and products (`faq/`, `products/products.service.ts`, `chat/chat-engine.service.ts`) | rows, one cached list per tenant, forms in the dashboard | create, edit, delete, answer | answers are up to date; an edit is not lost |
| Semantic memory (`chat/services/conversation-memory.service.ts`, `embeddings.service.ts`) | rows of `conversation_memory`, the loaded model | save and prune, read a context, clear | the newest rows stay, the rest goes, in the order of the conversation |
| Product tracking (`products/services/product-tracking.service.ts`) | views, affinities | track a view, recommend | mentions add up; recommendations are new to the customer and not empty without a reason |
| Open conversation (`gateways/conversation.gateway.ts`, `dashboard/src/MessagingDashboard.jsx`) | thread and panels on the screen, rooms of the socket | open, close, receive, refresh panels | the thread is that of the conversation, complete, without doubles, and live |
| Prompts, uploads, guards, configuration | see `PROJECT.json` | | not modelled |

Components meet in three ways. They call each other inside one async handler, where
every `await` lets others run. They share rows and keys that no transaction
or unique key protects beyond a single statement. And the queue carries
messages from one handler to another, across crashes.

What is hard here: checks that are stale when they are used (lock, follow-up condition,
lead status, first message, the row behind a sum or a negation), read-then-create without a unique key,
caches that are filled after they were invalidated, commands
that are carried out but whose answer is lost, a worker that dies between the post
and the bookkeeping, retries that run out while something is waited for, handlers of a socket
that write to whatever is in a map by then, and a dashboard that puts late answers on the
screen. `PROJECT.json` lists each of these hazards at its line with the properties that watch it.

## Modules

| Module | Models | Composed from |
|---|---|---|
| `CollisionGuard` | the lock: one action per Redis command | |
| `WhatsappSend` | producers, BullMQ as its options configure it, the processor with every kind of job | extends `CollisionGuard` |
| `DeliveryPromise` | abstract: what the queue promises of a message | |
| `Conversation` | inbound messages, welcome, processMessage, scheduleFollowUp | |
| `OrderFlow` | tryHandle and handleOrderStep on one customer's lead, agents that change it | |
| `AccountCache` | the lookup of a number through Redis against changes of the settings | |
| `RateLimit` | INCR, EXPIRE and the counters in memory, for every kind of message | |
| `Baileys` | the session of one tenant, its sockets and their handlers | |
| `Broadcast` | a broadcast that pages over a list that moves, and its form | |
| `Orders` | carts of the shop, orders, notices, the orders tab | |
| `Subscriptions` | the administrator's table: toggles and extensions | |
| `ClientAccounts` | creation of clients, resets of passwords, logins | |
| `Catalog` | FAQs or products with their cached list and the tab that edits them | |
| `Memory` | the memory of one conversation | |
| `Tracking` | product views, affinities, recommendations | |
| `LiveThread` | the conversation an agent has open | |
| `MCAdministration` | one run of four parts | extends `Subscriptions`, `ClientAccounts`, `AccountCache`, `Baileys` |
| `MCMessages` | one run of four parts | extends `RateLimit`, `Memory`, `Tracking`, `Broadcast` |
| `MCDashboard` | one run of three parts | extends `LiveThread`, `Catalog`, `Orders` |
| `MCCollisionGuard`, `MCWhatsappSend`, `MCConversation`, `MCOrderFlow` | instances of one module each | |
| `CollisionGuard_proofs`, `WhatsappSend_proofs`, `Conversation_proofs`, `OrderFlow_proofs` | theorems of one module each | |
| `Broadcast_proofs` | theorems of `Broadcast` | extends `Broadcast` |
| `Administration_proofs`, `Dashboard_proofs`, `Messages_proofs` | theorems of the parts of a sum, one part after the other, and of the sum | extend `MCAdministration`, `MCDashboard`, `MCMessages` (and `Broadcast_proofs`) |

The components of the three sums share no variable, table or key, so they are checked side by side: `part` is chosen at the start,
steps of that component only are taken, and the others stay in one of their initial states. An invariant of a component then is
checked in the same states as by itself, and the instance has the sum of the states of its parts. Where the product of two bounds
of a component is too much, its step is restricted to situations, each of which leaves one bound
open (see the comments in the `MC` modules); this restricts the instance, not the component. The names of the modules' variables differ for the sake of these sums (`accountPast`, `orderPast`, ...).

A sum checks one type invariant (`AdministrationTypeOK`, `MessagesTypeOK`, `DashboardTypeOK`) and one conjunction of the properties of each component, two where they ask
different questions. Its conjuncts are the named properties, which the text below speaks of:

| Conjunction | of | Conjuncts |
|---|---|---|
| `SubscriptionsSafe` | `Subscriptions` | `DaysAddUp`, `TogglesCount`, `OneRequestAtATime`, `TableIsCurrent` |
| `LoginsSafe` | `ClientAccounts` | `OneClientPerTenant`, `ShownCredentialsWork`, `TokensWereEarned` |
| `RoutesSafe` | `AccountCache` | `StaleRoutesBounded`, `StaleKeysExplained` |
| `SessionSafe` | `Baileys` | `OneSocket`, `StatusHonest`, `NotLeftBehind`, `NothingSentAfterDisconnect` |
| `LimitSafe` | `RateLimit` | `LimitKept`, `RefusedForOwnTraffic`, `CountersExpire` |
| `MemorySafe` | `Memory` | `NewestKept`, `BoundedWhenQuiet`, `InOrderUnlessOverlapping`, `OnlyWaitingReturn` |
| `TrackingSafe` | `Tracking` | `MentionsAddUp`, `KeywordsFollow`, `RecommendsNews`, `NothingOnlyIfCrowdedOut` |
| `BroadcastSafe` | `Broadcast` | `CountsAddUp`, `LeftOutIsExplained`, `TwiceIsExplained`, `OneAfterTheOther`, `AgainOnlyAfterError` |
| `ThreadSafe` | `LiveThread` | `ThreadIsOfConversation`, `MissedIsExplained`, `TwiceOnlyIfReadEarly`, `LiveUnlessDropped` |
| `AnswersSafe`, `FormsSafe` | `Catalog` | `NoOldAnswer`, `NoOldEmptiness`; `WordsHold`, `OwnEditsKept` |
| `CartSafe` | `Orders` | `OrderedOnce`, `NothingForgotten` (`LastNoticeMatches` stands alone) |

### CollisionGuard

`lock[c]` is the value of the key `lock:conversation:...`, `ttl[c]` its remaining
life. `lease[a]` is what agent `a` may believe after a successful try or
extension; `call[a]` is the agent's call under way. `tryLockConversation` is one
`SET NX EX` and one action; `releaseLock` and `extendLock` are a `GET`
followed by a `DEL` or `EXPIRE`, two actions each. `RedisAnswers` is what
`CacheService` makes of a command: done, done but not heard of, or failed; errors
are swallowed there. The degraded mode without Redis, in which the guard answers yes to
everyone, is not modelled: no lock exists in it.
The client (ioredis, `maxRetriesPerRequest` 2) sends a command again whose answer it did not get: `ReleaseDelUnheard` and
`ExtendExpireUnheard` are a command that was carried out and is still under way.

`PromptCalls` states an assumption: while a release or extension is under way its lock does not expire, and, where its
`DEL` was carried out unheard and will be sent again, nobody takes the lock in between (`Untouched`).
`LeaseExclusive` and `OwnerOnlyReleases` hold under it (run `guard`) and the latter fails
without it (run `guard_late`).

### WhatsappSend

`job[j]` is what Redis keeps, `run[j]` what the worker process keeps in memory. A
crash clears `run` and leaves `job`. The handler is cut at its awaits:
`FollowUpGate`, `FindConversation`, `LockGate`, `LoadOrderedSendableAccounts`, then `TryAccount` for
one number after the other. The five `...WithFallback` functions of the processor
have one shape and are `FallbackStep` with their own set of results of a post: a list
may turn out to have no items and buttons none. `Verdict` is
`classifyResponse`; an answer of HTTP 400 ends the loop, other refusals go on to
the next number, and what may be retried is rethrown at the end. `DatabaseFails` is
a query of the handler that throws. BullMQ itself is external: `Take`,
`FinishCompleted`, `FinishFailed` (attempts, exponential backoff) and
`RecoverStalled` (maxStalledCount) are modelled from the options in
`whatsapp-send.module.ts`.

A job is addressed to a customer; whose row a run finds is open (`FindConversation`): the lookup has no order, and nothing keeps the rows of a
customer unique. `rows` are those that exist. Without a row no lock is looked at, and of two rows the run may look at the one that nobody has
locked. `LockShieldsConversation` therefore speaks of a customer who has rows, all of them locked (`Shielded`);
a customer with a second row is not shielded by the lock on the first, and TLC shows it when one asks for more.

`accepted` and `lost` count copies that the API took and copies no run
reported; `runs` counts handler runs. They are history that the properties are about.

`DeliveryPromise` is the abstract specification: a message is submitted or refused,
may be delivered while it is pending, and ends completed or failed; it is completed only when it was
delivered or had become obsolete. `phases` and the `INSTANCE` in `WhatsappSend`
give the refinement mapping.

### Conversation

Each delivery of a message is an element `m` of `Messages` with its handler's local
variables in `handler[m]`; a message that the Cloud API delivers twice is two
elements. The row made for `m` is named `m`. `before[m]` is history: what the database
held when the handling began. It is what the properties compare with, since
two overlapping messages may do almost anything to one another in this code. The
AI, the FAQ and the word lists are one choice of a branch and a lead class (`Decide`).
`Abandon` is any error of a handling, which both channels log and forget, and a
crash is `Abandon` of all messages under way. A failing `BaileysMessage` before the
tenant is read is a message that never arrives. A tenant that is switched off or
expired answers with a fixed text through the webhook and with nothing through
Baileys.

### OrderFlow

`lead` is the row of one customer: status, step, answers, and its age since `updatedAt`,
which every update resets, an agent's included. An answer column is only told to be missing,
older than the start of the order, or newer. `handler[h]` is a message between its
arrival and its last statement; it is used again for the next message, so there is no bound on
the number of messages. `tryHandle` reads the row and decides in one synchronous
continuation (`FindPending`); what it has read stays in the handler until the update
by id (`SaveName` to `SaveNotes`) or the upsert (`StartOrder`), and anything may
happen to the row meanwhile. A text is the set of what the code can find in it (`Traits`).
`Bypass` stands for what leaves the order alone: an FAQ, a product request, a failed
statement (the failed update of a cancellation included, after which the customer is told that the
order is cancelled). `known[h]` and `alone` are history: what has been so ever
since the message arrived, and whether an answer to an earlier order was under way when
the order was started. Overlapping messages do undo one another here; without these
conditions TLC finds each of the properties violated.

A lead that an agent sets back to NEW keeps the step `done`: every message is then answered with "already recorded"
and no order can be started before the customer cancels. The model has this behaviour; no
doc says what is meant.

### AccountCache

`cache[p]` is the key of number `p` with its remaining life. A lookup of the webhook is a `CacheGet`,
on a miss `FindAccount` and `CacheSet`; a call of the settings reads the row (`FindFirst`), writes it and then deletes
the keys of the old and the new number, one command each. `MaxFill` bounds how long an answer of the table
waits to be cached; the bound of `StaleRoutesBounded` is in terms of it. `accountPast.gone` counts the ticks since an
account served a number. `accountPast.reasons` says how a key came to be stale: an answer that was
cached late, a deletion that failed, or overlapping updates of one account.

### RateLimit

`call[k]` is one message on its way through the limit and, for what goes out, to the queue. INCR and EXPIRE
are two commands, and a command may fail, or be carried out and sent again by the client
(`resent`). A message that Redis fails is counted by the memory of the process. There may therefore be several counts of one
minute, and `LimitKept` is the limit times their number (`Counts`), as long as the counters have not
expired: a message may come to the limit long after its slot was computed, which the code allows.
`enabled` is chosen at the start, for a process with Redis or without.

### Baileys

The map is `current`, the objects that were or are in it are `session`. A session outlives its place in the map as long as a call of
`disconnectTenant` or `sendImage` holds it. Handlers look up the map again whenever they run. `connecting` counts calls of
`connect()` before their socket is made, apart by who called. `end()` of a socket and a successful `logout()` raise the close event at once, within the
call; other closes come from the network (`NetworkClose`). `history.overlapped` is set when `connectTenant` was accepted while
a connection or a disconnection was at work, until no socket of the tenant receives
any more. Without it TLC finds two sockets of one tenant that both receive. `Restart` is a crash, or the process that ends on the
rejected promise of the close handler, which nobody awaits.

### Broadcast

The list is one of conversations, that is of rows; `CustomerOf` says whose a row is, since a customer may have several. `date[c]` is the `lastMessageAt` of a conversation, 0 as long as its first message is not saved; a message dates its row anew and may change the
filter's answer. `Listings` is what the query may list: rows without a date first and in any order (PostgreSQL sorts NULLs first and promises
nothing else), then the last to have written; the order may differ from page to page. `run[b]` is a request on its way through
`send`: count, page, one queueing per row, next offset. An addition to the queue may be carried out while its answer is lost (`AddUnheard`): the client sends it again, which adds another
job with the same due time, or gives up, and the row counts as skipped (`EnqueueFails`). `broadcastPast.unheard` counts them, and `CountsAddUp` and the other properties name them. A request whose answer is lost goes on
(`ShowError`, not `RunFails`). `broadcastPast.listed`, `moved`, `joined` and `left` are who matched when a run counted, and who wrote, came to match
or ceased to match since. A comment in the service calls 500 ms the default delay; the code uses 2000, and
nothing here depends on it: `due` is a place in the list.

### Orders

`page[g]` is a shop page with its cart, `orderTab[b]` the orders view of a dashboard. A request is stored, and its answer
comes or is lost; `updateStatus` reads the order, writes it, looks for an active number and queues the
notice, a step each. `orderPast` remembers what happened to the notices since the order
was last changed alone, and what was put into a cart while its order was on its way.

### Subscriptions

`req[k]` is a click on its way: sent, read, written, and then the table is loaded again. A tab that gives up leaves
its request to the server. `screen[b].busy` is the one row whose buttons are disabled; a click on another row takes it
over, and `past.mixed[b]` remembers that. `past.stale[t]` holds the operations that wrote what they had computed from a
row, or a day, that was not the current one. Days are counted in whole ticks.
`NoEnd` is a null `subscriptionEnd`, that of the seed's tenant and of rows older than the column: such a tenant is never refused, and extending
it counts from today, as if it had expired. `past.from[t]` is the day a tenant's extensions count from, set anew by
that one; `DaysAddUp` says that a tenant stays unlimited until its first extension and has the granted days from then on.

### ClientAccounts

A call reads the user of its email, hashes or compares for a while, and writes or answers. Emails are what every call
makes of them (trimmed, in lower case). A password is a name and a hash is its password: what is
compared is what was read.

### Catalog

The services of FAQs and products are the same code, as are their readers but for an empty list, so one module stands for both; `scene`, which stays as it is chosen at
the start, says which of them it is and what may happen: tabs, messages that ask, other callers of the endpoints, failures. A list is named by the number of writes it has (`asOf`), a text by the write
that typed it. `excused` marks a list that is known to be old when it is cached or left: read before a write whose
deletion was tried already, or left by a deletion that failed. `form` is an open edit form with the texts of
the row it was opened on; `saveFaqEdit` sends every field of it.

### Memory

A save embeds its text, takes a timestamp, creates its row, and then lists the rows beyond the newest and deletes
them by id. Nobody waits for a save, so `save[s]` of several calls run at a time. `extractor` is the model: loaded by whoever asks first and never again after
a failure. Similarity is any ranking in which a row without an embedding comes last
(`MostSimilar`). Timestamps are unique in a conversation; a collision drops the message and its cleanup.

### Tracking

`trackProductView` is a read (`FindProduct`) and a transaction (`Track`); recommendations are made in four queries
with the controller's list of active products last. `views[c][p]` tells which product `p` was of those a conversation was shown. Every
query with an order and a limit is `Best(S, n, score)`: any `n` of `S` that nothing left out beats; what is recommended is a set, its order on the
screen is not modelled. Products are naturals in the order of their
creation, by which similar ones are sorted. `Lower` is a keyword trimmed and in lower case: the search is made with it, the
stored keywords are compared as they are, and a blank one (`Empty`) is not sought. The search takes `WordCap` keywords, thirty
in the code, of rows that were read without an order: which of more are left out is open (`Keywords`), and
`NothingOnlyIfCrowdedOut` names the cap among the reasons for an empty list.

### LiveThread

`call[k]` is a request of one opening (messages, statistics, recommendations, and joining the room last) or of the memory panel.
Whatever a request answers is put on the screen, also that of an opening that was left; `past.crossed` remembers
when it was put under another conversation. `toServer` and `toClient` are the wires of one connection; a lost connection loses
both and every room. `saved[c]` counts exchanges, `unsent` those whose event the server has not emitted yet. The gateway's handler of a join
waits for a query (`HandleJoin`, `Joined`); when the query throws, the connection stays and nobody joins again (`JoinFails`, `past.unjoined`). Joins of one conversation
that wait at the same time are one in the model, which ends as the last of them. `past.missed` collects the
events that did not reach the thread, until a later opening reads them.

## Runs

| Run | Instance | Shows |
|---|---|---|
| `guard` | 3 agents, 2 conversations, lock of 4 ticks, failing Redis | types, `HeldLockExpires`, `LeaseExclusive`, `OwnerOnlyReleases` under prompt calls |
| `guard_late` (violation) | 2 agents, late calls | `releaseLock` deletes a lock that has changed hands |
| `send` | 1 job of any kind to a customer with up to 2 rows, 2 numbers, 3 attempts, 2 crashes, a lock of 1 tick, failing Redis | the safety of one job against everything else that happens |
| `send_two` | 2 jobs, 1 number, 2 attempts, 1 crash, fair | `KeepsPromise`: the queue implements `DeliveryPromise` with its liveness |
| `send_lock` (violation) | 1 job, lock of 15 backoff units, 4 attempts | a long lock fails a job instead of delaying it |
| `inbound` | 2 messages of one customer, a day of 1 tick, failing Redis | what a message may still do given what it could have seen |
| `inbound_language` (violation) | 2 messages | the language changes after the first exchange |
| `order` | 2 handlings at a time, 8 texts, a limit of 1 tick | confirmations are complete and new; cancellations, agents' changes and the limit hold for later messages |
| `inbound_reply` (violation) | 3 messages, a day of 2 ticks | an answered follow-up is sent after all |
| `administration`: subscriptions | 2 tenants, 2 tabs, 2 requests; up to 3 changes of one tab on days 0 to 2, or 2 changes of both tabs on one day | days and toggles add up, a busy row keeps off a second request, the tab that made the last change shows the rows as they are |
| `administration`: unlimited | the same with one of the tenants unlimited, up to 2 changes of one tab on days 0 to 2 | who has no end keeps none until an extension |
| `administration`: clients | 2 emails, 2 passwords, 3 calls | one client per tenant, credentials work, tokens are earned |
| `administration`: numbers | 2 numbers, 1 webhook, keys of 2 ticks, failing Redis; 2 accounts and a call at a time, or 1 account and 2 overlapping calls | how old a route may be, why a key is stale |
| `administration`: sessions | 2 sessions, 4 sockets, 1 disconnect, 1 image | unless calls overlapped: one socket, a true status; always: nothing sent after disconnecting, a disconnected session in the map has its reconnection on the way |
| `messages`: limit | 1 tenant, 3 messages of every kind, minutes of 2 ticks, a failure or a crash | the limit of a slot, refusals, expiry |
| `messages`: memory | 3 saves of which 2 overlap, or 2 and a crash; 1 row kept | newest kept, bounded, in order, cleared stays cleared |
| `messages`: tracking | 2 products; keywords: none, one, the same with a capital and a blank one, or two, of which 1 is sought; 2 overlapping views, or one and a reader | mentions and keywords; recommendations are new, and empty only with a reason |
| `messages`: broadcast | 3 customers of whom some have no date, the filter "new", pages of 2, a cap of 3; a customer writes, a new row comes or the answer to an addition is lost, or a second broadcast to two customers | who is left out, who gets it twice, the counts, due times, the same text again |
| `dashboard`: thread | 2 conversations; two openings and an exchange while the connection holds, or one opening, an exchange, joins that fail and reconnections, or one and the panel while connected | what the thread shows, misses, doubles; whether it is live |
| `dashboard`: catalog | 2 rows, 2 requests; FAQs or products, asked about while 2 writes come in and Redis may fail; 3 writes that nobody asks about; a tab whose requests may fail with 2 writes, a tab with 3 writes of one field, two tabs with 2 writes | which answers may be old or empty, typed words hold, own edits are kept |
| `dashboard`: orders | 2 products, 1 page, 2 requests; shopping, or one order with 2 changes of status, to a status that notices tell and to one they do not | nothing ordered twice or forgotten; the last notice is of the last status |

Each property of a passing run has a mutant in `PROJECT.json`: a definition with a
plausible mistake under which TLC finds the property violated.

### Bounds and why they are enough

- Locks: two conversations tell the keys apart and three agents are one more than the two
  a race needs; agents are symmetric. In `guard` `LockTTL` is longer than the steps of a race; in `send`, where a lock may be taken again
  whenever it has expired, one tick is enough.
- Queue: jobs do not read each other's state except for the worker's slots, so one job with every
  kind shows safety, and two jobs on one slot show the competition. Two numbers
  are a preferred one and a fallback, two rows of the customer a locked one and another. Three attempts are a first, a
  middle and a last one. `MaxCrashes` is one more than `MaxStalled`, so that a
  job fails by stalling.
- `send_lock` keeps the proportions of the code: the attempts of
  `whatsapp-send.constants.ts` against the default life of a lock.
- Conversation: the pairs of overlapping messages are where checks become stale, so two
  messages reach every pair of steps. The finding `inbound_reply` needs a third
  (two rows and an answer); its run is limited by the action constraint
  `PlainHandling` to a corner of the behaviours, which is sound for a counterexample.
  `Day` is one tick, and `MaxClock` lets a follow-up become due.
- Orders: two handlings reach every pair of steps, and since a handler is free again after a
  message the run covers any number of messages, orders and restarts; the texts are one for each
  way through the checks. A third handling at a time adds no new kind of overlap, since all
  that an update overtakes can be done by the other handler, one message after the other.
- Messages are interchangeable and start alike, so the symmetry of `inbound` is sound, and so is that of the handlers of `order`; it is used
  with safety only.
- Number routing: two numbers are the old and the new one of an update, two accounts the one that gives a number
  up and the one that takes it. `TTL` is long enough for a change to fall into the life of a key; `MaxFill` is 0, so that every
  tick of the bound is the key's (the theorem covers longer ones). Overlapping calls
  are a situation of their own, with one account, since one call at a time suffices for the other reasons.
- Rate limit: three messages are one more than a limit of two, or enough for two slots; three ticks reach the second
  minute and the expiry of the first's counter (`TtlTicks` is more than a minute, as in the code).
- Baileys: four sockets let a socket that is held, one that is replaced, and two connections under way exist
  at the same time; sessions and sockets that nobody holds are used again, so there is no bound on the
  number of connections.
- Broadcast: pages of two of three customers have a boundary in the middle of the list and a last page that is not full, and one move takes a customer
  from behind the boundary to the front of it, or out of the filter, or one answer of the queue is lost (`MaxUnheard`), for which a hot lead is like an interested one (`Lukewarm`). The cap of three does not cut a list of three; the theorem covers caps that do.
  All rows are one customer's there, the hardest case: no property then holds because two customers differ.
- Orders, Subscriptions, Catalog: two requests (or clicks) reach every pair of steps, and since a request's place is used again after it,
  more of them come one after the other; the bounds count changes that were carried out.
- Logins: each of the three calls is made once; two can overlap on one email while the third is a login or another email.
- Memory: three saves are one that is pruned, one that prunes and one more; `KeepLast` is 1, so that
  every second row is pruned.
- Tracking: lists are cut to one place, that of the popular products to both, so that a second candidate is crowded out already; `WordCap` is 1, so that a second keyword is cut off. Both trackings are for one conversation:
  what calls for different conversations share, the affinities, is shared by these two as well.
- Live thread: `MaxWire` is one message each way, and the other that overlaps it is under way as `unsent` or as a request.
- Calls, requests, customers and rows that are alike are permuted (`Alike`); model values are shared by parts, which is sound
  because every set of a part contains all the values that are permuted or none. The three sums have no liveness property.
- `CHECK_DEADLOCK FALSE` is set where each call is made once or the bounds of writes and changes end a part: the
  system would go on with the next call.

### Fairness

`FairSpec` of `WhatsappSend` asks for weak fairness of the worker (take, run,
finish), of BullMQ's stalled check and of time; the event loop, BullMQ's timers and the clock
give these. It asks nothing of agents, customers, administrators, or crashes.
Nothing in `Conversation` is required to happen: errors abandon a message at any await, so
no liveness holds of it.

The other modules state no fairness. Their handlers are single requests that an error may end at any await, and what happens next
is up to users. What looks like liveness there is stated as an invariant: `NotLeftBehind` (a session without a socket has a
reconnection on its way), `BoundedWhenQuiet` (when no save is under way the memory is pruned), `TableIsCurrent`.

## Findings

- `releaseLock` may delete another agent's lock (run `guard_late`).
  `scripts/testing/test-collision.js:52` calls that an error; the script itself uses
  a Lua script that the service does not.
- A lock that is held to its end fails a message for good (run `send_lock`), where the comment in
  the processor speaks of sending after the lock is released.
- The language is not locked on the first message (run `inbound_language`).
- An answer may not cancel a follow-up when the customer has two rows (run `inbound_reply`).

The exceptions that properties name are behaviours of the code, too, which no doc of the repository speaks
against in so many words: a number that was switched off is routed for another life of a key when it was cached after
the deletion (`StaleRoutesBounded`), an open conversation gets no events after a reconnection or a join that failed (`LiveUnlessDropped`), two overlapping
extensions of a subscription are one and the extension of an unlimited one limits it (`DaysAddUp`), a customer with two rows gets a broadcast twice (`TwiceIsExplained`) and messages past an agent's lock
(`LockShieldsConversation`), the thirty-first keyword is not sought (`NothingOnlyIfCrowdedOut`), overlapping calls leave a tenant with a second socket (`OneSocket`), and an order
whose answer was lost is sent again (`OrderedOnce`).

## Proofs

All theorems hold for any agents, conversations, jobs, numbers, messages and
bounds that satisfy the named assumptions of the modules (`GuardAssumption` in
`CollisionGuard`, `SendAssumption`, `ConversationAssumption`, and so on, one per module but `DeliveryPromise`); TLC evaluates these in every run. They say that
the names that stand for "none" are no names of anything, that limits and bounds are numbers in the order the code gives them (a counter lives longer
than its minute), and, where a proof counts, that a set is finite: tabs (`Catalog`), saves (`Memory`), tenants and messages (`RateLimit`), recipients
(`Broadcast`), products and conversations (`Tracking`).

Each of the four components with a run of their own has a module of proofs:

- `CollisionGuard_proofs`: `GuardInv` adds to the types that a lease is backed by the key and
  that a call between its two commands still has its lock, or has deleted it unheard, when calls are prompt. Without that link the exclusiveness of leases
  is not inductive. `LeasesExclusive` and `OnlyOwnersRelease` assume `PromptCalls`.
- `WhatsappSend_proofs`: `SendInv` ties each place of a run to the status of its job and to the copies taken
  so far: what was taken and not reported is in `lost` or belongs to the run that is about to
  complete. From it follow the safety properties of `send`, and
  `QueueKeepsPromiseSafety`: every step of the queue is a step of `DeliveryPromise` or
  leaves it alone.
- `Conversation_proofs`: `ConvInv` says that what was there when a message arrived is
  there still (`StillThere`), that a handling which is about to write has seen what it needs to have seen
  (`Informed`), and that follow-ups keep their distance (`Spaced`, which needs that marks never go
  back). The state properties follow from it directly, and `LanguagesSettle` and `HotLeadsStayHot` from the fact that
  only the transaction writes the two columns.
- `OrderFlow_proofs`: `OrderInv` says that a row, and every snapshot a handling holds, has the
  answers to the questions before its step (`Covered`). That alone is not inductive: an
  update made from an old snapshot sets a step of its own, so the row must keep covering the
  step of every handling that is about to write, which it does because answers are never
  erased. `KnownIsSo` and `WritesKnown` tie what a handling may write to what it could
  have seen, and `WhoWrites` lists what a step can do to step and status.

The parts of a sum are proved one after the other, each for its own specification. `PartsAreComponents` then says that every behaviour of the sum is one of each
part, so that the invariants of the runs hold of the runs' own specifications (`AdministrationIsSafe`, `DashboardIsSafe`, `MessagesAreSafe`, and a `...TypeCorrect` each).

`Administration_proofs`:

- Sessions: `OneSocket` and `StatusHonest` are not inductive, since they say nothing of connections under
  way. `Alone` adds that, unless calls overlapped, there is at most one connection, that nobody receives while
  there is one, and that a `disconnectTenant` at work holds the session in the map. `ImagesEnd` carries
  `NothingSentAfterDisconnect`: once a session was disconnected while an image was fetched, it is not the one in the map and its socket is dead,
  and no later step gives it another.
  `NotLeftBehind` needs the types only, and holds whichever calls overlap.
- Numbers: `Ages` ties the remaining life of a key, and the waiting time of an answer, to how long ago the account
  served the number: a key with `left` ticks is of an account gone for at most `TTL - left + MaxFill`. From it
  follows the bound of a route. `StaleKeysExplained` is inductive with it.
- Logins: credentials work from the write on (`Written`), not only once they are shown; a login that compares has
  found a password that was the user's since the call began.
- Subscriptions: `DaysAddUp` and `TogglesCount` are inductive given the types, since an operation that is not marked stale wrote what the current row
  gives; `BusyRow` ties the one request of a tab to the row whose buttons are disabled. `TableIsCurrent` speaks of the tab that made the last change
  only, since nobody tells the others. `TablesFollow` makes it inductive: a table that has been read or is shown with every change
  is the rows, and that tab shows such a table or has a request which will fetch one, unless a request of it failed.

`Dashboard_proofs`:

- Orders: `OrderRequestsHold` says what a request holds while it is under way, `OneOrderAtATime` that a page waits for one request at most. `PiecesAddUp` counts
  the pieces of a product: those put into a cart are in it, in an order or taken out, and each once, unless an answer was lost or the cart was changed while its order was on its way. `OrderedOnce` and
  `NothingForgotten` follow from it. `NoticesFollow` says that until changes of an order overlap, the one whose notice is under way is the row's.
- FAQs and products: `CatalogTypes` gives each number of writes a bound, so that "older" is meant among writes that happened. `ListsAreFresh` says that the key, and the
  list a message found, has every write whose deletion of the key was tried, or is excused; an answer has the list's writes. `WordsHold` is
  inductive itself. `OwnEditsKept` is about an agent alone (`Alone`): the tab has the newest list or a request that brings it (`TabFollows`), and a form that was opened on a quiet
  page holds the texts of its row until it is saved (`FormFollows`), which two requests of one tab would break.
- Thread: `ThreadIsOfConversation` is inductive. `OnceUnderWay` says that an event is on the wires once and of an exchange that was saved, and `ReadEarly` that one which the thread
  has already, or an answer will bring, was read early. `AllExplained` follows an exchange from the row to the thread or to the event that was missed, and `JoinIsLast` says that
  the last word to the gateway about the open conversation is a join: that is why a thread is live unless the connection was lost or that join failed.

`Messages_proofs`, and `Broadcast_proofs` for the last part:

- Limit: `CountersHold` ties the counters to the clock, `CountsAreMessages` bounds a counter by the messages that are in it and the commands sent again. The limit itself is `PassedFits`: the messages
  of a slot that got through number no more than the counter in Redis, the one in memory and one for every crash can have let through, for some number of crashes so far. A sum of
  counts alone is not inductive, since a crash forgets the counter in memory and not the messages it let through.
- Memory: `NewestKept` needs `ListsAreOld`: what a cleanup has listed and not deleted yet has `KeepLast` newer rows among those created, however late it is deleted. `BoundedWhenQuiet` needs
  `CleanupsSuffice`: whichever of the cleanups that have their list delete it, the rows left are at most `KeepLast` and one for each of the others. `TimesFollow` gives the order, `GoneForGood` what was cleared.
- Tracking: `MentionsAddUp` and `KeywordsFollow` are inductive given the types, which number the views of a conversation. A reader that nothing disturbed holds the words and similar products that are still there to
  find (`WordsAreSought`), and `ListIsExplained` says of a ranked list why a product is missing from it. `BestFacts` says of every query with an order and a limit what it leaves out.
- Broadcast: `RunHolds` says of a run that what it has queued and skipped is its offset and its place on the page (`AddsUp`), that due times follow (`DuesFollow`), that pages are full before the last (`PagesAreFull`), and
  who was handled. The place of a customer is the number of those listed before, `Before(c)`. As long as nobody comes to match or ceases to, it never shrinks for one who does not write, since all that a message does to the list is to put its
  sender in front; so whoever was not handled is on the page or beyond it (`NoneForgotten`). If nobody writes, what a run has handled is in its place still (`PlacesKept`), and each place is another row (`NoneTwice`).
  `OneUndated` is where the open order of undated rows comes in.
  `TextsAreSpent` says that a text is in the form only until its request was answered, or after an error.

Only model-checked: liveness (half of `KeepsPromise`), since the prover has no rules for
fairness and ENABLED; the violated properties, which one counterexample each settles; and the mutants. Every safety property of a passing run is proved.

## Plan

Done: the modules above, and a proof of every invariant and action property that a passing run checks. What remains, in the order of its worth:

1. An abstract specification of an eventually consistent cache, implemented by `AccountCache` and `Catalog`, with the step simulation proved.
2. Composition of `Conversation` with `WhatsappSend` (when the rows that a job may find come to be), and an abstract
   specification of what a customer sees.
3. That `WhatsappSend` keeps the theorems of `CollisionGuard`: its commands are steps of the lock.

## Not modelled

The texts of prompts and replies and matching of words (a branch is chosen instead); products with a blank name, whose items `createOrder` filters out of an order without telling
the page (`Products` of `Orders` are the others, which pass the filter); the guards, which check one request
and keep nothing; uploads; lists that are only loaded and shown; the settings of a tenant (`updateSettings`), and other single
statements; `deleteByPattern`; configuration and bootstrap. `searchMemories` and `getMemoryStats` only read. `trackOrderPlaced` and
`updateAllAffinityScores` have no caller. `tempData` of a conversation is
written but not used by the pipeline. The degraded modes without Redis (`QUEUES_DISABLED`) reduce the queue to `Drop` and
the lock to nothing; `RateLimit` does model its counters without Redis.
