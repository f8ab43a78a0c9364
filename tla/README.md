# Narges bot: a verification development

TLA+ models of Narges bot, a Telegram bot that answers with language models, of the runs that
check them with TLC, and of theorems about them that TLAPS checks. The models are translated
from the Python source; every definition that stands for code is listed with its lines in
`PROJECT.json` under `map`.

    tlc -config QuotaLedger.cfg MCQuotaLedger     # a run; the list is in PROJECT.json
    tlapm QuotaLedgerProofs.tla                   # the proofs of a module

## 1. The system

One Python process (`src/bot/main.py`, `application.py`) runs an asyncio loop with an aiohttp
server for Telegram's webhook, a bounded in-memory queue, a few worker tasks, schedulers, and
usually the admin panel. State that must survive is in an SQL database; each service call opens a
session of its own, so a handler is a sequence of small transactions. SQL and file calls are
synchronous: between two `await`s that really suspend, nothing else of the same process runs.
The panel may also run as a second process over the same database (`admin_server.py`), and then
it interleaves with the bot between any two sessions.

    Telegram --webhook--> UpdateQueue --> workers --> handlers --> ChatService --> AI provider
                                                        |              |
                                                        |              +--> QuotaService (gate, ledger)
                                                        +--> BillingService, GroupService, UserService
    admin panel --> BillingService, QuotaService, AdminService --> database
    schedulers  --> GroupService, ReengagementService, NargesStateService --> Telegram, database

### Inventory

| Component | State | Operations | Hard behaviour | Correct when |
|---|---|---|---|---|
| Webhook and queue `update_queue.py`, `webhook.py` | idempotency store, queue, actor locks (all in memory) | reserve, put with a time limit, release, mark processed | redelivery, full queue, time-out, eviction, lost connection, restart | an update becomes at most one job; what was acknowledged is in somebody's hands |
| Workers `worker.py` | what each worker is doing | get, debounce, lock the actor, feed with retries | several workers, retries that sleep with the lock | an actor's messages are handled in order; every job ends |
| Quota ledger `quota_service.py` | table of quota events, summed at each call | check, consume, group reply, revoke, grant | read, decide and write are separate; midnight, month's end, panel | free units within day and month; bounded debt; fixed order of spending |
| Generation gate `quota_service.py` | set of users whose answer is being made | begin, finish | text, image and group turns, worker retries, a second try after ten minutes | one generation per user; the gate always opens again |
| Chat turn `chat_service.py`, `handlers.py` | where a message is, charges | answer, fallback, apologise, retry | exceptions at every `await`, cancellation, crash | one charge per attempt; every message ends |
| Billing `billing_service.py`, `handlers.py`, `admin` | invoices, payment ids, grants | offer, check out, confirm, credit, attach a receipt, review, notify | confirm and credit are two sessions; retries, second payment, stale page, two panels | credited at most once, only when paid, only on the customer's own evidence; decided once |
| Registration and profiles `user_service.py`, `name_service.py`, `handlers.py` | a user's states, name, gender, biography, phone, referral | start, name, gender, account edits, profile dialogue, both bonuses | claim and grant in separate sessions; clicks run beside messages | a bonus is settled once; who is asked is listened to |
| Groups `group_service.py`, `handlers.py` | groups, invite rewards | join, promotion, removal, seen message | status updates that overtake one another; failing credits | rewards and the list of targets follow the bot |
| Group replies `group_ai_service.py`, `handlers.py` | engine events | mention, guest message, photo, automatic reaction | limits counted from events that are written late | limits hold, or are passed by a known amount |
| Moderation `moderation_service.py` | warnings, blocks | warn, block, unblock, delete a warning | deletion of a warning while a block runs | a block agrees with the count of warnings |
| Required channels `required_channel_service.py` | channels, membership cache, bypass | check, add, change, move, remove | the list changes while Telegram is asked | a cached membership is about its channel |
| AI providers `ai_provider_client.py` | config, key cursor, key rows, cooldowns | choose, call, fail over, rest, recover, reload | threads and the panel meet in all of it | every key gets its turn, a resting key rests |
| Memory `memory_service.py` | memory items | create, update, forget, expire | a list that is overtaken; duplicates; the limit | a fact is remembered once |
| History, context, summaries | messages, summaries | add, schedule, refresh | a summary that is made while messages come and users go | no message is skipped or summed up twice |
| Profile photos `profile_photo_service.py` | marks, descriptions, in-flight set | schedule, sync | the same user synced twice at once | few fetches, few descriptions |
| Media `media_service.py` | files and their rows | download, hash, store | I/O | |
| Schedulers and broadcasts `reengagement_service.py`, `group_invite_prompt_service.py`, `GroupMessageScheduler`, `admin/app.py` | what was sent | select, send, mark, count | sent, then marked or counted; rows that change under a round | once, but for a crash; counts add up |
| State scheduler and caches `narges_state_scheduler.py`, `narges_state_service.py`, `global_state_service.py` | state versions, slots, caches of two processes | get, save, run a slot, switch | nobody tells the other process | a change is seen within the time to live; a slot changes the state once, but for a run that could not be marked |
| Admin panel `admin/` | sessions, uploads | all of the above by hand, broadcasts, backups | stale pages, two admins | see the parts it writes to |
| Polling `polling.py` | offset | drain, confirm, feed, poll | the offset is confirmed before the work | what is lost is what was confirmed and not fed |
| Persona, storage, daily events, helpers | | text assembly, schema, logging | | |

`PROJECT.json` lists the same parts with what is modelled of each, and under `hazards` the places
in the code that are hard to test, each with its line and the properties that watch over it.

## 2. The modules

| Module | Stands for |
|---|---|
| `UpdateDelivery` | what the queue promises about an update: taken over once, then ended (abstract) |
| `UpdateQueue` | webhook route, `UpdateQueue`, `UpdateIdempotencyStore`, `TelegramUpdateWorker`, and Telegram's redelivery |
| `QuotaLedger` | `QuotaService`'s accounts: `can_consume_reply`, `consume_successful_reply`, `consume_group_reply`, `revoke_credit`, `add_extra_credit` |
| `ChatTurn` | `message_handler`, `handle_ready_image`, `group_message_handler`, `ChatService.answer`, the gate, `retry_failed_chat_turn_later` |
| `Billing` | plan buttons, invoices, Stars payments, card receipts, review in the panel |
| `Onboarding` | /start, names, gender, the membership button, account edits, the referral bonus |
| `ProfileCompletion` | the dialogue for biography and phone, the phone bonus |
| `RequiredChannels` | `RequiredChannelService` with its cache and the list's changes |
| `Moderation` | `ModerationService`: warnings and blocks |
| `Memory` | `MemoryService`, its repository, policy and deduplicator |
| `GroupReplies` | group, guest and photo handlers with their limits, automatic reactions |
| `Providers` | `AIProviderClient`: fail-over, cursors, cooldowns, health, reload; the panel's edits |
| `Summaries` | `_schedule_summary_refresh`, `refresh_summary_with_llm`, messages and their deletion |
| `SharedState` | `NargesStateService`, `NargesStateScheduler`, `GlobalStateService` in two processes |
| `Groups` | `my_chat_member_handler`, `GroupService`, `GroupInviteRewardService` |
| `Mailings` | one-time prompts, scheduled group messages, broadcasts |
| `ProfilePhotos` | `ProfilePhotoService` over the rows of `MediaStorageService` |
| `Polling` | `polling.py` with Telegram's side of `getUpdates` |
| `UpdateQueueProofs`, `QuotaLedgerProofs`, `ChatTurnProofs`, `BillingProofs` | theorems about the module they name |
| `PeopleProofs`, `AnsweringProofs`, `BackgroundProofs` | theorems about the components that `MCPeople`, `MCAnswering` and `MCBackground` put together |
| `MCQuotaLedger`, `MCUpdateQueue`, `MCChatTurn`, `MCBilling` | small instances of one component for TLC |
| `MCPeople`, `MCAnswering`, `MCBackground` | small instances of several components in one run |

The last three bundle components that share no variable. `part`, chosen in the initial state,
names the component whose steps a behaviour takes, so each run explores every component to the end
and does not multiply their states; nothing is lost, as no property reads two of them. (The lemma
`EachComponent` of their proof modules says that a behaviour of the bundle is one of each
component; the theorems are about a component's own specification, say `G!Spec`.)
`MCPeople` extends `Onboarding` and instances `ProfileCompletion`, `RequiredChannels`, `Moderation`
and `Memory`; `MCAnswering` extends `GroupReplies` and instances `Providers` and `Summaries`;
`MCBackground` extends `SharedState` and instances `Groups`, `Mailings`, `ProfilePhotos` and
`Polling`. What the components have in common in the code is the credit they grant: each counts its
own grants, and `QuotaLedger` takes grants of any size at any time.

### UpdateQueue

`telegram` is what Telegram believes of an update (it sends again until it hears a 200), `request`
the open webhook requests that wait in `queue.put`, `seen` the idempotency store in its LRU order,
`queue` the `asyncio.Queue`, `worker` and `actorLock` the worker tasks and the per-actor locks with
their waiters in order. `startup` is the largest message that is older than the process (the
offline backlog, whose jobs are slept on first). `ended`, `accepted` and `forgotten` are history.

An action is what the loop runs between two suspensions. `enqueue` suspends only in `put`, and
only when the queue is full; so `EnqueueDuplicate`, `EnqueueAccepted` and `EnqueueWait` are its
three ways to the first suspension and `PutResumes`, `PutTimesOut` the two after it. A worker
suspends on an empty queue, in the debounce, on the lock and in the handler: `GetFresh`,
`GetLate`, `DebounceOver`, `HandlerReturns`, `HandlerRaises`, `LastAttemptRaises`. `Disconnect` is
Telegram's side giving a connection up while the coroutine goes on, `Restart` the end of the process.

### QuotaLedger

The event table is kept as four sums per user, because the code recomputes an account from sums at
each call. `op` is the call the loop is in the middle of: a reply that was checked and must be
looked at again (`need`), or events that were decided and are not written (`extra`, `free`). So the
reading, the decision and each write are separate steps, between which midnight, a new month and,
with `PanelInBot = FALSE`, the panel's process may act. `Abandon` is a failing write or a crash.

### ChatTurn

`pc` is the place of a message's handling, `active` is `_active_generations`, `deferred` the second
try of each attempt, `charged` what each attempt and its second try cost. A text turn holds the gate
inside `answer`; an image turn from before the vision call to the `finally` of
`handle_ready_image`; a group turn (and a guest's, which has the same shape) until the reply is sent. `Raise` is the worker's retry,
which may also come after an apology, when the typing task has failed.
What an account contains is left open here: `Refuse` and `FallBack` may always happen.

### Billing

`status`, `paymentId` and `credits` are an invoice's columns and the number of times it was
granted; `pay` follows a Stars payment from the charge through the handler's two sessions to the
answer, `attaching` a receipt inside `attach_card_receipt`, `review` what a panel process is
doing (read, write, credit, tell), `result` what the owner was told.

- Every plan button of the Stars menu is refused (see the observed disagreements), so a Stars invoice exists only
  from an earlier release: `Init` allows it to be pending and the code's later steps are modelled.
- The panel shows its buttons only for a pending invoice with a receipt (`invoices.html`), but the
  page may be old; `Offered` therefore asks for a receipt and not for the status, and the branch of
  `review_card_invoice` that invents a payment id is not reached from the panel.

### People

- `Onboarding`. Messages of a user are serial, clicks are not and run beside them; `doing` is the
  `await` a handler stands at, after which it writes from what it read before. `profile` is the
  row; every update of a missing row does nothing (`Update`), which is what makes a question asked
  on behalf of the bot's own user go unheard. `profile[u].inviter` is `referred_by_user_id`: the
  panel's deletion of a user clears it in every row the user invited (`Uninvited`), be the inviter one of
  `Users` (`DeleteUser`) or somebody else (`DeleteInviter`), and such a row can be referred anew.
  `asked`, `referral` and `lost` are history.
- `ProfileCompletion`. `contact` is the contact being handled and its try: phone, credit and marker
  are three steps, of which the last two may fail and be repeated by the worker.
- `RequiredChannels`. `check` is a running check with the channels still to judge (`todo`) and the
  one Telegram is asked about (`asking`); every change of the list empties the cache of its channel.
- `Moderation`. `left` is the time left of a block; 0 is a row whose time is over. `counted` is the
  row's `warning_count`.
- `Memory`. A worker reads `list_active` (`existing`) and applies its suggestion in a later step;
  The list is stale (`stale`) if another process wrote in between or if `list_active`'s limit cut it
  off when it was read; `excused` holds what is written on a stale list, or by the model's own choice of an id.

### Answering

- `GroupReplies`. From the counts to the gate nothing suspends (`Begins`), then the provider is
  asked (`Answered` writes the row that is counted) and the answer sent (`Finishes`). Rows age.
- `Providers`. A call goes `loading`, `provider`, `key`, `health`, `request`; `status` is the key
  table of the database, shared by position. A call passes over disabled and resting providers in
  the step that takes the next one (`TakesProvider`). `writing` is a config file half written, which a call
  may read. `turns` of a call records which keys had their turn; `told` are the keys that were told to wait and
  have not been called back, `late` the calls that were asking each of them when it was told.
- `Summaries`. A job reads the summary's row, then the pending messages, asks, and writes; ids of
  deleted messages at the end of the table are given again. `outrun` is history.

### Background

- `SharedState`. `cache` and `switch` are the caches by holder with their age; `outdated` and
  `flipped` count since when a value is no longer true. `asking` is the scheduler between the old
  state and the new one; then the state is `saved`, and the audit row and the mark of the run are two
  more sessions: a restart, or a failing write (`RunUnmarked`), leaves a saved state without its mark. `cuts` counts those.
- `Groups`. `events` are status updates in the order Telegram reports them; a handler takes any of
  them. `row` is what `target_group_ids` reads. `net` and `lost` count what was booked and what failed;
  `overtaken` are chats whose handlers changed places, `misled` those whose row a late message or a failed
  send contradicted last.
- `Mailings`. `round` is what a prompt's loop has still to send, `sweep` the schedule that is being
  sent, `cast` the broadcast; `Restart` forgets the first two.
- `ProfilePhotos`. The syncs of messages and of the loop, at their awaits. `marks` are the ages of the
  marks of this interval, the newest first; time takes the oldest ones away.
- `Polling`. `phase` follows `run_polling`; `confirmed` is Telegram's mark, `again` and `dropped`
  what an end of the process repeats and loses.

## 3. The runs

| Run | Shows |
|---|---|
| `quota` | free quota never overdrawn on a day or in a month (`FreeWithinLimits`); the hidden debt stays below one reply (`DebtBounded`); a revocation takes extra units first (`RevokeSpendsExtraFirst`) |
| `update_queue` | at most one job per update unless the store forgot it (`AtMostOneJob`); an actor's messages are handled in queue order by two workers (`InOrder`) |
| `update_queue_live` | no request and no job waits for ever (`NothingWaitsForEver`); the queue implements `UpdateDelivery` (`ImplementsDelivery`, fairness included) |
| `chat_turn` | one generation of a user at a time (`OneGeneration`), the gate is closed behind it (`GateHeld`), an attempt and its second try cost one reply (`ChargedOnce`); with a database that may refuse the `turn_start` event |
| `chat_turn_live` | with a working database a user is told "busy" only while a turn runs (`BusyMeansWorking`) and every message ends (`EveryMessageEnds`); with a debug user beside a normal one |
| `billing` | credited once (`CreditedOnce`), decided once (`DecisionIsFinal`) |
| `people` | a referral is settled once although a reply and a click claim it together and its inviter may be deleted (`ReferralPaidOnce`); the phone bonus is repeated only for a session that failed (`PhoneBonusPerFailure`); a cached membership is about its channel's chat (`CacheIsAboutItsChannel`); the number a block was given for is the number of warnings that are left (at least 3), after any deletion (`BlockHasItsWarnings`), and no warning shortens one (`WarningsAddUp`); a fact is remembered once (`OneMemoryPerFact`) |
| `answering` | a user's limit of group answers holds and a chat's is passed by at most one answer per other user (`AnswersBounded`); one photo of a chat per cooldown (`OnePhotoPerCooldown`); no key is passed over by a fail-over, though cursor and config move (`EveryKeyHadItsTurn`); a key told to wait is out of use until its time has passed, and only a call that was asking it when it was told may call it back (`RestIsKept`; nothing is claimed of the cooldown of a provider); a summary has no gap and no repetition (`SummaryHasNoGaps`) |
| `background` | caches lag by their time to live at most (`CachesLagByTTL`); a slot saves one state, and one more for each state whose run could not be marked (`SlotSavedOnce`); rewards follow the bot (`RewardsFollowTheBot`), and so does the list of groups that broadcasts go to (`TargetsFollowTheBot`); prompts come once (`PromptedOnce`); the panel's counts are what was sent (`CountsAddUp`); few photo syncs (`SyncedTwiceAtMost`); polling neither loses nor repeats but at an end of the process (`FedOnce`) |

Three runs end in a counterexample, each to one sentence of the repository:

| Run | What the code does |
|---|---|
| `update_queue_swallowed` | A redelivery is answered "duplicate", with 200, while the first request still waits for room; when that one times out, its connection is gone and its id released: nobody has the update. The comment in `enqueue` says no delivered message is lost. |
| `billing_already_added` | A payment is confirmed, the credit raises, the retry finds the invoice paid and tells the user that the capacity had been added. |
| `onboarding_unheard` | After the membership check, or a cancelled name, `ask_for_name` is given the bot's own message and takes the bot for the user: the name is asked and the text that answers is not taken as one, but met by the question again. |

### Exceptions

Some properties except the states in which the code does go wrong, or promises nothing; the hazards
name the same places.

- `CacheIsAboutItsChannel` excepts a check that a change of its channel overtook: its answer about
  the old chat is cached until it expires.
- `OneMemoryPerFact` excepts suggestions compared with a list that is no longer what the table holds.
- `RewardsFollowTheBot` and `TargetsFollowTheBot` except chats whose handlers changed places, in what
  they say once all is handled; `TargetsFollowTheBot` also those a late message or a failed send wrote last.
- `SummaryHasNoGaps` excepts users who were deleted under a job. `FedOnce` excuses what the process loses when it ends.
- `CountsAddUp` takes a restart's and a deletion's part off the sum, and says nothing of a round that
  goes on with a row that was edited or disabled since.
- `PaidByCustomer` (a theorem only) says whose evidence paid, not which of a customer's receipts an admin looked at.
- `EveryKeyHadItsTurn` is about the walk of one call: it reads its own list, so other calls only move
  where it starts.
- `PromptedOnce` counts a user who was deleted in the panel and registered again as another user.

### Observed disagreements

Seen while modelling; the models do what the code does, and no run is spent on them.

- `begin_generation` enters the user before it writes `turn_start`; if the write raises, nobody
  removes the user, who is told to wait for an answer that is not being made. (`BusyMeansWorking` is
  run and proved with a database that does not fail.)
- All messages of the offline backlog are handled by the webhook's workers; the guide
  (`docs/model_payload_guide.md:90`) says only the newest. Line 91 says that messages during an
  answer "return `busy` and are not queued"; they are queued.
- Approving an invoice that was rejected before tells its owner of messages that nobody grants
  (`app.py:632`), rejecting an approved one tells that it was not approved (`app.py:637`), and a
  grant to an account in hidden debt adds fewer usable messages than its owner is told.
- The Stars plan buttons are answered "this plan is not valid": `billing_plan_callback` removes
  another prefix than the menu puts (`handlers.py:2081`).
- The policy's "memory limit reached" (`memory_service.py:518`) compares a list of at most 80
  memories with a limit of 160, and is never the answer.
- A user deleted in the panel while a summary job runs gets a summary row again; ids of messages
  that are given again then lie below its mark.
- An exception in one handler of the polling start-up ends it; the rest of the backlog, already
  confirmed to Telegram, is lost. A photo sync is marked before its photos are stored, so that a
  failure is tried again only after the interval.
- A one-time prompt goes to a user who became active after the round was read; a broadcast stays
  "running" after a restart; a schedule that gets the id of a deleted one inherits the counts of the
  round under way.
- The state scheduler overwrites what an admin saved while the provider was asked. If the audit row or
  the mark of a run cannot be written, the run is an error although its state was saved, and the next
  poll of the slot saves another.
- When the panel deletes an inviter, an invited row whose bonus was claimed can be referred by
  somebody else, and `referral_stats` and `referral_leaderboard` (`user_service.py:208`, `:218`) then count it as a
  success of the new inviter.

### Bounds

- `UpdateQueue`: two workers and two messages of one actor (order and locks matter), one update of
  no actor; room for one in the queue, so that requests wait and overtake; two open requests
  in the safety run, so that a redelivery meets a waiting request; `MaxItems` 2 for three updates,
  so that the store evicts, and 3 in the live runs, where the promise assumes that it does not;
  two attempts for the code's three (a first, and one that is the last).
- `QuotaLedger`: one user, as accounts never meet; two units to a message instead of five, replies of 1, 2
  and 5 units for a word (1), a message (5) and a deep or image reply (15), limits of 3 messages a day and 4 a month, so that each of day and
  month can be the one that is exhausted and a reply can need both kinds of units; `GrantCap`
  bounds what is granted. The theorems need none of these bounds.
- `ChatTurn`: a text, an image and a group message of one user, in two chats; two attempts; in the
  live run the group message is a debug user's.
- `Billing`: two payments of one Stars invoice, a card invoice of each of two users, one receipt
  reference that both may send, one panel process, two attempts. Several invoices of a customer and
  several panels are covered by the theorems only.
- `People`: one user with one click beside the messages for `Onboarding` (rows meet in the inviter only, and one
  inviter outside is deleted at any time), two
  failing sessions and two tries of a contact; two channels, two chats and one check, so that a channel
  can be pointed elsewhere while it is asked about; up to six warnings with blocks of 2 and 3 units
  for a week and a month, so that the fourth warning and a longer block of an admin occur; two
  owners, two rows and two workers for one fact, with a reading of one row, so that a list is cut off.
- `Answering`: two users in two chats, three messages, limits of 1 with windows of 1 and 2 ticks; two
  providers with up to two keys, two calls, one edit, over four shipped configurations, where an
  admin may force the second provider, which one of them has and the others have not; two
  threads, three message ids and a refresh of two messages at a time for summaries.
- `Background`: a time to live of 2 ticks, three versions, one crash; one group with two users and two
  events under way; two users and one schedule, four deliveries, one fault; two images; three
  updates of two actors, a batch of 2 and two ends of the process.

`quota` to `billing` take seconds to a minute and a half; `people`, `answering` and `background`
explore 0.6 to 0.8 million states each in one to two and a half minutes with two workers.

### Fairness

The loop runs every task that can go on, hence weak fairness per worker and per waiting request in
`UpdateQueue`, and per message and per second try in `ChatTurn`. A handler returns or raises
because each provider and Telegram call in it has a timeout. Nothing is assumed of Telegram, of the
user, of the panel, of restarts or of which way a call goes. `quota` and `billing` have no
liveness property: a failed credit is not tried again by anyone, so there is none to state. The
bundled runs state safety only: their loops are `while True` around a sleep and promise no end.

## 4. What is proved

Each proof has one inductive invariant (`IInv`, or one for each component: `MemoryInv`, `GroupsInv`)
that TLC first checked as an invariant, a lemma for every action or group of actions that says it
keeps the invariant, and theorems that follow from it. They hold for any users, messages,
invoices, limits and numbers of attempts that meet the module's `ASSUME`.

- `UpdateQueueProofs`: `TypeOK`, `AtMostOneJob`, `InOrder`, for any updates, requests, workers and
  sizes, and, if the store holds as many ids as there are updates, that every step is a step of
  `UpdateDelivery` or a stutter (`Delivers`). Jobs are counted through the store: an update it has not forgotten is
  in one place (`Placed`, `Single`) and the store knows its id while it is anywhere, so a delivery
  that finds no id makes the first job. For the order, the queue continues `accepted` (`Ranked`) and
  an actor's lock continues the queue (`Fifo`, `Locks`): when a message is taken from the queue,
  those of its actor taken before it stand before it. A store that has room for all ids keeps them
  distinct and so never evicts one (`Remembers`).
- `QuotaLedgerProofs`: `TypeOK`, `FreeWithinLimits`, `DebtBounded`, `RevokeSpendsExtraFirst`, and,
  if the panel is in the bot's process, that only a private reply makes a debt (`OnlyRepliesIndebt`). The sums alone are not inductive: a
  charge that is decided and not written must still fit when it is written (`FreePending`,
  `ExtraPending`), and what `can_consume_reply` agreed to must still be payable at the second
  look, or the account has been emptied, its debt included (`NeedPending`).
- `ChatTurnProofs`: `TypeOK`, `OneGeneration`, `GateHeld`, `ChargedOnce`, `BusyMeansWorking` if the
  database does not fail (`~DbFaults`), and that each charge is booked by a turn that holds the
  gate (`ChargedInTurn`). A holder is a turn between
  its begin and its finish; a step lets one holder in, lets one out, or leaves them alone, and three
  lemmas show that each keeps the gate. That an attempt is charged once needs `FreshUntouched`: an
  attempt that has not come to its charge has cost nothing and has no second try.
- `BillingProofs`: `TypeOK`, `CreditedOnce`, `PaidByCustomer`, `DecisionIsFinal`, and that only paid
  invoices are credited (`CreditedMeansPaid`); of card invoices the decisions, the last and half of
  the first only if a single process serves the panel (`OnePanel`), of Stars invoices with any number. `StarInv` says that at
  most one payment is about to credit an invoice and that it is closed and not credited then;
  `ReceiptInv` that a card invoice's reference is its customer's and that what is reviewed has one;
  `ReviewInv` that with one panel a row is still pending when the review writes it.
- `PeopleProofs`, for any users, simultaneous clicks, channels, chats, checks, memories and processes:
  - `ReferralPaidOnce`. A missing row has no inviter and no claim (`Sound`), for a row
    written anew begins without both; every handler but the claim, and the deletion of an inviter,
    keeps a row's claim, and the claim pays or loses one credit of a row that had none.
  - `PhoneBonusPerFailure`. `BonusesAreFailures`: until the marker is written, every bonus paid is
    a session that failed, and the one being handled is the only one that may come.
  - `CacheIsAboutItsChannel`. `ReadHolds`: what a running check read of the channel it asks about is still
    so, or the check was overtaken.
  - `BlockHasItsWarnings` and `WarningsAddUp`. Here the property is inductive with the types; what
    takes the work is that the length of a block never decreases with the count (`BlockIsNoShorter`)
    and what a deletion leaves: the count of a row is written with every warning, block and deletion.
  - `OneMemoryPerFact`. `Holds`: the list a suggestion is compared with has every fact of its user, or
    is stale. With `list_active`'s limit as a constant the property was false without the clause about
    a list that was cut off: more active memories than the limit, and a fact that is
    not in the list is written a second time. The statement names this case now.
- `AnsweringProofs`, for any users, chats, windows, limits, providers, keys, calls, edits and jobs:
  - `AnswersBounded`, `OnePhotoPerCooldown`. A row is written long after it was counted for: `UserBound`
    adds to a user's rows the answer under way (at most one, by the gate: `OneEach`),
    `ChatBound` adds to a chat's rows the users being answered in it. The clock only lowers counts (`RowsAge`).
  - `EveryKeyHadItsTurn`. `KeysLeft`: the keys that had their turn and those still to come are all the keys
    of the provider as the call read it, wherever other calls have moved the cursor.
  - `RestIsKept`. `Resting`: a key that is told to rest is off, so no call takes it, and who asks it was
    asking when it was told (`late`); so an answer that calls it back comes from one of those.
  - `SummaryHasNoGaps`. `Complete` and `ReadRight`: a job has read the summary as it still is and the first
    messages after its mark, or its user was deleted meanwhile (`outrun`). Ids that are given again
    after a deletion only touch users that were outrun.
- `BackgroundProofs`, for any processes, users, groups, schedules, images, intervals and batches:
  - `CachesLagByTTL`, `SlotSavedOnce`. A cache was filled no later than its value was
    replaced, so it is at least as old as the value is outdated (`CacheAge`, `SwitchAge`); the states a
    slot saved are those left unmarked, the marked one and the one being marked, and it is not asked for once marked (`SlotCount`).
  - `RewardsFollowTheBot`. `Credited`: the ledger of a user and what failed make up the flags. `Followed`:
    while the handlers of a group keep the order, the last change that waits is what the bot is
    now, and with none waiting the flags are what its status allows. Two handlers that changed
    places are what the property excepts (`overtaken`).
  - `TargetsFollowTheBot`. `Listed`, which stands on `Followed`: the last handler in order wrote the row of
    the status the bot has, and `upsert_group` keeps the old status of a row only where both are active.
  - `PromptedOnce`. What a user received is a mark, a message about to be marked, and the failed
    marks (`Told`); a round has nobody left who is marked, nor anybody twice (`Fresh`).
  - `CountsAddUp`. `Booked`: what was delivered is in the row, in the sweep under way, or was cut off by
    a restart or a deletion; `CastAddsUp` says the same of a broadcast.
  - `SyncedTwiceAtMost`. A mark within the interval was a running fetch, and of these there are two:
    `_inflight` admits one scheduled sync beside the loop (`OneScheduled`), and a sync that finds no
    young row finds no young mark (`Fetched`). `Described` repeats the count for an image.
  - `FedOnce`. One conjunct for each phase says what Telegram still keeps, what was drained and what was fed
    (`Kept`, `Drained`, `Feeding`, `Polled`). That a dropped late message gave way to a newer one of its
    actor needs the newest one, found as a minimal element of a well-founded order (`Accounted`).
- In each of the three, every variable keeps its type (`PeopleTyped`, `AnsweringTyped`,
  `BackgroundTyped`), stated of the bundle's own specification.

So every invariant and every `[][A]_v` property of the runs is a theorem; `PaidByCustomer`,
`ChargedInTurn`, `CreditedMeansPaid` and `OnlyRepliesIndebt` are theorems that no run repeats. The assumptions are the `ASSUME`s of
the modules and of the `MC` modules, and each says what the code or the database gives: limits and
times are numbers, those that must be positive are, some sets are finite, and `None` is none of the
values it is told from. The decisions of `BillingProofs` on card invoices (one panel), `BusyMeansWorking`
(no failing database) and `Delivers` (a store with room for all ids) have a hypothesis of their
own, named above.

Only model-checked: `NothingWaitsForEver`, `EveryMessageEnds` and the fairness that `ImplementsDelivery`
promises, since the prover handles neither `ENABLED` nor fairness; and that the model admits the three
counterexamples. No model needs a recursive operator.

## 5. What is left out

In the modelled parts: the queue's watchdog and payload parsing (I/O, no state of the queue); the
rate limiter and `_latest_update_by_actor`, which are written and decide nothing; the text rules
that price a reply (any cost of `ReplyCosts`); what a turn stores and says; `mark_failed` of
`BillingService`, which nothing calls. Whether a text is a valid name, a biography, worth a warning or
worth a memory is a free choice; so are the verdict of a provider and the answer of Telegram. Similar
memories are equal facts. Names, rules and settings of groups, positions and links of channels,
and the fields of a state are left out. So is the panel's deletion of a user's
media rows, among them the marks of `ProfilePhotos`: after it the photos are fetched once more.

Not modelled: persona and prompts, context assembly and searches (text and queries without a
state of their own); media downloads and files; the daily event scheduler (`scheduler.py`,
`event_service.py`), which nothing starts; schema and migrations; the panel's pages, sign-in,
uploads, backups and logs (its writes are actions of the modules of what it writes to); logging,
configuration and text checks.

## 6. Plan

1. Proofs: action properties of the bundled components (what no step may undo: a settled referral, a
   prompt's mark, a fed update); the refinement of `UpdateDelivery` with a store that forgets.
2. Composition: a turn with the provider's fail-over and the summary job it schedules; the grants of
   `Onboarding`, `ProfileCompletion` and `Groups` as those of `QuotaLedger`.
3. Liveness of a fail-over (every call ends) and of a round of prompts.
