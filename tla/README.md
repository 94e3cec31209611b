# A TLA+ model of the stars shop

The shop sells Telegram Stars through a Telegram bot. A customer orders in the bot, pays at a
gateway (Platega or PayPear), and the shop has an external service, fragment-api, send the stars.
The money path runs through webhooks, Redis keys and Celery tasks. This directory models that path,
the bot's dialogue that leads to it, and what is written beside it, with their failures and interleavings.

All line numbers below are of the repository's files.

## 1. The system

### Processes

| process | what runs there |
|---|---|
| `web` (gunicorn, async) | the webhook endpoints `core/views.py`, the admin site |
| `bot` (python-telegram-bot, asyncio) | the conversation of an order, promo codes, broadcasts; handlers run concurrently (`block=False`) |
| `celery_worker` (prefork) | the tasks of `core/integrations/*/tasks.py` and `core/tasks/periodic` |
| `celery_beat` | queues the periodic tasks (`config/celery.py:48-65`) |
| `redis` | broker, the latest-status keys, locks with a time to live, the broadcast channel |
| SQLite (WAL) | users, transactions and their metadata, Fragment orders, promo codes, broadcasts |

Outside: the two gateways, fragment-api, Telegram.

### Components, their state and operations

| component | state | operations | hard behaviour | module |
|---|---|---|---|---|
| statuses (`core/domain/enums.py`, `*/enums.py`) | none | transition matrix, check of a move, translations | unknown strings are kept as statuses | `TransactionStatuses` |
| webhooks (`core/views.py`, `core/integrations/webhook_utils.py`) | `latest_status:*` keys, idempotency keys, `lock_latest_status` | remember, read, save the status under its keys, queue tasks | duplicates side by side, failures between two steps | `WebhookFront`; from the workers' side `PaymentPipeline` |
| payment pipeline (`platega/tasks.py`) | row of the transaction, keys, `lock_payment:*`, queue | `update_transaction_status_task`, `prepare_send_stars_task`, `send_stars_task` | deaths, redelivery, lock expiry, retries taken for failures, database errors that pass for success | `PaymentPipeline`, `StarsOrder` |
| fragment-api client (`fragment/client.py`) | orders and wallet (outside) | find a user, check the wallet, place an order, repeat | an answer lost after the order was accepted | `FragmentClient` |
| Fragment order record (`fragment/tasks.py`) | `FragmentTransaction`, three keys | `update_fragment_tx_task` | late creation status | `FragmentRecord` |
| polls (`core/tasks/periodic/payments.py`, `fragment_orders.py`), `sync_fragment_orders` | `poll_acted` markers | list waiting rows, ask, push into the webhook's keys | data read before an HTTP call and used after it | `Polling` |
| order message (`platega/webhook_workflow.py`) | the chat message | `update_order_message_task` | duplicates leave at once; writers of the row that queue no task | `OrderMessage` |
| dialogue (`bot/router.py`, `bot/handlers`, `bot/context.py`, `bot/callbacks.py`) | conversation state, draft, active message, buttons' data | every button, text and screen | taps on old messages, restarts, the channel left midway | `Conversation` |
| creating an order (`bot/handlers/order.py:335-513`) | `lock_order_confirm`, payment, row, message | lock, checks, payment, row, message, link | several failing steps, a lock left behind by a failed answer, a webhook ahead of the row | `OrderCreation` |
| promo codes (`bot/handlers/promo_code.py`, `core/tasks/periodic/promo_codes.py`) | active promo, uses, `lock_promo_input_processing` | enter, consume, cancel, deactivate | limits checked and used apart | `PromoCode` |
| broadcasts (`bot/notifications/broadcast.py`, `core/admin.py`) | row of the broadcast, channel, `is_active` | preview, confirm, mass send | admin edits meanwhile, publish/subscribe | `Broadcast` |
| row and payload (`core/repositories/transaction.py`, `core/admin.py`) | row, JSON of the metadata | set a status, note something, save the message id, save a form | objects written back late | `TransactionRow` |
| prices (`core/domain/star_logic.py`, `bot/middlewares/payment_method.py`) | none | price, fee, discount | rounding | - |
| users, statistics, texts, keyboards, wiring | - | - | presentation | - |

A webhook or a poll talks to the pipeline only through Redis (a key and a queued task); tasks talk
to each other by queueing; everything meets in the row of the transaction.

### What makes them correct

- pipeline: stars are ordered at most once per transaction, and only for a row that has been paid
  and committed to sending; a row moves only as the matrix allows, and never back over the point
  of no return; a paid row does not get stuck; a status that a gateway has reported is not
  forgotten under its key.
- record: it follows the order and does not fall behind the statuses it has already shown.
- polls: a final order gets its row out of waiting; a poll never undoes what a webhook brought.
- webhooks: a notification acts once, and none is confirmed without having been acted on.
- message: it never goes back, and what stays behind does so for a reason.
- dialogue and creation of an order: what was shown is what is ordered, no screen is a dead end, a link
  that is shown has its row, a tap opens one payment, and its lock goes with it or soon after.
- promo codes: no more users hold a code than it may be used, and an order that uses it had the discount.
- broadcasts: each active user is served once per press, a failure costs nobody else the message.
- row: no writer but an administrator's form takes back what another one wrote.

`PROJECT.json` lists the hazards at their lines, each with the properties that would catch it or a
note saying why none does.

## 2. The modules

| module | what it is |
|---|---|
| `TransactionStatuses` | the status vocabulary, the matrix, `is_change_status_allowed`, the translations |
| `PaymentPipeline` | webhooks, the three money tasks, locks, keys, failures; properties and inductive invariant |
| `StarsOrder` | the abstract contract: a purchase is open, paid, sending, settled; committing issues one permit to order |
| `Polling` | extends the pipeline with PayPear's payments, the record of an order, both polls and the operator's command |
| `FragmentRecord` | `update_fragment_tx_task`, its three keys and its lock, and the three parties that tell it a status |
| `WebhookFront` | the endpoints request by request: idempotency key, reading, lock, keys, queues |
| `FragmentClient` | the calls to fragment-api request by request, and who repeats what |
| `OrderMessage` | the message of an order and the tasks that keep it in step with the row |
| `OrderCreation` | the button "create the order", step by step |
| `Conversation` | the dialogue of one user, every screen, button and text |
| `PromoCode` | a code with its two limits, the users who enter it, their orders, the nightly task |
| `Broadcast` | the form, the channel, preview and mass sending, who is active |
| `TransactionRow` | one row and its payload under all their writers |
| `PaymentPipelineProofs`, `FragmentRecordProofs`, `PromoCodeProofs`, `PollingProofs`, `WebhookFrontProofs` | the TLAPS proofs about the module in their names |
| `WritersProofs`, `OrdersProofs`, `BotProofs` | the TLAPS proofs about `MCWriters`, `MCOrders`, `MCBot` and the modules these put together |
| `MCPaymentPipeline`, `MCPolling` | values for TLC: sets of gateway reports |
| `MCFragmentRecord`, `MCBot`, `MCWriters`, `MCOrders` | several instances in one run (see the runs) |

`PaymentPipeline` is the composition of webhooks, workers, broker, Redis and the row; `Polling` extends it
by the polls and, with `AnnounceOrder`, the record's task. The other components meet the pipeline in one
or two places only, and model what the pipeline does there as an action of their own: `OrderMessage` and
`TransactionRow` have the tasks that set a status, `OrderCreation` has the report of a payment,
`FragmentRecord` has the three who tell it a status, `WebhookFront` has the task that takes a status. Each
of these is more liberal than the pipeline (any status that the matrix allows, at any time).

### PaymentPipeline: how it corresponds to the code

State: `db` is `Transaction.status` (or `Absent`); `created` is the bot's having saved the row
(`order.py:418`); `payKey`, `fragKey` are the Redis keys `latest_status:{service}:{id}`; `queue`
counts the copies of a task waiting in the broker (a bag: Celery promises no order, with delays and
redeliveries); `lock` is `lock_payment:{id}`, `Crashed` standing for a lock whose owner died and whose
TTL has not run out; `pc`, `task`, `pay`, `frag`, `seen` are where a worker is in its task and the
local variables it has read; `orders` and `order` are fragment-api's; `news`, `crashes`, `faults`,
`retries` count against the bounds.

Every step between two awaits or Redis/DB calls whose interleaving matters is an action:

| code | actions |
|---|---|
| `_process_webhook` (`views.py:32`) | `PaymentWebhook`, `FragmentWebhook` |
| `update_transaction_status_task` (`tasks.py:46`, workflow `418`) | `StartUpdate`, `ConsumeFragment`, `ReadRow`, `FindNoRow`, `Recreate`, `InsertRow`, `InsertFails`, `WriteRow`, `WriteFindsNoRow`, `PublishUpdate`; failing: `WriteIsLost`, `RetryUpdate` |
| `prepare_send_stars_task` (`203`, `263`) | `StartPrepare`, `PrepareWrite`, `PreparePublish`; failing: `PrepareWriteFails`, `ReadFails` |
| `send_stars_task` (`233`, `305`) | `StartSend`, `OrderAccepted`, `AnswerLost`, `OrderRefused`, `OrderRefusedForNow`, `SaveFragmentStatus`, `EnqueueUpdate`; failing: `ReadFails` |
| Celery, Redis | `Crash`, `LockRunsOut`, `LockRunsOutInCall` |
| bot, housekeeping, fragment-api | `CreateTransaction`, `CleanUpCancelled`, `OrderAdvances` |

Choices a reader should know:

- A transaction has one gateway, so one `payKey` stands for the two of `PAYMENT_SERVICE_NAMES`.
- `sync_get_lock_or_retry` requeues a task that cannot have the lock, with no limit on retries:
  requeueing changes nothing, so such a task simply stays in `queue`.
- A webhook's two effects (save, queue) are one action here: the endpoint holds a lock on the key.
  `WebhookFront` has them one by one, with a process of `web` dying in between.
- The key's 48 hours of life and the tasks' own time limits (5 and 10 minutes) are not counted: what
  happens when a limit passes is a choice (`WriteIsLost`, `OrderRefused`).
- Before the bot has saved the transaction nobody has seen the payment link, so a gateway may only
  report that it is pending, has run out, or something unknown.
- `acks_late` tasks are delivered again when their worker is lost with its container, after the
  visibility timeout, by when the lock (180 s) has run out: the model lets the lock run out at any time
  after the death. `send_stars_task` is acknowledged on receipt.
- The lock can run out under a living worker only in the calls to fragment-api (four calls, 45 s per
  phase each). `LockOutlivesCall` says whether it does. Database steps are taken to fit in 180 s.
- The definitions marked "a slip" are plausible mistakes, one per property: with the slip in place of
  the definition it stands next to, TLC finds the property violated (`mutants` in `PROJECT.json`).

### Polling: how it corresponds to the code

`payment` is PayPear's status of the payment (outside); `record` says whether the order's
`FragmentTransaction` exists and `recordTask` whether an `update_fragment_tx_task` waits that would make
it; `payPoll` and `fragPoll` are a poll's place at a row: not there, listed, or about to push an answer.
A Redis lock of its own makes each poll run once at a time; the command is a process of its own and takes no
lock.

| code | actions |
|---|---|
| `_poll_pending_paypear` (`payments.py:37`) | `PayPearLists`, `PayPearAnswers`, `PayPearPushes`, `PollFails` |
| `_poll_unfinished_fragment_orders` (`fragment_orders.py:121`) | `FragmentLists`, `FragmentAnswers`, `DropInquiry`, `FragmentPushes`, `PollFails` |
| `sync_fragment_orders` (`60-125`) | `CommandLists`, then as above |
| `update_fragment_tx_task`, as far as the record comes to exist | `MakeRecord`, `LoseRecordTask` |
| the pipeline | its own actions, with `AnnounceOrder` where the record's task is queued |

- Looking up the record and asking fragment-api are one step: only whether the record is there when
  the poll looks matters, and the record never goes.
- How old an order is, is left open: `decide_next_status` may give up on any order that is not closed.
- The marker `poll_acted` keeps a poll from a row for 30 seconds; here the bound `MaxQueue` on waiting
  copies of the task does. The age limits of the lists and the cut at fifty rows are left out.
- The command may name any transaction, so its inquiry starts from any row.

### FragmentRecord: how it corresponds to the code

`key` is the three Redis keys `latest_status:fragment__from_*`, `queue` the waiting tasks, `record` the
status in the `FragmentTransaction`, `lock` is `lock_fragment:{id}` (`Dead` when its owner died);
`taken` is what a task took from the keys. `order`, `answer`, `inquiry`, `told` belong to fragment-api
and to those who speak for it: the sending task, the poll, the webhooks. A task empties the keys in
three steps (`Start`, `TakePoll`, `TakeCreation`), reads the record (`Read`), makes or writes it (`Create`,
`Write`); a busy database queues it again (`Retry`); a status that was not written goes back under its key
unless there is a newer one (`Fail`). Here the lock outlives the task (a few database calls in 180 s);
the 300 s limit on retries and critical database errors are left out.

### WebhookFront: how it corresponds to the code

A request is a coroutine of the event loop; every await is a step: `CheckKey` (SETNX) and `Expire` of
`validate_fragment_idempotency_key` (`webhook_utils.py:42-54`), `Read` (parsing; PayPear's events about
something else are confirmed), `Acquire` or `GiveUp` (429) of `async_acquire_lock`, then the steps under the
lock in the order of `CriticalSteps` (`views.py:97-110`), and `Release`. `Fails` is an exception at any of them
(the lock is released on the way out), `Dies` a process with some of its requests, `LockRunsOut` the 45 s.
The senders deliver whatever notification whenever they like; `Take` is a task's GETDEL. A notification is
told apart by its service, transaction, key and readability, nothing else. `queuings`, `accepted`, `failed`
and `broken` are history. Authentication is the guard that a delivery has passed it; the health and test
endpoints keep no state.

### FragmentClient: how it corresponds to the code

`phase` is what the shop does for an order: finding the receiver (`resolve_username`), checking the wallet
(`check_is_enough_currency_for_stars`), sending (`create_fragment_transaction_if_not_sent_with_retries`,
which checks again and posts); `at` is the request that is made next, `raised` the exception of the latest
attempt (`_make_request`, `_find_user_by_username`, `_send_stars_request`). `RequestFails` is any bad answer, the
constant `Worst` says which kinds an instance has; a post without an answer may have been taken.
`TryAgain` and `GiveUp` are `retries_with_tenacity` in the bot and Celery's retry in the worker
(`RetriedByTenacity`, `RetriedByCelery`). The wallet is one for all orders; amounts are counted in orders.
Tokens are one answer (`"token"`); `client.py:484-807` is commented-out code.

### OrderMessage: how it corresponds to the code

`history` is the list of statuses the row has had, `forms` says which of them a form wrote, `shown` is the place
of what the message shows. Three write the row:

| code | action | message task |
|---|---|---|
| `update_transaction_status_workflow` (`platega/tasks.py:418`) | `SetStatus`; `SetStatusAndDie` when the worker dies before it queues | queued, also when the row had the status or could not be written |
| `prepare_send_stars_workflow` (`tasks.py:270-302`) | `SetSending` | none: SENDING looks like PROCESSING |
| the administrator's form (`core/admin.py:161`) | `SaveForm` | none |

The tasks read the row, ask the matrix and write later; they exclude each other, but a form may be saved in between
(`MayFollow`, `Write`). A message task takes the lock or leaves (`Start`, `LeaveAsDuplicate`, `tasks.py:165-172`), reads the
row (`Read`, `ReadFails`), edits (`Edit`, `EditAgain`, `EditRefused` for `safe_telegram_action_with_retries`). It dies with
its container, and is handed out again (`Redeliver`) when its lock has run out; or its process is killed alone, and then
Celery acknowledges it and it is lost, as in the pipeline's `Crash`: nothing sets `task_reject_on_worker_lost`. Texts are left
out; `Screen` keeps which statuses look the same.

### OrderCreation: how it corresponds to the code

`pc` is the handler's place in `_create_order_once` and `_handle_order_confirmed_helper`; one action per await:
the lock (`Tap`, `TapFails` when Redis or the alert fails), the answer to the query (`Answer`), checks, payment
(`PaymentOpens`, `NoLink`, `CallFails`), row (`FindRow`, `InsertRow`, `RowFails`), the three
edits of the message, `SaveMessage`, `ClearPromo`. Every failing step is an action, and says whether the
handler stays, raises, or goes on. The query is answered after the lock is taken and before the `try`
(`order.py:490-499`): when that fails, or Redis does at either end, the lock stays for its 180 s (`LeaveLock`, counted in
`strays`). `GatewayMoves`, `Report` and `ShowStatus` are the gateway and the
pipeline as this handler meets them; `NextOrder` starts another order with a message of its own; `Restart`
drops the handler and leaves its lock to run out. Rows stay: the nightly clean-up of cancelled ones is in `PaymentPipeline`.

### Conversation: how it corresponds to the code

`state` is that of the `ConversationHandler`, `draft` and `active` the view context, `screen` the chat, each
message with its keyboard, `expired` the messages whose buttons' data Redis has dropped. Every button and
every text is an action named as its handler; `Button`, `Handles` and `HasBack` are keyboards and router. `Taps`
is `ensure_use_active_conversation_with_callback`, `Old` and `End` are `manage_callback_data`, `Detour` is
`require_subscription`. `Show` is a handler's end: the screen is put (edited, or deleted and sent anew) and the
state returned; or Telegram fails, when the state stays but the view context does not. A price is
named by the quantity it was computed for. Left out: a /start that fails after clearing the context, and
chats other than the private one.

### PromoCode: how it corresponds to the code

`active` are the users whose `active_promo` is the code, `used` the drafts with `is_used_promo_code`, `keys` and
`price` the prices on the keyboard and in the draft, `order` the transactions. Entering is `Enter` (the lock all
users share), `CountOrders`, `CountUsers`, `Activate`, each after an await; ordering is `Confirm`, `CreateOrder`,
`ShowLink`, `ClearPromo`; `HandlerFails` ends either of them anywhere. `Deactivate` is the nightly task.
`StopCounting` and `CountAgain` are what the pipeline does to orders, as far as
`get_processing_or_succeeded_transactions` sees it. A price is "full" or "discounted".

### Broadcast: how it corresponds to the code

`row` is the broadcast as committed, `saved` what the request has saved and not yet committed (SQLite in
IMMEDIATE mode: nobody else writes meanwhile). `Submit` is `Broadcast.save` with `response_change` and the
publishing, `Commit` the end of the request, `Listen` the bot's listener, which starts a coroutine per order
(`job`): `ReadRow`, `UploadPreview`, `RecordPreview`; or `Fetch`, then for one user after the other `Deliver`,
`SendFails`, `Refuse` and `Drop`, then `MarkSent`. `UserMoves` and `Track` are users who block the bot or come back and
the update that tells of it. A `file_id` is named by the media it was uploaded from.

### TransactionRow: how it corresponds to the code

Each writer reads the row into an object and saves some fields of it later. Setters are the tasks under
`lock_payment` (`StartSetter`, `WriteStatus`, `Refuse`), noters the `update_transaction_payload_task`s, under no
lock (`StartNoter`, `SaveNote`), which are queued by a refusal or by an error (`ErrorIsNoted`). The order handler saves the
message id; the administrator's form saves every field as it was when it was opened. `DatabaseFails` is a
busy or a broken database. `overlap`, `meddled` and `sendings` are history.

## 3. The runs

| run | bounds | what it shows |
|---|---|---|
| `PaymentFaults.cfg` | 1 transaction, 2 workers, every report of both gateways, 3 pieces of news, 1 death, 1 database error, 1 send retry; the lock may run out in a call | `IInv`, `AtMostOneOrder`, `OrderHasCommittedRow`, `StatusFollowsMatrix`, `NoWayBack`, `ImplementsStarsOrder` |
| `PaymentLiveness.cfg` | a link that runs out, is paid late and refunded; 3 pieces of news, 1 send retry, no deaths or errors; the lock outlives calls | `ProcessingEnds`, `SendingEnds`, `MoneyNewsIsTaken`, `OrderedWhileSending` |
| `PollingPayPear.cfg` | 1 worker, 1 piece of news, 1 death | `PaidIsNoticed` |
| `PollingFragment.cfg` | 2 workers, 1 piece of news, 1 death, 1 unanswered call; poll and command | `PollingInv`, `ClosedOrderIsNoticed` |
| `Record.cfg` | 2 workers; in any order: 2 webhooks, 1 poll, 1 error, 1 death; in order: 3 webhooks, 2 errors, 1 death | `IInv`, `WritersExclude`, `KeysAreEmptied`, `InOrderRecordFollows`, `InOrderRecordStays` |
| `Bot.cfg` | promo code: 2 users, 2 orders, both limits 1, 1 failure or 1 late payment (roomy: one more use in all, neither); dialogue: 2 quantities, 1 friend, 3 messages, 1 failure, 1 change of membership | `BotInv`, `HoldersWithinLimit`, `UsedCodeGaveDiscount`, `UndisturbedLimitKept`, `WhatIsShownIsOrdered`, `NoDeadEnd`, `LinkStays` |
| `Writers.cfg` | row: 2 tasks, 2 notes, 1 form, 1 database error; webhooks: 1 transaction, 2 requests at a time, 3 deliveries, 2 failures | `WritersInv`, `NotesAreLostInOverlapOnly`, `OnlyFormsTakeBack`, `KeyedNewsActsOnce`, `AcceptedNewsIsQueued`, `StatusHasItsTask`, `KeysTellTheSame` |
| `Orders.cfg` | message: 2 tasks, 3 statuses, 1 form with either of 2 statuses, 1 error, 1 death; creation: 2 payments, 2 taps, 2 failures, 1 restart, 1 lock left behind; calls: 2 orders, a wallet for both, 2 attempts, 2 runs of the task, 2 bad answers of any kind; broadcast: 2 users, 1 media, 2 presses, 2 moves of users, 1 failure | `OrdersInv`, `BehindForAReason`, `PaymentsAreKnown`, `OrderedOnce`, `EachUserIsServedOnce`, `NoOldNews`, `StepsAreJustified`, `WorkEnds` |
| `PollingNoRecord.cfg`, `PollingOverWebhook.cfg`, `RecordLateAnswer.cfg`, `FragmentBusy.cfg` | 1 transaction (2 orders in the last) | what a comment says and the code does not do: see below |

Transactions share nothing but workers, so one is enough; two workers are what it takes for two tasks
of one transaction to overlap (a third one could only wait for the lock). Two webhooks are a payment
and its undoing, three add one that is late. Two users and two orders of a promo code are what it takes to go
over a limit of one; three messages of the dialogue are an active one, an old one and the next. Two tasks
of a message are one that edits and one that leaves as a duplicate or comes after; the theorems hold for any number. Every bound is a
guard (`news < MaxNews`, ...): the code has none. The runs do not check for deadlock: a shop with
nothing to do may stop.

`Bot`, `Writers`, `Orders` and `Record` hold several instances each. These share no state that is modelled, so
interleaving them would say nothing that each does not say alone: `part` names, from the first state on,
the only one that moves, and the other variables keep one initial value. `Orders` states fairness for all of its
parts, so that liveness (`WorkEnds`) is checked for each. Symmetry is used where only safety is checked
(`PaymentFaults`, `Bot`, `Writers`).

What they show beyond the obvious:

- `AtMostOneOrder` does not hang on the lock alone: it holds even when the lock runs out while
  fragment-api is called, because the right to order is handed from task to task and `send_stars_task` is
  acknowledged on receipt. With `acks_late=True` on it (the slip `AcksLateSendToo`), a worker that
  dies after the POST makes for a second order.
- `StatusFollowsMatrix` holds although the workflow checks the matrix before it writes and the write
  checks nothing: the lock keeps the row as it was read, but for the nightly clean-up, and for that
  one the write affects no row.
- `OrderedWhileSending` needs the lock to outlive the calls; without that an order can be placed for a row
  that has gone to CHARGEBACKED meanwhile.
- `MoneyNewsIsTaken` needs its exception: a row that the clean-up deletes between a task's reading and
  writing it leaves the status under its key with no task to take it. TLC found it.
- `UndisturbedLimitKept` is all that holds of `usage_account`: one failure after the draft is used, or one cancelled
  order that is paid late, and a user has the discount once more. Of `usage_global` only the number of holders is
  limited (`HoldersWithinLimit`), not that of the orders.
- `AcceptedNewsIsQueued` needs its exception for a webhook with a key whose first delivery failed after the key was
  set: the repetition is confirmed as a duplicate and nothing is queued. The Fragment poll is what
  heals that (`ClosedOrderIsNoticed`).
- `BehindForAReason` lists the reasons for which a message stays behind its row for good: a duplicate that left, a task
  that gave up, a worker that died, a form, or SENDING written over what a form wrote. The next status, if there is one,
  puts it right. SENDING after PROCESSING needs no task of its own.
- `WorkEnds` allows a status that was read and not shown when a task gives up or is lost with its process.
- The lock of the order button may outlive its handler without a restart: `LockFollowsHandler` (in `OrdersInv`) names the
  reasons, and `BusyMeansCreating` (`OrderBusy.cfg`) shows what the customer is told meanwhile.
- `NotesAreLostInOverlapOnly` is as much as can be said of the payload: two notes at the same time lose one of them.

### Fairness

`Fairness` of the pipeline is weak fairness of a worker's next step, of taking a waiting task when some worker can
take it, and of the lock's TTL. Celery's prefork workers take any task, requeued tasks come back after their
countdown, and Redis expires keys. Nothing is assumed of gateways, Fragment or customers. Its
liveness properties are stated for runs without deaths and database errors, because with them they do
not hold of this code: see the hazards at `tasks.py:69` and `tasks.py:298`.

`PollingFairness` adds that celery-beat starts both polls again and again (`config/celery.py:57-64`), that
an inquiry goes on, and that the record's task is run if it is not lost. Unanswered calls and database
errors are bounded: an outage ends. `PaidIsNoticed` and `ClosedOrderIsNoticed` allow deaths: the polls are
what heals the statuses that a death loses. In `FragmentRecord` workers run and take tasks, the sending task
saves its answer, and the lock of a dead worker runs out; its liveness properties except a death, which
does lose a status for good.

`OrdersFairness` is weak fairness of each process of the part that moves: one for each message task, call for an order
and broadcast's coroutine (`Runs`); the handler of the order button, the end of the admin's request and the TTL of the
message lock (`HandlerRuns`); the TTL of the order button's lock and the bot's listener (`ListenerRuns`). A task that died
with its container comes back; of one whose process was killed nothing is assumed. Nothing is assumed of
users, administrators, gateways or Telegram's good will: failures are bounded, not unfair.

### Where code and comments part

Four runs state what a comment says and TLC refutes it; `findings` in `PROJECT.json` quotes the lines.

- `NoRecordNoOrder`: "there is no order at Fragment, the stars were not sent" of a waiting row without
  a record (`fragment_orders.py:149-151`, `sync_fragment_orders.py:86-90`). The record may be late or lost.
- `PollAgreesWithWebhook`: the poll takes "the same lock as the webhook, not to diverge from it"
  (`fragment_orders.py:182`), but after it has decided; its older doubt then overwrites the webhook's
  end. A later poll puts that right.
- `AnswerGoesLast`: "the status from the moment of creation is the oldest, it goes last"
  (`fragment/tasks.py:50-51`) holds among the statuses one task finds, not between tasks. The record then
  stays behind, and nothing repairs it once the transaction is closed.
- `BusyIsRetried`: `parse_retry_after` "returns seconds or None" (`fragment/utils.py:9`), but raises `AttributeError` for
  a number without a unit, the common form of `Retry-After`; the order then fails at the first 429.

Thirteen more configurations state such a sentence about the components that are modelled in less depth. They are kept for
the reader, to be run as `tlc -config X.cfg Module.tla`; each ends with the counterexample named here.

| configuration (module) | property | what is said | what the code does |
|---|---|---|---|
| `MessageDuplicate` (`OrderMessage`) | `DuplicateCanLeave` | «Если мы не смогли получить замок, значит мы дубликат - можно завершаться» (`platega/tasks.py:171`) | the holder may have read the row before the latest status: the message stays behind |
| `PromoAccountFault` (`PromoCode`) | `AccountLimitKept` | «На аккаунт» (`core/models.py:39`) | an order that fails half way leaves the code active after its use |
| `PromoGlobal` (`PromoCode`) | `GlobalLimitKept` | «Всего» (`core/models.py:40`) | uses are counted when the code is entered, not when it is used |
| `PromoDiscount` (`PromoCode`) | `DiscountIsAccounted` | «Был активирован промокод, но произошла автоматическая деактивация. Активируй промокод снова» (`bot/handlers/order.py:383`) | the draft's flag is cleared (`:304`) while the discounted price stays in it |
| `OrderOneMessage` (`OrderCreation`) | `MessageKeepsItsOrder` | «ID сообщения, для которого генерируется ссылка на оплату, чтобы вебхук мог изменить это сообщение» (`core/services/payment.py:108-109`) | after a failure the same message may belong to two rows |
| `OrderTrouble` (`OrderCreation`) | `GatewayTroubleIsTold` | «…у платёжной системы наблюдаются сетевые проблемы. Попробуй снова через 5 минут» (`bot/handlers/order.py:406`) | the clients raise exceptions of their own (`platega/client.py:136-175`, `paypear/client.py:169-209`) that this branch does not catch |
| `OrderBusy` (`OrderCreation`) | `BusyMeansCreating` | «Заказ уже создаётся, подожди немного…» (`bot/handlers/order.py:59`) | when the answer to the query fails (`:498`), or Redis does, the lock stays for its 180 s with no order being made |
| `FragmentCovered` (`FragmentClient`) | `CheckedIsCovered` | «…чтобы убедиться, что бот сможет сделать автоматический перевод звёзд» (`fragment/client.py:83-85`) | two orders may be checked against one wallet (the TODO at `:127` knows) |
| `BroadcastPreview` (`Broadcast`) | `PreviewIsOfTheMedia` | «(Если вы изменили медиа, предпросмотр нужно отправить заново).» (`core/admin.py:326`) | the preview's `file_id` is recorded after the upload, whatever the media is by then |
| `BroadcastInactive` (`Broadcast`) | `InactiveIsUnreachable` | «Пользователь неактивен, если у бота нет к нему доступа» (`core/models.py:72`) | a user who came back during the sending is written off by an older refusal |
| `BroadcastLost` (`Broadcast`) | `AcceptedReachesTheBot` | «Массовая рассылка запущена в фоновом режиме.» (`core/admin.py:344`) | the channel keeps nothing for a bot that does not listen (`redis_service.py:245-259`) |
| `RowNotes` (`TransactionRow`) | `NotesAreMerged` | «(если обновлять через `transaction_obj`, то запись будет просто обновлена)» (`core/repositories/transaction.py:308-309`) | two tasks merge into what they have read, and one loses the other's note |
| `RowForm` (`TransactionRow`) | `SendsOnce` | «Тут переход сам в себя запрещён!» (`core/domain/enums.py:99`) | the admin's form saves a status read long before, and the row passes SENDING twice |

## 4. The proofs

Eight modules hold proofs, for all values of the constants that satisfy the named assumption. Every invariant and
every action property that a passing run checks is stated by a theorem, about the specification of the run or of the instance in it (fairness aside, which safety does not need).

| theorems | properties | from |
|---|---|---|
| `PaymentPipelineProofs!Invariant` | `IInv` | `ConstantsAssumption`: the lock's values are no workers, the replies of fragment-api are its statuses, bounds are naturals |
| `TypeCorrect`, `NoSecondOrder`, `OrdersAreCommitted` | `TypeOK`, `AtMostOneOrder`, `OrderHasCommittedRow` | `Invariant` |
| `MatrixIsKept`, `NoReturn` | `StatusFollowsMatrix`, `NoWayBack` | `Invariant` |
| `SendingWhenOrdered` | `OrderedWhileSending` | `Invariant`, and that the lock outlives the calls (`LockOutlivesCall`) |
| `Refinement` | `ImplementsStarsOrder` | `Invariant` |
| `ContractOrdersOnce` | `OrderedOnce` of `StarsOrder` | nothing |
| `PollingProofs!PollingInvariant`, `NoSecondOrderWithPolls` | `PollingInv`, `AtMostOneOrder` | `ConstantsAssumption`, `PollingAssumption` |
| `RowsWithPolls`, `RefinementWithPolls` | `StatusFollowsMatrix` and `NoWayBack`, `ImplementsStarsOrder` | `PollingInvariant` |
| `FragmentRecordProofs!RecordInvariant`, `OneWriter` | `IInv`, `WritersExclude` | `RecordAssumption`: the lock's two special values are distinct and no workers, bounds are naturals |
| `ClosedStaysInOrder` | `InOrderRecordStays` | the same, and the two facts that make up the run's second instance |
| `PromoCodeProofs!PromoCodeInvariant` | its `IInv` | `PromoCodeAssumption` |
| `HoldersAreLimited`, `DiscountIsGiven` | `HoldersWithinLimit`, `UsedCodeGaveDiscount` | `PromoCodeInvariant` |
| `AccountsAreLimited` | `AccountLimitKept` | no handler fails and no cancelled order is paid (with them it does not hold: `PromoAccountFault.cfg`) |
| `WebhookFrontProofs!CriticalSection`, `ActsOnce`, `AcceptedIsQueued`, `HasItsTask`, `TheSameIsTold` | `WebhookInv`, `KeyedNewsActsOnce`, `AcceptedNewsIsQueued`, `StatusHasItsTask`, `KeysTellTheSame` | `WebhookAssumption` |
| `WritersProofs!RowInvariant`, `OnlyFormsDo`, `NotesAreKept` | `RowInv`, `OnlyFormsTakeBack`, `NotesAreLostInOverlapOnly` | `RowAssumption` |
| `WritersInvariant`, `KeyedActsOnce`, `AcceptedQueues`, `StatusesHaveTasks`, `KeysAgree` | `WritersInv` and the four of `WebhookFront` | the theorems of `WebhookFrontProofs`, for both instances |
| `OrdersProofs!MessageInvariant`, `NewsGoesForward`, `BehindIsExcused` | `MessageInv`, `NoOldNews`, `BehindForAReason` | `OrderMessageAssumption` |
| `PartsAreSound`, `PaymentsKnown`, `StarsOrderedOnce`, `UsersServedOnce`, `Justified` | `OrdersInv`, `PaymentsAreKnown`, `OrderedOnce`, `EachUserIsServedOnce`, `StepsAreJustified` | the assumptions of the four parts |
| `BotProofs!BotIsSound`, `UndisturbedLimit`, `NoDeadEnds`, `ShownIsOrdered`, `LinksStay` | `BotInv`, `UndisturbedLimitKept`, `NoDeadEnd`, `WhatIsShownIsOrdered`, `LinkStays` | `ConversationAssumption`, `PromoCodeAssumption` |

**PaymentPipeline.** `AtMostOneOrder` is not inductive: a state with one order and a `send_stars_task` waiting satisfies it and
a step violates it. `IInv` strengthens it by

- `WorkersInv`: a busy worker has a task of the right kind, and in update and prepare it holds the lock
  (a sending worker may have lost it);
- `FreshInv`: what a worker has read of the row is still so when it writes, which is the lock's doing;
- `RightsInv`: per transaction there is at most one right to place an order: the worker that has just
  moved the row to SENDING, or one copy of `send_stars_task` in the queue, or the worker that is about to
  call fragment-api; while there is one, nothing has been ordered, and the row is past the point of no
  return.

The right is made when a row goes to SENDING. That happens once, because no status that Redis can hold
leads from the statuses past the point of no return to one before it (`PastIsClosed`, from the matrix).
It moves (`RightTaken`, `RightQueued`), is used (`RightUsed`) or fades (`RightsKept`); no step copies it.
The action properties follow from `FreshInv` and the steps that write rows (`WhoWritesRows`, `RowStep`).

The refinement takes the right for the contract's permit (`MayOrder`) and the status for the purchase's stage (`StageOf`).
A step maps by what it does to them: it moves a row (`StageStep`), and the rights are left alone (`UntouchedRights`); it
commits, and makes a right; or it is one of the sending steps, and places an order, forfeits or stutters (`SendingStep`).
That the contract itself never orders twice is a theorem of its own. `OrderedWhileSending` needs one invariant more, that the worker
at its call has the lock and its row is in SENDING, and that is so only while the lock outlives the call.

**Polling.** A step is one of the pipeline (`PipelineGoesOn`) or it brings news, that is, it writes keys and update tasks
and nothing else (`NewsComes`). `IInv` says nothing of those but their types, so it is kept, and with it go the theorems.

**FragmentRecord.** `WritersExclude` is not inductive; `HoldsLock`, that a worker at its task has the transaction's lock, is: a
task starts only when the lock is free (`StartKeepsInv`), who lets go lets go of its own (`LeaveKeepsInv`), and a
dead worker's lock belongs to nobody until it runs out (`DeathKeepsInv`). With one worker at an order, `InOrderInv` can put
in order what it has taken, what lies under the keys meanwhile, the record and the order at Fragment: none is
further than the one it comes before, and the answer of the sending task is spent when there is a record.

**PromoCode.** That no more users hold a code than it may be used hangs on the lock all users share: `EntriesExclude` (one user
at a time between counting and activating, and what was counted of the holders still holds). `DiscountFollows`
carries the discount from the keyboard's price to the draft to the order, so that an order which uses the code up had it.
For the limit for an account, `LimitInv` says that whoever has the code, or is about to have it, and has not used it up may still
use it once (`MayUse`): counting and activating are two steps, but both are the same user's.

**WebhookFront.** Each theorem has an invariant of its own. `Locked`: who is past the lock holds it. `Once`: of a
notification's requests one has set its key, and nothing is queued before that one is through. `AcceptedInv`: somebody
answers for what was confirmed. `TaskInv`: who has written under a key is still to queue the task. `Tells`: what the request
under the lock has left under the order's two keys by each of its steps. Only the last needs the lock.

**MCWriters.** For the row, `OneSetter` and `ReadHolds`: while a task is between reading and writing, the status it has read
is the row's, unless an administrator's form was saved meanwhile; so only a form takes a status back. `NotesInv` follows a
note from its writing: it is still there, or the one that wrote over it had read before, or has its key.
For the endpoints, each of the two instances is shown to be one of those that `WebhookFrontProofs` is about, assumption,
initial states and steps; `WritersCompose` puts them side by side.

**MCOrders.** The parts share no variable and each has an invariant. `MessageInv`: the task at a message has its lock and has read
nothing older than what is shown; `OwedInv`, on top: what the message lacks is on its way, unless a worker died, a task gave up or
left, or the row has looked that way since a form (`LooksUnannounced`); that SENDING owes nothing is `SendingOwes`, from the matrix.
`CreationInv`: the lock goes with the handler or is left behind with a restart or a stray to account for it, a handler
that has a payment has a row for it, and the payments that were opened, with the one that may still be, are as many as the taps. `CallsInv`: the stars of an order were taken once, and then the call is over
or is in the one error that nobody repeats. `SendingInv`: a coroutine knows whom it has served and whom it has yet to serve
(`JobOK`), and the form, the inbox and the users agree with it.

**MCBot.** Type and `DraftIsComplete` are far from inductive: state, draft and screen are changed by
different lines, a handler that raises leaves the state, a "back" takes the state from the screen. `DialogueInv` relates the three: the draft has
what the state relies on, the screen tells the draft, a button leads only where the draft may go (`Fits`), and while nothing failed
the screen has a way on (`WayOn`). A handler keeps it by what it sends, edits or deletes, by what the user sees then, also
when Telegram fails halfway (`Drawn`), and because that fits the draft it leaves (`DrawnKeeps`).
The same steps say what happens to links (`LinksKept`, `OrderShown`).

Only model-checked: liveness (`ProcessingEnds`, `SendingEnds`, `MoneyNewsIsTaken`, `PaidIsNoticed`, `ClosedOrderIsNoticed`,
`KeysAreEmptied`, `InOrderRecordFollows`, `WorkEnds`), which needs fairness and ENABLED and is out of the prover's
reach. The strengthened invariants that are defined beside their proofs were tried with TLC before they were proved; the runs
check those that are defined in the models.

## 5. The plan

Done: all modules of section 2, with the proofs of section 4.

Left, in this order:

1. The remaining properties of the thirteen configurations of section 3 that hold under a condition: `CheckedIsCovered` when one order is
   in work, `MessageKeepsItsOrder` without failures, each as a theorem with the condition as its hypothesis.
2. Safety under the pipeline's liveness: that a status under a key has a task, a worker or a poll that will take it, unless a worker died.
3. Shorter proofs of the dialogue, where one lemma for each screen may do for several handlers.

## 6. Not modelled

- Prices (`core/domain/star_logic.py`, `bot/middlewares/payment_method.py`): sums of decimals with 28 digits and roundings;
  TLC's integers have 32 bits, and an instance small enough would not round as the code does. A price is computed in one place,
  when the keyboard is built, and carried from there: that it can be stale is modelled (`PromoCode`, `Conversation`).
- Authentication, parsing and wire formats; the wording of texts and keyboards; settings, wiring and migrations;
  statistics, the profit table and the settings forms of the admin site; registration and the refresh of user names.
- `fragment/client.py:484-807` is commented-out code.
- Clients' HTTP details beyond the kinds of answers in `FragmentClient`: their outcomes are choices of the model.
- Chats other than private ones; a `/start` that fails after the context was cleared and leaves an empty draft; a repeated order
  by a user who is not subscribed any more, which deletes the active message.
- A message task whose row is gone: `webhook_workflow.py:49` reads its status before line 50 asks whether there is one, so the
  task raises where it meant to show CANCELLED.
- ASGI's life cycle, the 48 hours of the keys, the cut at fifty polled rows, the growth of the buttons' data in Redis.
- Time is modelled by what can happen before or after what, never by a clock.
