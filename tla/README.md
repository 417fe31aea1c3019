# A TLA+ verification of aio-multibroker

aio-multibroker is an asyncio client for the Alor OpenAPI: REST calls that place
orders, and websockets that deliver market and account data. This directory
models its concurrent core in TLA+, model-checks it with TLC and proves its
safety properties with TLAPS. `PROJECT.json` lists the runs, the source lines
each definition stands for, the mutations each property detects, the hazards of
the code and the theorems.

    tlc -workers 2 -config RestSession.cfg MCRestSession    # one run
    tlapm RestSession_proofs.tla                            # one proof module

## 1. The system

Everything runs in one asyncio event loop: **coroutines interleave only where
the code awaits**. All models rest on this: an action is the code from one
`await` to the next, and a cancellation arrives at an `await`.

| component (file) | state it keeps | operations | what is hard | what makes it correct |
|---|---|---|---|---|
| shared REST session (`mb_client.py`) | `rest_session`, `_rest_session_lock` | `_create_rest_call`, `_get_rest_session`, `_recreate_rest_session`, `close` | several requests fail on one session while others create, close or use its replacement; cancellation at each await | no session leaks; a failure closes only the session it happened on; the failed session is not used again |
| retry wrapper (`AlorClient._create_rest_call`) | per call: attempt, `last_exc` | sign, send, classify, back off, refresh, give up | requests and answers are lost or late, so one order may reach the broker several times | an order is executed at most once; what the user is told is true; the call ends |
| JWT (`AlorClient._ensure_jwt_token`, `_refresh_jwt`) | token, time of issue, `_jwt_refresh_lock`, JWT session | ensure, refresh (locked, or after a 401 unlocked), close | expiry and revocation under concurrency, refreshes that fail half-way or overtake one another | a locked refresh only when needed; nobody signs with a stale token; a call survives a revocation |
| websocket manager (`ws_manager.py`, `AlorWebsocket.py`) | `mode`, `websocket`, task group | `run`, `main_loop`, `shutdown` | reconnect, shutdown and cancellation at any await; two tasks close one websocket | resubscribe before data; no connection dropped open; a shutdown stops it |
| all websockets of a client (`MBClient.start_websockets`, `shutdown_websockets`) | a task per manager | start, stop on error, shut down | walks with an await per manager, by two tasks at once | an error stops all managers and reaches the user |
| subscription registry (`MBClient`, `WebsocketMgr`) | the list of a set, the list of its manager | compose, add, unsubscribe | the lists alias until the first unsubscription; calls race the resubscription and each other | a listed subscription is subscribed, or somebody was told it is not; what was unsubscribed stays so |
| dispatch (`_process_message`, `publish_message`, `process_callbacks`) | the tasks of the callbacks | route, call, gather, log | callbacks fail, last, are cancelled, change the lists | one message at a time; a failing callback takes no other with it |
| transport (`AiohttpWebsocket`) | the aiohttp websocket | connect, receive, send, close | `is_open()` is true while a close is under way | (part of the manager) |
| order and read methods, subscription messages (`AlorClient`, `AlorWebsocket.py`) | none | validation, `X-REQID`, the request | which arguments each method checks, and what `None` and zero become | exactly the malformed orders are refused; what changes something can be repeated |
| accounts (`_parse_accounts`), Moscow time (`functions.py`) | `accounts` | pure functions | portfolios are given to agreements by position; the hour that occurs twice | an account has its own agreement; conversions are inverse |
| enumerations, exceptions, utilities, examples | none | | | (names; not modelled as such) |

How they interact: an order method draws an `X-REQID` and calls the retry
wrapper; each attempt calls `MBClient._create_rest_call`, which signs (JWT) and
uses the shared session; a 401 calls `_refresh_jwt`. `start_websockets` creates a
manager and a task per subscription set; `main_loop` asks the client for a token,
sends the subscriptions and hands messages to callbacks, and a callback may call
any method of the client, `shutdown_websockets` included. Leaving `async with`
calls `shutdown_websockets` and then `close`.

## 2. The modules

| module | what it models | run / proofs |
|---|---|---|
| `OneSession` | abstract: one slot, emptied before it is filled again | |
| `RestSession` | the shared REST session | `RestSession`, `RestSession_proofs` |
| `OrderCall` | abstract: what the user of an order method is promised | |
| `RestRetry` | one order call, the network, and the broker's duplicate filter | `RestRetry`, `RestAuthOnce`, `RestCalls_proofs` |
| `JwtToken` | the token, its lock, the unlocked refresh, the JWT session | `JwtToken`, `JwtToken_proofs` |
| `RestClient` | `RestSession` and `JwtToken` composed: whole calls and `close()` | `RestClient`, `RestClient_proofs` |
| `AlorRequests` | what every public method and subscription makes of its arguments | |
| `Accounts`, `MskTime` | the parsing of the token's accounts; Moscow time | |
| `AlorFunctions` | the three together, a case at a time | `AlorFunctions`, `RestCalls_proofs` |
| `WsLifecycle` | abstract: a manager as the client sees it | |
| `WsManager` | one manager with its connection | `WsManager`, `WsShutdownLost`, `WsManager_proofs` |
| `WsDispatch` | messages and the callbacks they are given to | `WsDispatch`, `WsDispatch_proofs` |
| `WsClient` | N lifecycles under `start_websockets` and `shutdown_websockets` | `WsClient`, `WsClient_proofs` |
| `WsSubscriptions` | the two subscription lists and what the broker has | `WsSubscriptions`, `WsRefused`, `WsSubscriptions_proofs` |

`MC<module>` is the module TLC runs; the `.cfg` gives the constants their values.
Definitions marked "Mutation" are faulty variants
of the action that follows them; no specification uses them.

**RestSession.** `restSession`, `open` and `lockQueue` are the attribute, the
sessions with `.closed` false and the `asyncio.Lock` (a FIFO whose head is the holder or
the task woken to become it). `pc` and `target` say where a task is suspended and
with which local `session`. `StartRequest` is the code up to the await of the
response; `RequestFails` the `except` clause up to the next await; `CloseDone`
and `CloseInterrupted` what follows `await target.close()`. The retry wrapper's
`asyncio.timeout` is one of the causes of `RequestFails`. A session is an
identity and Python may reuse one, so a new session is any identity nothing refers to.

**RestRetry.** One loop of the wrapper over an adversarial network: `Lose` a
request, `Refuse` it before the order is looked at, `Process` it and answer,
answer through a failing proxy, or not at all; a request outlives the attempt
that sent it. `decided` is the broker's memory of each `X-REQID`, an assumption
on the broker (marked external) that the code relies on.

**JwtToken.** The clock is the whole seconds the code compares; `age` saturates at
the time to live. `"refreshing"` is a refresh under the lock, `"direct"` the one
after a 401. `open` holds the sessions not closed and not garbage-collected:
a session is dropped when neither the client nor a running refresh refers to it.
`unlocked` remembers that the last word on the token was an unlocked refresh.

**RestClient.** A step is one of `RestSession`, one of `JwtToken`, or both at once
where the code has no await between them: the request leaves in the step in which
the token is there (`Send`), and what follows the answer is in the step that takes it.
`phase` is where the wrapper is, `attempt` its loop variable, `cause` the exception
that the clean-up of the session will raise again. New is the broker's side of the token:
it revokes once everything it has issued (`Revoke`), so that a token is from
`"before"` or from `"after"`; `early` marks a refresh that was asked for before
and may be answered with either. `cached`, `signed` and `early` record that and
are read by no action of the client, only by the broker's choice of a 401. `quiet` remembers
of each `close()` that no call was under way when it began.

**AlorRequests.** A method is a row of a table: which checks it makes,
which fields it always sends, sends if true, or sends if not `None`, whether it draws
an `X-REQID`, and how it formats the exchange. `Request` is the one function all rows
share, and its value the request or the exception. Arguments that are only passed
on are `None`, `"zero"` or `"set"`. `ReadsValue` names the enumerations whose `.value` is read,
where `None` is an `AttributeError` and not a text. `WellTyped` is what the signatures declare: numbers are
numbers, and among what a method always sends only enumerations have `None` for a default.

**Accounts, MskTime.** A portfolio is its place in the token's list, and `ParseAccounts` the
slicing loop: the recognised places of each agreement's slice. Its reference is where each
agreement's portfolios really start. `MskTime` counts hours over
a zone whose offset goes up once and down once, which gives one skipped hour and one
that occurs twice; `fold` is Python's. The zone is external, the four conversions are the code's.

**AlorFunctions.** A behaviour is one case: a call and the request it comes to, a token's
lists, or an hour to convert. The cases are constants, any that fit the declared types.

**WsDispatch.** `WsManager`'s receiving and `Deliver` one level down. A task is a pair
of message and index of a callback; `started`, `running` and `failed` are sets of them.
`Publish` is the code up to `gather`, `Gathered` what follows it. `Relist` stands for
any `subscribe` and `unsubscribe` meanwhile.

**WsManager.** `run`, `loop` and `shut` are where the three coroutines are
suspended; `ws` is the state of the websocket object; `Classify` is the `except`
clause, `Finally` and `Proceed` the `finally` clause before and after its await.
"fatal" and "recoverable" are the two classes of `_is_recoverable_exception`; "malformed" is the
fatal one of a message that is no JSON. A message that came just
before a `close()` may still be delivered after it has begun.

**WsClient.** Each manager is a copy of `WsLifecycle`, which `WsManager` is shown
to implement and `ManagersConform` shows each copy to follow, so what is
shown here holds of the real managers. `Walk` is `shutdown_websockets` from one
await to the next; the task that makes it may be cancelled in the middle (`UserInterrupted`,
`CancelStart`). Tasks created together make their first steps together (`StartAll`).

**WsSubscriptions.** `shared` says that set and manager still hold one list
object, `live` that `main_loop` is iterating over the manager's present list, so
that `+=` extends what it sends and a rebinding does not shorten it. A call of
`unsubscribe_subscriptions` looks its list up member by member and unsubscribes the
whole list for each (`LookUp`, `RemoveSends`): `left` is what it has still to look up,
`unsent` what it has still to send.

## 3. The runs

Passing runs:

| run | instance | what it shows |
|---|---|---|
| `RestSession` | 3 requests, 1 closer, 5 session identities | `NoLeakedSession`, `ClosedOnlyByItsUser`, `CleanupRetiresSession`, `WaitersServed`; refines `OneSession` |
| `RestRetry` | 3 attempts, 1 refresh: the code's constants | `AtMostOnce`, `RejectedNeverExecutes`; refines `OrderCall`, by which the call ends |
| `JwtToken` | 3 callers, 1 closer, 4 sessions, TTL of 1 second | `LockedRefreshNeeded`, `EnsureReturns` |
| `RestClient` | 2 callers, 1 closer, 4 and 3 sessions, 2 attempts, 1 refresh | `SurvivesRevocation`, `ClosedIsClosed`, `NothingForgotten`, `CallsEnd` |
| `AlorFunctions` | all methods and combinations of boundary arguments; 1 to 3 agreements of 0 to 4 portfolios; 25 hours | `OrdersValidated`, `RepeatableMutations`, `NoneNotSent`, `AccountsAttributed`, `TimesConverted` |
| `WsManager` | 2 subscriptions, auto-reconnect | `NoOrphanConnection`, `ConnectedShutdownStops`, `WakingShutdownIsClean`; refines `WsLifecycle` |
| `WsDispatch` | 3 messages, 3 subscriptions with 2 or 3 callbacks | `DispatchInv` (its heart: `OneMessageAtATime`), `Isolated`, `NotStuck` |
| `WsClient` | 3 managers | `NoErrorSwallowed`, `ErrorStopsAll`, `ShutdownTellsAll`, `ErrorSurfaces`; managers conform to `WsLifecycle` |
| `WsSubscriptions` | 2 composed and 1 added subscription, 2 calls that unsubscribe | `SubscribedOrReported`, `UnsubscribedStaysSo` |

Every passing run of a state machine with an `IInv` also checks it, the invariant the proofs are
built on, which has further properties as its parts (`BadTokenNotServed`,
`ResubscribedBeforeData`, `EndsDisconnected`, `NobodyLeftRunning` and others).

Why the bounds suffice. Three callers are a holder, a waiter and a third that
still works on the old or already on the new session; one closer more makes four
tasks for a queue. A task that needs a fresh session holds none itself, so with
one identity for each other task, one for the current session and one more the
supply never blocks a step: five in `RestSession`, four in `JwtToken`, whose
closer holds none. A TTL of one tells fresh from expired, which is all the
code compares. Two subscriptions are the least for which a connection can break
half-way through resubscribing. Three managers are one that fails, one whose
shutdown is awaited and one not reached yet. In `RestClient` two callers are enough for a refresh that overtakes another, and two
attempts for a 401, a refresh and the answer to the attempt after it; its sessions follow
the same count. `WsDispatch` needs a second message behind one whose callbacks fail or
were abandoned, and a third after it; its three subscriptions are the three
ways a message can go. `WsSubscriptions` needs two members of one list to fail between
them and a second call whose list overlaps the first. In `AlorFunctions` each check
sees the values on both sides of its limit, agreements with fewer and with more
than three portfolios stand before others, and the hours span both changes of the clock.
All the safety properties are also proved for every value of the constants, so that the bounds
matter for liveness only, and for the three disagreements below.

Deadlock is checked except where the program ends: the calls of `RestRetry` and
`RestClient` and `run()` in `WsManager` do, and a case of `AlorFunctions` is one step.

Runs that TLC is expected to find violated, each a statement of the
repository's own text that the code does not keep:

| run | property | what the code does |
|---|---|---|
| `RestAuthOnce` | a 401 is raised only after a refresh (`exceptions.py:36`, README) | `attempt < AUTH_RETRY_LIMIT` counts attempts: a 500 or a time-out first, then a 401, and no refresh is tried |
| `WsShutdownLost` | a manager that is CLOSING ends (`shutdown()`: "already being shut down") | nobody looks at the mode while there is no connection |
| `WsRefused` | "No active subscription ... found." | a subscription added after an unsubscription is active, and refused |

`WsShutdownLost` reaches further: a manager that misses its shutdown in this way
keeps `start_websockets` from raising another manager's error. `ErrorSurfaces`
therefore names that case as its only exception.

Other places where text and code part are exceptions in the properties, so that each says
exactly how far the code goes:

- The refresh after a 401 does not take the lock, although the docstring of
  `_ensure_jwt_token` says that concurrent tasks make one call. `LockedRefreshNeeded` has
  the exception `unlocked`; `SurvivesRevocation` has `overtaken`, and TLC finds it needed: two calls
  refresh at once, the older answer is stored last, and a call that has had its refresh is
  refused again. The proof shows that there is no other way to this.
- A refresh during the awaited `close()` of the JWT session stores a new one, which
  `close()` then forgets, and a call may open a new REST session behind it.
  `ClosedIsClosed` holds for a `close()` that begins when no call is under way. For one that
  overlaps calls `NothingForgotten` says what is left of it: once the calls are over whatever is
  open is the client's own, and the next `close()` closes it.
- A shutdown during a callback can end the manager with an error instead of quietly: when the
  callback outlasts the `close()`, the next `receive()` finds no websocket.
  `WakingShutdownIsClean` shows that this and a last malformed message are the only ways.
- A manager cancelled before it has started makes `start_websockets` raise `CancelledError`,
  although another may have failed; `NoErrorSwallowed` and `ErrorSurfaces` admit no other case.
- After a 401 on a websocket the manager subscribes again with the cached token, the
  refused one, until that is old; `_process_message` speaks of a fresh token.
- `_validate_order_params` knows nothing of enumerations: the exchange of an order, and the
  condition of an update, that are left at `None` go out as the text `None` (`NoneStaysHere`).
  `update_limit_order` takes a `time_in_force` and does not send it.
- "A bug in one callback must NOT kill the entire WS connection" (`ws_manager.py:256`; the
  repository's README: "Callback isolation"), but a failure is logged with `__name__`, which a
  `functools.partial` or an object with `__call__` has not: the `AttributeError` ends the manager.
  An ordinary function makes `create_task` raise: the manager ends, and the
  tasks made before run on without anybody (`OneMessageAtATime`, `Isolated`).
- Broken JSON "kills main_loop → reconnect" (`tests/test_ws_edge_cases.py:124`), but
  `JSONDecodeError` is not recoverable: the manager ends with it. `WsLifecycle` permits both.
- Portfolios go to agreements three at a time (`AccountsAttributed`).
- An unsubscription can overtake the subscription it is to undo (`UnsubscribedStaysSo`).

## 4. Fairness

Weak fairness on the steps the event loop or a time-out guarantees:

- a woken waiter runs, a finished `close()` resumes its caller;
- a REST request ends (`ClientTimeout` and `asyncio.timeout`), a JWT refresh ends
  (aiohttp's default time-out), a sleep ends;
- `connect()` ends, a `send` on a connection that is being closed ends, and a
  pending `receive()` is woken by a `close()`;
- in `RestClient`, one weak fairness per call: signing and the request are inside
  `asyncio.timeout`, the refresh after a 401 is bounded by aiohttp, and what waits for the
  session lock, which no time-out need bound, is woken because its holders end;
- callbacks of subscriptions return (`WsManager`, `WsDispatch`): user code, an
  assumption. A callback that never does stops its connection for ever.

Not assumed: that a user calls anything, that the network delivers, that a
token stays valid, or that a peer ever sends a message. A `receive()` on an open
connection may wait for ever.

## 5. The proofs

All proofs are in the `_proofs` modules, checked by TLAPS for
every value of the constants under the assumptions each module names:

- tasks that call and tasks that close are different (`ProcsAssumption`), `None`
  is no session (`NoSessionAssumption`);
- `RetriesAssumption`: `AuthRetryLimit < MaxRetries`, true of the code's 1 and 3.
  Without it the loop ends with `raise None`; `RaisesSomething` is where it is needed;
- the initial and the added subscriptions are disjoint (`SubsAssumption`), `TTL`
  is positive, `N` is positive, `AutoReconnect` is a Boolean, `MaxMessages` is a natural number;
- arguments have the types of the signatures (`ArgumentsAssumption`), `None` is none of the
  values it is compared with (`NoneAssumption`), the starts of agreements ascend through the
  token's list (`OwnershipAssumption`), hours are integers.

Each module of a state machine has a theorem `Inductive` (in `WsDispatch`, `Dispatch`),
`Spec => []IInv`, shown by one step per
action; the safety properties follow from it, and the action properties from it and
one more case analysis. What the invariants add to the properties:

- `RestSession`: a task that awaits `close()` is the head of the lock's queue, and
  what it closes is closed already. The first gives mutual exclusion, the second
  why `Forget` may clear the attribute: whatever replaced the session differs from it.
- `RestRetry`: every answer under way and every result agrees with the one entry the
  broker has for the `X-REQID`; `last_exc` is set unless all attempts so far were
  refreshes, of which there are at most `AuthRetryLimit`.
- `JwtToken`: the refresh under the lock is made by the head of the queue, so a token
  that is fresh meanwhile was set by somebody without it; and an open session is the
  client's or that of a refresh under way (`SessionsReferenced`), so that with no refresh
  there is at most one, which `close()` closes.
- `WsManager`: where `run()` is suspended says what the websocket is, and only
  `shutdown()` closes one under a running task group.
- `WsDispatch`: a task is a pair of a received message and a callback this has, and a manager
  that ended has a cause; tasks outlive the waiting of `main_loop` only if a plain function
  stands among the callbacks, which `cause` and the message still show.
- `WsClient`: every manager at or before the position of a walk, of `start_websockets` or the
  user's, is CLOSING (`StoppedSoFar`), and stays so because only a manager that has not
  started leaves that mode; before all have started nothing but a cancellation can happen to
  one (`NothingBeforeStart`), and no walk is suspended. From the same follows `WalksTellAll`,
  that a walk that comes to its end has told all.
- `WsSubscriptions`: while `main_loop` sends, a listed subscription has been sent, is
  still to be sent, or belongs to a pending or failed call; and what a call is about to
  unsubscribe is with the broker only if the call has still to send it, or if it was
  overtaken.
- `RestClient`, on revocation: a call that has been through its refresh after a 401 has asked
  for it after the revocation, so that it put a new token in the cache; the cache goes back to an
  old one only where `overtaken` is set. A 401 needs a request signed with an old token.
- `RestClient`, on `close()`: `ClosesLater` needs of the parts that an open session is the
  client's or in the hands of a task, and of the composition that no task has one. The place
  of a task in its call says where it is in the session and in the token (`PartsInPhase`), so that no call under way means no task in either
  part but those that close; and what a quiet `close()` has passed stays closed, as nobody is
  there to open it (`QuietStaysClosed`).

**Parts and whole.** `Conformance` in `RestClient_proofs` shows that the composed client
implements `RestSession` and `JwtToken` (`PartsConform`). `PartsKeepTheirInvariants` then takes
their proofs over: the `_proofs` modules of the parts are instantiated with the client's
variables, their theorems about `[Next]_vars` applied to the client's steps, and their invariants
hold of whole calls without being proved again. `CloseCloses` rests on them: the parts say
that no session is open but the current one or one in use, the composition that none is in use.

**Refinement.** `Refinement` proves for `RestSession` the whole of `OneSession`, and for `RestRetry`
and `WsManager` the safety part of the abstract specification (initial states and
steps); `Conformance` does so for the managers of `WsClient`.

**Functions.** The theorems on `AlorFunctions` are about values, and need only the invariant
that a case is what it was made of. `MethodRows` finds a method's row in the table, one lemma per
kind of method says which checks such a row has, and `RejectsTheBad` compares them with the
rules. `ThereAndBack` reads `fold` as "not the first of the two instants". `StartsByThrees`,
that agreements of three begin where the slices do, is an induction, made over a set
(`SetInduction`) from the well-foundedness of the naturals.

Model-checked only: liveness (`WaitersServed`, `EnsureReturns`, `CallsEnd`, `NotStuck`,
`ConnectedShutdownStops`, `WakingShutdownIsClean`, `ErrorSurfaces` and the fairness of `OrderCall` and
`WsLifecycle`), which is out of the prover's reach, and the three disagreements, which are
counterexamples. Every invariant and every safety action property that a passing run checks is proved;
`RetriesAreUsed` (no attempt is given away) and `FreshSignature` (nobody signs with a stale token)
are proved and need no run.

## 6. Not modelled

- The synchronous refresh in `__init__` runs before any task; it is the initial state.
- Constant parts of requests (paths, opcodes, the data format), lists of boards, logging,
  `Timer`, `helpers`, and the classes of exceptions beyond what decides a branch.
- `get_request_id`: that a UUID is new is taken for granted (`ReqId`).
- `FullWebsocket` (the `websockets` library): `AlorWebsocket` does not use it.
- The `ClientSession` inside `AiohttpWebsocket`, which leaks when `ws_connect` fails.
- Real time: back-off lengths, the five minutes a refresh after a 401 may take, the
  startup delay (which `_get_websocket_mgr` does not pass on).
- `start_websockets` called again, several subscription sets (`unsubscribe_all` iterates
  over a dictionary that `compose_subscriptions` may change), a `Subscription` object
  added twice.
- Callbacks that receive a websocket handle: `AlorWebsocket` never passes one.
- The examples, which are scripts against the live broker.

## 7. Plan

Done: `RestSession`, `RestRetry`, `JwtToken`, `WsManager`, `WsClient`,
`WsSubscriptions`, `WsDispatch` and `RestClient`, which composes the first with the third,
with their abstract specifications; the functions; proofs of all their
safety properties. What could follow:

1. `WsSubscriptions` over several sets, with `unsubscribe_all`.
2. `RestRetry`'s broker inside `RestClient`: orders of several calls over one session, the
   promise of `OrderCall` for each, proved from `RestCalls_proofs` as `CloseCloses` is from
   the proofs of the parts.
3. Proofs: that the calls of `RestClient` and the wrapper of `RestRetry` take the same steps.
