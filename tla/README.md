# A verification project for the ResolveKit backend

TLA+ models of the chat runtime and of the dashboard of this repository, the TLC
runs that check them, and theorems about them that TLAPS proves. Paths are relative to the
repository's root; a definition has the name of the function or step it models
where TLA+ allows it.

## 1. The system

ResolveKit lets an app embed a support agent. An SDK client talks to the
**agent** service (FastAPI, several worker processes behind one port, see
`docker-compose.prod.yml`); developers use the **dashboard** (Next.js, with its
own API under `/v1`); documents live in the **knowledge base** service
(FastAPI with a job worker). They share one PostgreSQL database; the agent's
workers also share Redis, when one is configured.

A chat runs like this. `POST /v1/sessions` creates a session or reuses an
active one. The client opens `GET /events`, a stream of server-sent events that
is replayed from a cursor. `POST /messages` starts a *turn*: a task that asks
the model, stores messages, sends events, and for every tool call waits until
the client posts the result to `POST /tool-results`, which may be received by
another worker. At most one turn should run in a session. A human agent may
take the session over from the dashboard, reply in it and resolve it, while a
background task expires sessions without activity.

Before the first chat, developers set an app up in the dashboard: they sign up,
invite others, store provider profiles, choose a model, create keys, write
playbooks and fill knowledge bases. Each route of the dashboard authenticates
the caller, reads rows, decides and writes, one query after the other; almost
nothing is in a transaction. For knowledge bases it calls the knowledge base
service and keeps references to what exists there; the service's worker embeds
the documents. The pages of the dashboard call these routes from event handlers
and effects, whose answers come in any order.

### Components

| component | state | operations | talks to | hard because |
|---|---|---|---|---|
| turn store, Redis (`turn_state_service.py`) | lock, metadata and request map keys, each with 600 s to live | `try_start_turn`, `clear_turn` | message handlers, `_run_turn` | several commands per call, crashes, expiry, resent commands |
| turn store, memory (same file, `runtime_redis_service.py`) | three dictionaries per process, the cached Redis client | the same | the same | the backend is chosen at every call |
| event stream, Redis (`event_stream_service.py`, `stream_events`) | one Redis stream per session, one cursor per connection | `append`, `replay`, `wait_for_events`, the SSE loop | turns, human replies, dashboard notices, clients | appends between three commands, reconnects, expiry |
| event stream, memory (same files) | a list and a condition per session | the same | the same | suspension points of the event loop, restart |
| tool results (`pending_tool_results.py`, `submit_tool_result`) | futures, stored results, dedup set, pub/sub | register, resolve, dispatch, time out | turns, clients, listener | two workers, lost notifications, retries, late answers |
| agent loop (`orchestrator.py`, `_run_turn`) | the session's messages, the round, events sent | `run_agent_loop`, `escalate_session` | model, database, all of the above | interleaved replies, abandoned calls, many ends |
| session lifecycle (`session_service.py`, `sessions.py`, `main.py`, dashboard routes) | `status`, `last_activity_at`, `resolved_by` | create, reuse, patch, expire, escalate, resolve, reply | turns, dashboard, SDK | read-then-write by several writers |
| session feedback (`sessions.py`) | one row per session | submit | SDK | check then insert |
| chat access, SDK client tokens, API keys | none | sign, verify | all routes | cryptography |
| rate limits (`sdk.py`, dashboard `rate-limit.ts`) | counters or time stamps | count, reject | token and login routes | INCR and EXPIRE apart, window edges |
| function registry (`functions.py`, `function_service.py`) | function rows | bulk upsert, eligibility | SDK, agent loop | last writer wins |
| knowledge base service (`router.py`, `worker.py`, `ingestion.py`) | knowledge bases, profiles, sources, chunks, jobs | create, update, delete, add and recrawl sources, switch profile, claim, ingest, re-embed | dashboard, crawler, embedding providers | jobs beside changes, partial failure, a worker that dies |
| knowledge base routes (dashboard `knowledge-bases/**`, `kb-refs.ts`) | references, assignments to apps | create, delete, synchronize, assign | the service, by calls that may time out | two databases without a transaction |
| chunking, deduplication, search ranking | none | pure functions | ingestion, agent loop | boundaries |
| crawler, embedding and model providers | external | network calls | ingestion, agent loop | arbitrary answers |
| organizations (dashboard `organizations/**`, `auth/signup`) | accounts, roles, invitations, apps | sign up, invite, accept, cancel, set role, create an app | dashboard users | check, then write |
| app setup (dashboard `apps/[appId]/**`, `llm-profiles/**`, `config-service.ts`, `onboarding.ts`) | configuration, profiles, keys, functions, playbooks, audit trail, state of the guide | save, revoke, switch off, delete, audit, complete | dashboard users | check, then write, then audit |
| dashboard pages (`dashboard_pages/**`) | what is loaded, typed and selected, the flags of buttons | effects, handlers, timers | the routes | answers out of order, failures half way |
| theme, localization, pricing, login page, layout | derived | render | people | not concurrent |

What makes each correct, in one sentence:

- **turn store**: one turn at a time, a retried request id names its turn, a
  lock is released by its owner only, and a session never stays locked;
- **event stream**: every client sees every stored event once and in order,
  also over reconnects, and soon;
- **tool results**: an acknowledged result reaches its own call, the first
  outcome of a call stays, nothing leaks and the turn ends;
- **agent loop**: the model only sees well-formed conversations, every call is
  answered, the client is told exactly one end;
- **session lifecycle**: what ended stays ended;
- **organizations**: what a request writes is what its route would do alone, so
  that the rules of membership hold as far as no two requests overlap;
- **app setup**: what is saved was checked as a whole, and the audit trail and
  the guide tell what is the case;
- **knowledge bases**: all vectors of one come from the model it searches with,
  one regeneration runs at a time and ends, references follow the service;
- **pages**: what is shown and saved belongs to the selection, nothing typed or
  done gets lost, and buttons do not stay locked.

## 2. Modules

| module | models | state and actions |
|---|---|---|
| `TurnContract` | what the turn store promises, abstractly | `owner`, `active`, `spent`; begin, accept, finish, forget |
| `TurnState` | `try_start_turn`, `clear_turn` on Redis and the start and end of the turn's task | one step per Redis command (`CheckRequest`, `SetLock`, `GetHolder`, `StoreMeta`, `MapRequest`, `Spawn`, `FinishTurn`, `ClearGet`, `ClearDel`, `ClearMeta`), `Fail`, key expiry, and `SetLockResent`, `ClearDelResent` for a command that the client library sends again |
| `TurnStateFallback` | the in-memory store of every worker, Redis beside them, the moment a worker connects | in memory `Decline`, `Start` and the end of a turn (`FinishTurn`) are one step each, since these functions never suspend; on Redis `Ask`, `CheckRequest`, ..., `ClearMeta` are one command each, as in `TurnState`; `Connect`, `CommandFails`, `Crash`, and the keys that expire one by one |
| `EventFeed` | what the stream promises, abstractly | published, forgotten and received events |
| `EventStream` | the Redis stream and the SSE loop | `Replay`, `Latest`, `XRead`, `XReadReturns`, `KeepAlive` are the commands of one pass; `AppendEvent`, `Expire`, `Connect`, `Close` |
| `EventStreamMemory` | the in-memory stream and the SSE loop | `AppendEvent` and `Notify` are the halves of `append`; `Poll`, `Woken`, `KeepAlive`, `Restart` |
| `ToolResults` | one turn's calls and the submissions for them | the turn: `Register`, `CheckEarly`, `DeleteEarly`, `Push`, `Answer`, `TimeOut`, `Clear`; a submission: `IsMember`, `Add`, `SetResult`, `Publish`, `Local`, `LockExists`; the listener: `Dispatch`, `Deliver`, `ListenerCrash` |
| `AgentLoop` | `run_agent_loop` under `_run_turn`, with human replies | storing a message is `Store` (the number is read) and `Commit`; `LoadContext` and `Show` are `load_context_messages` and `_append_llm_messages_from_context` as functions |
| `SessionLifecycle` | the writers of `ChatSession.status` | turns, expiry task, dashboard, reuse |
| `MembershipRules` | organizations as they should be: every route is one step | `account`, `orgs`, `invitation`, `app`; `Signup`, `Invite`, `Cancel`, `Accept`, `SetRole`, `CreateApp`, `RunOut` |
| `Membership` | the same routes as they run | a request in flight is a row of `req` that carries what it has read; each query is an action; `stale` records that another request wrote since |
| `AppSetup` | configuration, profiles, keys, functions, playbooks, audit events, guide | as in `Membership`, with the rows that a request's decision rests on |
| `KnowledgeService` | the service's handlers and its worker | a source's chunks are what made their vectors: a model, or `Local` for the hash vectors that the service makes itself when the provider fails (`Embed`, `Activate`); `Claim`, `StartIngest`, `FinishIngest`, `StartReembed`, `FinishReembed`, `Refresh`, `Fail`, and `Stop` for a worker that is killed or cancelled |
| `Knowledge` | the dashboard's routes on top of it | calls whose reply may be lost, references and assignments |
| `ScreenOps` | the vocabulary for pages: a handler is a record that says which slots it reads, writes, patches, clears, which flags it raises, when it is enabled | constants only |
| `Screen` | a page, its requests and the server behind it | `Press`, `Type`, `Move` are the user and the url; `Serve`, `Answer`, `Fail` the requests; `Poll`, `PollAnswer`, `PollFails` the timers, whose requests nobody waits for |
| `AppScreens`, `WorkScreens`, `KnowledgeScreens` | the handlers and effects of every page, as such records | constants only |
| `Screens` | what the pages promise, and to which users | |
| `ScreenRules` | the rules by which pages keep these promises, as operators of a page's description, and the assumptions that the dashboard's pages follow them | |
| `TurnStateProofs`, `MembershipProofs`, `AppSetupProofs`, `KnowledgeProofs`, `ScreenProofs` | theorems about the module they are named after and extend (`Screens`, through `ScreenRules`, for the last) | |
| `WorkerProofs` | theorems about `ToolResults` and `TurnStateFallback`, whose specification is called `FallbackSpec` | |
| `EventStreamProofs` | theorems about `EventStream`, which it extends, and about `EventStreamMemory`, of which it takes an instance | |
| `SessionProofs` | theorems about `SessionLifecycle` and `AgentLoop`; the former's specification is called `LifecycleSpec`, so that one module can extend both | |
| `MC*` | values for TLC | |

Each detailed module is checked against its abstract one by a refinement
mapping: `TurnState` and `TurnStateFallback` against `TurnContract`,
`EventStream` and `EventStreamMemory` against `EventFeed`, and `Membership`
against `MembershipRules` for the requests that are not overtaken.

`KnowledgeService` and `Knowledge` compose by calls: every route of the dashboard
conjoins the service's action with what happens to the reply.

A page is data: `Screen` is one machine that interprets the description of any
page, so that a property is stated once for all of them. A slot stands for a
piece of React state with what it was loaded for and which of the server's
writes it shows; a handler's closure is frozen when it is called, as in
JavaScript. Users come in four kinds: *careful* ones wait for every answer,
*unlucky* ones do so and meet a failure, *hasty* ones act while requests are
under way, *roaming* ones also change the selection meanwhile. Timers run for all
of them. Some pages keep a part of themselves when the url names another app; what
that part loads then is a page of its own (`SessionList`, `PlaybookList`).

Operators named `Mutant...` are plausible defects of the definition that
follows them. They are used by nothing; each shows that a property notices the
defect.

Abstractions: turn ids are the handlers that propose them; results are the
submissions that carry them; event ids are numbers; message contents, prompts,
tokens and tool arguments are left out. What the model answers, how the router
decides and how a tool call ends are arbitrary choices. Provider call ids are
assumed present and distinct within one response, and an SDK's idempotency key
belongs to one call. A row of the knowledge base service that was deleted is
`Gone`: its id is a UUID and not used again, and what a foreign key with cascade
names goes with it. The ORM object of a turn keeps the values it was loaded
with (`expire_on_commit=False` in `agent/database.py`), and a commit writes
only columns that differ from them.

## 3. Runs

Passing runs:

| run | what it shows | states |
|---|---|---|
| `turn_state` | three submissions, two request ids, turns shorter than the lock's lifetime, one crash or one SET sent twice: mutual exclusion, own release, the turn contract | 76,612 |
| `turn_state_degraded` | two submissions, turns of any length, two failures, SET and DEL sent twice: an accepted message's turn starts, the session becomes free again | 26,436 |
| `turn_fallback` | two workers that connect to Redis at any time, three submissions, two crashes or failed commands: the memory of a worker keeps the strict contract (one turn per live mapping); turns on Redis are one at a time, though a mapped request id may be given a second one (`RedisKeepsContract`); running turns hold their lock | 333,668 |
| `event_stream` | one client with a cursor or a stored event to start from, one without: order for both, the feed's promise and delivery for the first | 37,555 |
| `event_memory` | the in-memory stream, with a restart: the feed's promise and delivery until the restart | 12,408 |
| `tool_results` | two calls (of one round, or with one id in two rounds), two submissions, one failure of Redis or of the listener: delivery, the right call, first outcome, no leak, termination | 579,503 |
| `agent_loop` | every kind of call, two rounds, a human reply, abandoned calls, windows of four and twenty, two exceptions: what the model is shown, what the client is told | 242,151 |
| `session_lifecycle` | two turns, two takeovers, one reuse, the expiry task and resolve: what ended is not active again, what is closed stays closed | 14,232 |
| `membership` | two requests of two developers, two organizations, an invitation, two apps of one name, from empty tables: a request that is not overtaken does what its route does in one step | 158,886 |
| `app_setup` | two apps, a profile, a key, two functions, two requests: saves leave what they checked, only saves detach a profile, the trail tells the state, the guide is earned | 366,116 |
| `knowledge` | two knowledge bases, one or two profiles and two models, two sources, three arrivals, providers that fail, a stop of the worker, lost replies: vectors of no other model, one regeneration that ends, references | 678,720 |
| `screens` | every page, two selections, four moves of users who wait and three to five, by page, of those who do not, one failure, polls at any time: what is shown, saved, typed and locked | 673,286 |

Some properties are stated for the circumstances in which the code keeps them,
and name their exceptions. What the models show outside of them, and where that
differs from what the repository says of itself:

- a turn longer than the lock's 600 s runs beside the next one, although
  "Another turn active -> raises HTTPException(409)" (`turn_state_service.py:39`);
- a retry that read no mapping, because the first attempt had not written it,
  runs the message as a second turn later, although "request_id already mapped
  -> returns (existing_turn_id, False)" (`turn_state_service.py:38`);
- a first connection to an empty stream may miss events for good, although they
  "are replayed over the event stream" (`docs/backend/services-overview.md:29`);
- a result submission that failed after its key was recorded is acknowledged
  as a duplicate on retry, and lost (`chat_events.py:353`);
- a lock that expires between `clear_turn`'s GET and DEL, or a DEL that the
  Redis client sends again, lets a turn delete the next turn's lock
  (`ReleasesOnlyOwnLock` is checked for short turns and without resent DELs);
- on Redis, `clear_turn` deletes the metadata of the turn after it, which no
  code reads;
- a turn in a worker's memory does not exclude one on Redis, and on Redis the
  late retry above is possible whoever connects when (`ImplementsContract` of
  `TurnStateFallback` is about one store, the strict contract about a memory);
- a cursor from before a restart skips new events of the in-memory stream;
- with one failure an acknowledged result may be lost: after the shared
  listener ended, results accepted at other workers are answered 200 and never
  arrive (`ReportedResultIsDelivered` speaks of runs without failures);
- a worker without the call's future answers 200 for a call that is over, as
  long as some turn holds the lock; the result is ignored;
- a provider that uses a call id again within 600 s can have the earlier result
  answer the later call (`ResultIsForItsCall` compares ids);
- a model answer without text and calls, and a session that is gone when its
  turn begins, end the turn without an event (`pc = "silent"`);
- a human reply among a round's messages may share its number with one of them
  and hide the round from the model;
- a stale session of an app without a row in `agent_configs` stays active for ever,
  since the query joins that table, although "Sessions for apps without an
  agent_config fall back to the system default TTL." (`session_service.py:85`); the
  model's `Expire` has the query's condition (`HasConfig`);
- an escalation under way when a session is closed opens it again; a client that
  reconnects to an escalated session is answered 410 (`chat_events.py:183`), which
  is in no module: clients and the status of their session are modelled apart.

Organizations:

- "At least one owner must remain in the organization" (`members/[memberId]/role/route.ts:45`):
  two owners who demote each other at once leave none, and so does an owner
  who accepts an invitation to another organization
  (`invitations/[invitationId]/accept/route.ts:38`), even when nothing overlaps.

App setup:

- two saves at once can store a model that does not fit the vision mode; two
  saves of a playbook's steps can leave the union of both lists;
- a profile that an app has begun to use since the check is deleted, and the
  app's configuration loses it;
- saving another profile alone, or changing a profile's provider, keeps a model
  that `isProviderModelAllowedForPersistence` would refuse;
- `DELETE` of a function writes no audit event, revoking a key twice writes two;
- renaming a profile writes its provider and address back as they were read;
- the guide looks at profile, model, key and function one after the other
  (`onboarding.ts:143-164`) and completes when each was found, though a profile
  or key may be gone by the time the function is found: `CompletedWasEarned`
  says that each step was done at some moment since the request began, and all
  of them together if nothing the request read was written meanwhile;
- the guide, reset when everything is done, completes again at the next look.

Knowledge bases:

- when an embedding provider fails, or answers with too few vectors, the service
  stores hash vectors of its own and completes the job, for single requests of
  one ingestion or for a whole regeneration, although the fallback is said to be
  a "Deterministic lightweight embedding fallback for environments where no
  external embedding provider is configured yet" (`embedding.py:28-29`).
  `VectorsOfOneModel` says that no vectors of *another model* are there, not that
  all are of the model;
- a worker that dies or is cancelled leaves its job in `processing` and the
  knowledge base busy (409) for ever; one that is cancelled may have committed
  its half-done work all the same (`worker.py:51-53`);
- two profile changes at once queue two regenerations, of which the second
  fails and marks the knowledge base failed; a failed regeneration keeps its
  pending profile, which then cannot be deleted;
- a switch while the first chunks are being embedded is done at once, and
  the chunks that follow are of the old model;
- a deletion whose reply is lost leaves the reference for ever, since the retry
  meets a 404 first; a list read before a deletion brings the reference back;
- two saves of an app's assignments at once can leave the union of both.

Pages (the sets of names in `Screens` are these exceptions):

- AgentPrompt, Limits, LlmConfig, Playbooks and the details of a knowledge base
  show the data of the app before until the answer comes; hits of a search stay
  under another knowledge base; after a load that failed, ApiKeys, Languages,
  ChatTheme, Analytics, Spend, the list of sessions and the lists of models and
  assignments show the app before, and several of these forms can save it to the
  new one;
- under another app, Playbooks keeps the playbook that was open, its steps and
  its form (`Playbooks.tsx:72-78`); the server refuses to save them, as the app has
  no such playbook;
- Sessions polls the messages of the open session every ten seconds and looks at
  nothing when the answer comes (`Sessions.tsx:366-373`, `425-432`): one that comes
  late shows the messages of the session before under the one that is open, and
  one sent before a reply takes the reply out of view until the next. This
  happens to every user, careful ones included; `PagesShowSelection` and
  `PagesShowOwnWrites` leave out the slots that a timer refreshes;
- most effects have no clean-up: who changes the selection before an answer has
  come may see a late answer of the selection before;
- AppKnowledgeBases can be saved before its list has come, which removes all
  assignments;
- the answer to a reply empties the reply box, with what was typed meanwhile;
- the late answer of a save turns ChatTheme and Playbooks back to the selection it
  was sent for, and the next save writes that to the new one; who returns to an
  app while its theme is being saved may see the theme before;
- saving a playbook's text reloads its steps and drops unsaved ones; a reload of
  the knowledge bases refills the drafts; a function's editor closes although
  its save failed;
- two requests that share a flag (Sessions, Team, profiles, knowledge base
  settings) free the button when the first one ends. On other pages one operation
  shares its flag with itself: Enter in the label of a key calls `createKey`
  whether or not one is under way (`ApiKeys.tsx:109`), and a confirmation that is
  closed by Escape or a click beside it while its request runs opens again free
  (`ConfirmDialog.tsx:52`, `65-70`, `76`), so that a key, app, integration or
  playbook can be revoked, deleted or switched twice (ApiKeys, Apps, Playbooks);
- renaming an app and accepting an invitation do not refresh the guide's rail.

Three details of pages are simpler in the model: a failed load of Functions
leaves an empty list in the code and the skeleton in the model; the fields of the
two forms of Playbooks are one set of texts in the code, and in the model opening
one form blanks the other; the login page and the layout are left out.

### Bounds, and why they are enough

- Three handlers with two request ids (`turn_state`): a turn, its retry and a
  conflicting message; a third submission lets a lock change hands while two
  others are between commands. `MaxFaults` 1: one failure or one resend. Two
  handlers and two faults (`turn_state_degraded`): a failure of a turn and of
  the one that meets its remains.
- Three turns on two workers (`TurnStateFallback`) and two crashes or failed
  commands (`MaxMishaps`): a turn in the memory of each worker, or one on Redis, and a
  retry before and after a change of backend. The contract is checked for the
  memory of `w1` and, by an instance of the module in the same run
  (`RedisKeepsContract`), for Redis; the workers are alike, and the proof covers
  every store. Turns and request ids are only compared, hence the symmetry.
- Three events and two connections with two interruptions (`EventStream*`): an
  event before, during and after the gap between two commands.
- Two calls, two submissions (`ToolResults`): calls of one round, or one id
  used twice; a submission and its retry or a second answer, at the same or at
  different workers; one failure at any command.
- Two rounds with two calls (`AgentLoop`), windows of four and twenty messages:
  a window that cuts a block in the middle and one that does not.
- Two turns, two takeovers (`SessionLifecycle`): one stale writer and one that
  acts after it. Two turns may overlap here, because nothing in the status
  logic relies on the lock.

- Two requests (`Membership`, `AppSetup`): one that decides and one that writes
  in between. `Membership` starts from the empty tables and reaches every state
  of them by the routes; `AppSetup` starts from an app that is set up or about
  to be, so that two arrivals are enough for every pair of routes.
- Two knowledge bases of which one exists, three arrivals (`Knowledge`): a
  deletion beside a switch beside an ingestion; names are not used twice.
- Four moves of a user who waits (`Screens`): open a form, type, save, and change
  the selection. Three to five moves while requests are under way, by page (three
  for the pages with the most handlers, four for the next four): a save, what overtakes it, and a second
  save of what that left behind. Two selections: the one the page came from and
  the one it went to. One poll at a time (`MaxPolls`): the one that
  comes late.

`CHECK_DEADLOCK FALSE` is set where the modelled clients are finite in number
and the system rests after the last of them.

### Fairness

Every fairness condition is about the server's own progress: an event loop runs
its ready tasks, timers fire (XREAD's block, the condition's wait, every tool
timeout), and Redis expires keys. Nobody is obliged to submit, append, connect
or close. The knowledge base worker's loop is weakly fair:
it catches the errors of a job and polls again (`worker_loop`); a stop of the
process is outside of it. `SessionLifecycle` states no fairness: what
is checked of it is what a step may not do.

## 4. Proofs

All theorems hold for every value of the constants that satisfies the named
assumptions in the modules: any number of handlers, workers, calls, clients,
requests and rows, and every bound. Of the properties that a run checks, these
are proved:

| module | proved for every instance |
|---|---|
| `TurnState` | `MutualExclusion`, `ReleasesOnlyOwnLock`, `ImplementsContract` (for turns in time), `AcceptedTurnStarts` |
| `TurnStateFallback` | `RunningTurnHoldsLock`, `ImplementsContract` (for every store) |
| `EventStream`, `EventStreamMemory` | `ReceivedInOrder`, `ImplementsFeed`, `FollowsFeed` |
| `ToolResults` | `ReportedResultIsDelivered`, `ResultIsForItsCall`, `NoFutureLeaks`, `FirstOutcomeWins` |
| `AgentLoop` | `OneEnd`, `EveryTurnReports`, `WellFormedPrompt`, `PromptShowsResults` |
| `SessionLifecycle` | `ActiveIsUnresolved`, `ClosedIsFinal` |
| `Membership` | `FreshRequestsAreAtomic` |
| `AppSetup` | `TrailTellsState`, `SavesLeaveWhatTheyChecked`, `OnlySavesDetach`, `CompletedWasEarned` |
| `Knowledge` | `VectorsOfOneModel`, `OneRegeneration`, `RefsFollowKbs` |
| `Screens` | `ButtonsLockAndFree`, `PagesShowSelection`, `SavesGoHome`, `TypingIsKept`, `PagesShowOwnWrites`, `RailFollowsPages` |

Their `TypeOK` is a theorem as well, except for that of `EventStreamMemory`,
whose proof carries the types of the variables it needs. The circumstances that a
property names (a request nobody overtook, no failure yet, a client with
something to start from) are part of its definition and explained in section 3.

**Turn store on Redis** (`TurnStateProofs`). `TypeCorrect` needs no
restriction. Three theorems assume `Timely`: no key of a turn expires while the
turn will still issue a command, and the client never sends DEL twice. Mutual
exclusion is not inductive: nothing in it says who owns the lock. The inductive
invariant is `OwnerHoldsLock`: whoever is at a step between acquiring the lock
and releasing it is named by the lock key. It is preserved since the lock is
only written when absent, only expires for turns that are over, and is only
deleted by a turn that is at `clearDel`, which by the invariant is its owner.
From it follow

- `TurnsExcludeEachOther`: two running turns would both be named by one key;
- `OnlyOwnLockReleased`: the step that deletes is taken by the owner;
- `RedisImplementsContract`: with the further invariant that a handler before
  its start is not among the started turns, each step is a step of
  `TurnContract` or a stutter.

`AcceptedTurnsStart` needs no `Timely`: it also holds of turns of any length
and of commands that are sent twice. A retry is answered from the request map,
so the invariant (`LaunchInv`) says of the map as of every answer that, while
nothing has failed, it names a turn that has started or is about to.

**Fallback and choice of backend** (`WorkerProofs`). `LockIsHeld`:
whatever workers connect or crash and whichever command fails, a running turn's
lock is still in the store that accepted it. As on Redis alone, the invariant
(`HoldsItsLock`) says it of every step between taking the lock and giving it
back, and more: a lock names a turn of its own store, one that is at the DEL
still holds the lock of Redis, and the store of a turn is Redis or the memory of
its own worker, so that another worker's crash leaves it alone.
`StoresImplementContract`, for an arbitrary store `Observed`: a start finds no
running turn of that store, since it would hold the lock; a crash loses a
memory, or ends turns on Redis; a command that fails ends nothing but its
handler; and each key that expires forgets one request id. A memory keeps the
strict contract because it looks at the mapping and writes it in one step. Redis
does not, since another attempt may map the request id between the GET and the
SET; the contract it keeps is the one with `OnePerRequest` FALSE.

**Event stream** (`EventStreamProofs`). That nobody receives an event twice
says nothing of cursors. `OrderInv` ties them to it: a connection's cursor is
the last event its client has received, and a poll that is under way started
there. A batch is an interval of event numbers after the cursor; yielded in
full, or in part when the client leaves, it prolongs an ordered view (`Yield`,
the lemma `YieldReceives`). `StreamImplementsFeed` needs in addition that a
client with a cursor, or one that found an event stored, has received all that
is still stored up to its position, and never asks for "events from now on"
(`FeedInv`). For the in-memory stream, `MemoryInv` says that until a restart
a view is exactly the events up to the client's last id, `MemoryFollowsFeed`
that every step up to there is a step of the feed; notifications play no part,
since a connection reads the list again after every wait.

**Tool results** (`WorkerProofs`). One key of the dictionary of futures
serves all calls with one id, so `NothingLeaks` and the delivery depend on who
holds it when: calls of a round are sent in order and a round begins when the
one before is over (`SentInOrder`), hence the key names exactly the call that
holds it (`HeldIsPending`, `PendingIsHeld`), also after a failure at any
command. `ResultsMatch`: what is stored under an id, or in a future, was
submitted for that id (`ResultsInv`). `ResultsAreDelivered` takes the whole
chain: an answer "duplicate" means the key is recorded, a recorded key has a
submission beyond `sadd`, and such a result is *in transit* until its call has
an outcome: about to be stored and published, announced to a listener that
lives, picked up by it, or at the worker that resolves it locally, and stored
for as long as it is not consumed (`DeliveryInv`). All of this is claimed while
nothing has failed; what a failure does is in section 3.

**Session** (`SessionProofs`). `ResolvedIsNeverActive`: only the initial state
makes a session active, and every writer of `resolved_by` ends it.
`ClosedForGood`: with no escalation in flight, every step that could reopen a
closed session, or start something that could, is disabled by its guard.
`EndsOnlyOnce` and `TurnsReport` of the agent loop: `EndInv` says, by the place
the turn has reached, whether an end has been sent. The commit of a message
goes on to what was drafted with it, so the invariant bounds where a draft may
lead; without that, a commit could return to a finished turn.

What the agent is shown is computed from data, and its two theorems rest on
lemmas about that computation. `Shown` walks through the messages; its steps
(`ShownSteps`) and the fact that one message more is one step more
(`ShownAppend`) follow from well-foundedness of the numbers, since the library's
induction theorems cannot be instantiated: a property is stated as the *set* of
the numbers that have it, and the least one outside leads to a contradiction
(`Upwards`). `PromptsAreWellFormed` then needs very little of the log: whatever
messages are loaded, in whatever order, the walk keeps a well-formed output and
a block that has collected distinct results of its call (`ShowInv`,
`ShowKeeps`, `ShownKeeps`); a block that closes adds the call and as many
results as it has calls (`WellFormedBlock`, by counting). `LoopInv` contributes that the calls of one
message are distinct. `ResultsAreShown` is about the log itself. As long as no
human has replied, numbers increase along it (`Increasing`: the turn is the only
writer, and `MaxSeq` bounds them), hence sorting changes nothing
(`LoadedOrder`) and the context is the log. `ResultsInv` follows the round: what
is collected of its block and what the plan still has to answer make up all its
calls, so that the block is closed when the plan is empty (`CollectOne`,
`PlanAnswersAll`), and nothing shown is taken back (`ShowGrows`).
`HistoryAssumption` says which logs a turn may find: numbers are at most the
count of the messages, calls of earlier turns are not those of this one, and
without human replies the numbers increase, as turns one at a time leave them
(that is the turn store's theorem; outside of it see section 3). TLC evaluates
it for the logs of the run.

**Organizations** (`MembershipProofs`). First the rules, with every route in one
step: `RulesHold` (members belong to organizations that exist, nobody is invited
twice at a time, apps follow their developer) and `OwnersStay` (the last owner
leaves by accepting an invitation, in no other way). Then the routes as they
run. `FreshRequestsAtomic` needs to know what a request in flight may still rely
on: `FreshReadsHold` says that everything it has read and decided on is still
true as long as it is not stale. The invariant also carries the types, and is
preserved since every write marks all other requests stale. From it, the write
of a fresh request satisfies the guard of its route's single step, and the
rules hold of all that such requests do.

**App setup** (`AppSetupProofs`). Here a write marks only the requests that
rest on what it wrote. `RequestsAreSound` is the argument: a request watches
every row it will decide by (`Watches`); what it checked once holds of what it
carries (`Checked`); and as long as it is not stale, what it read is what is
stored (`Holds`, step by step: the guide at its fourth query still knows
of a profile, a model and a key). Every write changes watched rows of others
only where it marks them (`OthersSound`). `SavesAreChecked` and `DetachedBySaves`
follow, once it is known who writes what (`WhoWrites`,
`OthersWait`: one request at most goes on in a step).
`CompletionIsEarned` speaks of stale requests as well and so cannot rest on
`Holds`. `met` records for each request about the guide which steps were done at
some moment since it began to look; `MetInv` says, query by query, what must be in
it, and that all were done at once follows for those that are not stale. `TrailTells` needs two
more invariants: the rows of an app go with it (`RowsHaveApps`), and where
the trail lags behind, somebody still has the event to write, or the row is
listed as doubtful (`TrailInv`).

**Knowledge bases** (`KnowledgeProofs`). One invariant, `KnowledgeInv`, carries
the service and the dashboard. `VectorsOfOneModel`, which allows for the service's
own vectors, is kept by a job only if what
the worker read before embedding still applies when it commits: while a
knowledge base is ingested or has chunks, its model does not change but by the
re-embedding itself, which has read every chunked source (`WorkerKnows`). The
worker's job refers to rows that may be gone meanwhile (`SourcesHaveKbs`,
`JobsHaveRows`: rows fall together and names are not used again). `OneOpen`
counts the open jobs by naming the one, since a count is not inductive; a
request that will write on the grounds of a read has found no regeneration
(`ReadsAllow`). `RefInv` says who adds the reference that is missing and who
removes the one that is left; two requests that add the same reference are told
apart by what they found.

**Pages** (`ScreenProofs`). The theorems are about every set of pages that keeps
the rules of `ScreenRules`, for any number of keys, moves and requests under way;
TLC evaluates the rules for the descriptions of all pages of the dashboard and
every kind of user (`FlagsAssumption`, `SelectionAssumption`, `WritesAssumption`).
The properties except every page where a rule fails.

`ButtonsAreRight`: a flag is up exactly while a live handler that raised it is
under way. It is not inductive, since two live handlers that share a flag free
the button when the first one ends. So the invariant (`FlagsInv`) says as well
that live handlers share no flag (`Apart`), and the rules say why: a control is
disabled while a flag that it shares is up; a new selection starts loads that
replace those it cuts off, which drop late answers; a load that an answer starts
as well, the one of a knowledge base's details, waits for that very answer
(`LoadsReady`), and the slot it waits for is filled by nothing else
(`SlotsInv`). `Added` and `Replaced` are the two ways in which handlers change,
and the rest shows that every step is one of them.

`SelectionIsShown`: a slot that follows the selection is empty, of the selection,
or being loaded again by a live handler (`InStep`), handlers that are about the
selection carry its key (`Aimed`), and lists that a handler rebuilds from what
it captured were of the selection then (`BuiltFrom`); together `Followed`. What is
being loaded again is hidden, since its load's flag is up: by `FlagsInv`, or, on
a page that shares other flags, because that load alone raises it and is not
started again before it ends (`Shielded`, by the rule `LoadsAlone`). Slots that a
timer refreshes are not followed by anything and are outside of the claim.

`SavesAreTheirOwn`: a form is sent for the row it was opened for, or it is tied to
the slot it was opened from (`Tied`: empty or of the same row, whichever of the
two an answer replaces), or it follows the selection (`Followed`) and is there,
because its control needs it or because the first load fills it before the user
can move (`Coming`).

`TypingSurvives` is an action property: an answer that discards typed text was
started after it was typed, and saves it, closes the form or follows the
selection. The invariant (`Typed`) says that every live handler that may discard
a form was started after it was last typed into, or leaves what was typed for
its key (`Older`); while such a handler is under way the form is hidden or
covered for those who do not wait.

`WritesAreShown` and `RailIsUpToDate`: that a list is complete once all requests
are answered is not inductive, since meanwhile it is not. The invariant says of
every slot that is loaded that it is complete or that a handler under way brings
what is missing (`Brings`): a step still to come replaces it, or the answer at
hand adds the one write that the list lacks. For this to survive, no other
handler may use the slot while one has still to write it (`Excluded`): who
waits starts one handler at a time, and whatever that one spawns comes after its
last write; for those who do not wait there is a single save button, which its own
flag disables (`Sole`). A read sees all that was written before it, a list is
rebuilt from one that was complete, and an answer is added to a list that is
there and of the same key (`Knows`). A poll writes nothing, and replaces only
slots that the claim leaves out (`PolledSlot`). The claim is about pages on
which nothing has failed, so the invariant is an implication (`OwnInv`).

Only model-checked: all liveness (`SessionIsFreedAgain`,
`EventsReachConnectedClients`, `TurnEnds`, `RegenerationEnds`), since fairness and ENABLED are
out of the prover's reach. `RedisKeepsContract` needs no proof of its own: it is
`StoresImplementContract` for the store that is Redis.

## 5. Not modelled, and the plan

Out of reach or without interesting behaviour: token cryptography, rendering,
chat themes, localizations, pricing, the network side of crawling and of the
providers, the login page and the layout. Left out of modelled components: the
in-memory delivery of tool results, clients, locales and capability tokens of sessions,
image assets, summaries and search of knowledge bases, and routes of the app
setup that update one row without a check.

Planned, in this order:

1. Compositions: turn store, tool results and event stream in one turn, so
   that the lock's lifetime, the rounds and the events meet; resent XADD.
2. Rate limiting: an abstract sliding window, which the in-memory limiter keeps
   and the fixed Redis window with INCR and EXPIRE apart does not.
3. Pure algorithms against reference definitions: chunking with overlap,
   deduplication, rank fusion, tool-call normalization.
4. Without Redis: tool results and the dedup set in memory; session feedback.
