# A verification project for open-cash

open-cash shows a user's Brazilian Open Finance data (through the provider Pluggy) in a
web client and to an AI agent that runs per conversation. It is a set of Cloudflare
Workers: an API server (`apps/server`: Hono, D1, KV), an agent worker (`apps/agent`:
Durable Objects), a web client (`apps/web`), a package for conversation files
(`packages/files`) and the code that deploys them (`infra`). Its business rules are mostly
thin; what is hard is what happens between two `await`s of requests, tabs and agents that
share D1, KV, R2, a Durable Object and two external services. This project models that part
in TLA+, checks it with TLC and proves what matters most with TLAPS.

## Inventory

| Component | State it keeps | Operations | What is hard | Modules |
|---|---|---|---|---|
| Pluggy client (`features/finance/pluggy/client.ts`) | `apiKey`, `refreshing`, `refreshingForced` per request; a KV entry per connection, shared by all isolates | `get` (with one renewal on 401 and two waits on 429), `key`, `startResolve`, `resolveKey`, `authenticate` | parallel calls share a promise that may be superseded; isolates evict and store the same entry; every await may fail | `PluggyClient`, `PluggyRequest` |
| Token cache (`pluggy/tokenCache.ts`) | the KV entry and its `expirationTtl` | `get`, `set`, `delete`, `tokenTtlSeconds` | clamps at both ends against the provider's expiry | `TokenTtl` |
| Connections (`features/connections`) | a D1 row: credentials, items, name | create, update, delete, list, get | verify, evict and write are separate awaits; they race with finance reads through the shared token | `ConnectionCredentials` |
| Connection scope (`lib/connectionScope.ts`, `features/settings`, finance context, `/mcp`, `connectionProvider.tsx`) | `user_settings.connectionId`; a copy and a query cache in each tab; the pinned connection of a conversation | select, clear, remove, scoped reads, header check | the selection moves and connections go while reads of several tabs and of an agent are under way | `ConnectionScope` |
| Finance reads (`features/finance/service.ts`) | none | accounts, balances, transactions and details, totals, instalments, bills, investments, sources | partial failure; cursor order against sort order over data that changes; grouping and cents | `FinanceReads`, `TransactionListing`, `TransactionTotals` |
| Host and agent identity (`identityDO.ts`, `auth.ts`, `agents/finance.ts`) | DO rows `host_identity`, `agent_identity`, the map of calls in flight; the agent's persisted state; a short-lived session | `ensureHost`, `bindHost`, `ensureAgent`, `signAgentJwt`, the e-mail verification hook, agent start, MCP connection | two stores and a registry without a transaction; restarts; lost answers; overlapping calls | `AgentIdentity` |
| Conversations (`features/conversations`) | D1 rows, `SHARED_KV` owner entries, files in R2 | create, list, get, files | D1 and KV are written one after the other | creation in `AgentIdentity` and `ConnectionScope`, files in `ConversationFiles` |
| Conversation files (`packages/files`) | R2 objects | upload, publish, list, read, delete | filter after limit; paging over a bucket that changes; a durable step that runs again | `ConversationFiles` |
| Chat client (`routes/_app/chat`, `components/chat`) | page state, the opening message in session storage, panels of a transcript | start, upload, send, resend, retry, abort, reconnect; open and close panels | reloads and lost answers at every await; state keyed by position while parts stream in | `ChatClient`, `Transcript` |
| Settings and filters (`components/settings`, `transactionsView.tsx`, `transactionFilters.ts`) | drafts, dialogs, requests under way; the URL | edit, create, remove, toggle; photo; period, accounts, direction, search | one draft for all rows, late answers, two tabs; arithmetic of periods over midnight | `SettingsLists`, `ProfilePhoto`, `TransactionsScreen` |
| Authentication (`securitySettings.tsx`, `twoFactorSetupDialog.tsx`, sign-in, sign-up) | better-auth's rows, a session cache in each browser | sign-up, sign-in, challenge, revoke, set up and remove the second factor | a guard that reads a session another browser changed; calls that outlive the dialog that sent them | `AccountSecurity` |
| Deployment (`alchemy.run.ts`, `infra`) | the memo of a build, the two workers, `wrangler.jsonc` | build, deploy agent, deploy API, write file, destroy | a memoised build; a deploy that stops half way; secrets that are optional | `Deployment` |
| Repository and service bases, HTTP shell, other screens | none | one SQL statement each; stateless | none: each statement is one atomic step of the other models | not modelled |

How they interact: a finance read resolves the scope of its request (the selection of the
user, or the connection pinned to a conversation), loads that row from D1, builds a
`PluggyClient` with the row's credentials and the cache scope `[userId, connectionId]`, and
issues provider calls. An update of the connection evicts that scope's entry, verifies with a
client of the same scope and writes the row. The verification hook creates the host's key
pair in the user's Durable Object and registers it; creating a conversation writes its owner
to `SHARED_KV`; the agent of the conversation reads that owner and asks the owner's Durable
Object for an agent, which is registered under the host. The web client creates the
conversation, uploads its files, sends its first message and navigates; the page of the
conversation sends it again when that failed.

What makes each correct, in a sentence: a call renews a rejected key once, with a fresh one,
and ends; a cached key has enough life left; a stored connection works and a deleted one stays
deleted; what is selected is owned, and no answer is shown under another connection than its
own; an answer is whole or says that it is not; a walk over pages skips and repeats nothing
that stayed; there is one host per user and one agent per conversation, whatever restarts; an
opening message is neither lost nor sent twice by the client's own doing; a typed secret goes
to the row it was typed for; a deploy publishes what was edited and describes what it
published; no form waits for an answer that will not come.

## Modules

Server and agent:

**`PluggyClient`**: one action per stretch of code between two awaits. `refreshing` is the
promise, named by the call whose `key()` created it; `resolution[c]` is the `resolveKey` running
under that name, `call[c]` the frame of `get`. `PlainKey` and `ForcedKey` are `key(false)` and
`key(true)`; `Lookup`, `UseCached`, `Evict`, `Authenticate`, `AuthenticateFails`, `Store` are the
awaits of `resolveKey`; `Settle` is `.finally` and the resumption of everyone who awaits the
promise (microtasks that nothing can come between). A resolution that was superseded by a forced
one goes on running, and its `Settle` clears the slot of the newer one, as in the code. `Revoke`
and `ExpireEntry` are the environment. Tokens are numbered as the provider mints them. Pages,
items and accounts differ only in the path and are not told apart.

**`PluggyRequest`**: the abstract specification: what a feature may expect of one provider call,
without caches, isolates or promises: it presents a key, is refused at most once and then
presents another one, backs off a bounded number of times, and ends. `PluggyClient` implements
it under the mapping `request` (property `ImplementsContract`, theorem `KeepsContract`).

**`TokenTtl`**: a clock, one entry, a token on its way into it and a request that took it out.
It is what justifies the assumption `FreshTokensOutliveRequests` of `PluggyClient`: a key
minted while requests run outlives them.

**`ConnectionCredentials`**: one connection from creation to deletion, with the requests that
create, update, read and delete it, one step per D1 statement, KV operation or provider round
trip. A client is reduced here to the token its request ended up with, since only whose
credentials minted it matters. A behaviour is in one of the `Regimes` for good: whether KV may
fail, whether Pluggy and D1 may, and whether requests may overlap. Readers read again and again.

**`ConnectionScope`**: two tabs, each with its copy of the selection (`shown`) and its query
cache; `SelectConnection` to `ApplySelection` are `selectConnection` in the browser and
`updateUserSettings` on the server, statement by statement; `RemoveConnection` to
`SettleRemoval` are a removal with the two `ON DELETE SET NULL` columns and the reload that
follows; `RunQuery`, `ResolveScope`, `AnswerQuery` are a query from its key to the cache;
`StartTalk` to `AgentAnswer` are a conversation and the reads of its agent. `KeepsPrevious`
chooses between the two kinds of query: with `placeholderData: keepPreviousData` or without.

**`FinanceReads`**: one request to any operation of `FinanceService`. `failing` is the set of
items and accounts Pluggy does not answer for during the request; every subset is taken. `named`
is the `connectionId` an operation may be given: the one in scope, another, or none. Investments
come in pages (`RequestPage`, `ReadInvestments`): `walk` is a caller who follows `nextCursor`,
with any page size, under any failure of each page, also with a cursor of another connection, and
the connection may go meanwhile.

**`TransactionListing`**, **`TransactionTotals`**: `listTransactions` page by page over a
provider whose transactions come, go and move to other days, and a scope that changes; and the
figures of `getTransactions` and `listInstalmentPlans` as operators over a set of rows, checked
in every reachable state of the listing. The order used to sort (`localeCompare`) and the one
used for the cursor (`<`) are two constants; `OrdersAgree` says that they agree on the
provider's ids, as they do on lower-case UUIDs, and is an assumption of everything there.

**`AgentIdentity`**: the hook's steps (`EnsureHost` to `DeleteSession`), the two steps of
creating a conversation, and the steps of a boot (`GetAgentState` to `PersistState` or
`SignAgentJwt`). A Durable Object admits other calls while it awaits a key pair or a
`fetch`, not while it awaits its storage (the input gate), so each of its actions is what
runs between two of the former. `RestartDO` loses `agentPromises` and the calls in progress
and keeps the rows; `CrashHook` cuts a request off. The registry is external and idempotent by
public key, as the plan document says; the id it gives out is represented by that key. It may
take a key and fail to answer.

**`ConversationFiles`**: an R2 bucket as a function from keys to objects, `NextCursor` and
`Items` as `list` computes them (the limit first, the filters after), a caller that walks, the
durable step of a tool that publishes (`Publish`, `AgentCrashes`), and the sidebar's deletion in
its two calls.

Web client:

**`ChatClient`**: the home page and the page of a conversation in one tab. A send is a record
with its stage; `mine` says that its page is still mounted, so a late answer finds it or does
not. `Reload` ends every promise and keeps session storage. `Create`, `Upload`, `Admit` may do
their work and be answered with an error. `fate` is a history variable: what the client may
know of its opening message.

**`Transcript`**: `toSegments` and `endsRun` as operators on the parts of a message, and the
open state of panels and steps with the browser's own: a `<details>` flips first and tells
later, so `HandleToggle` may come after a part changed.

**`SettingsLists`**: the lists of connections and of API keys share one model, since both keep
one draft, one `savingId`, one dialog of each kind and one pending flag for all rows. A request
knows whether the list that sent it is still mounted (`mine`), and an answer does what the code
does with it: it closes whichever editor or dialog is open by then.

**`ProfilePhoto`**: `changePhoto` and `saveProfile` in two tabs against the column and the
bucket, and the deletion of the account. A deletion of a replaced photo is best effort and nothing
waits for it: `cleaning` has those on their way.

**`TransactionsScreen`**: the search that is rendered and the one a navigation is loading;
`Shifted`, `MonthRange` and `CanShift` are the arithmetic of `transactionFilters.ts` on numbered days.
The page opens on the search of any `Url`, once validated: a month after this one too, and any range.

**`AccountSecurity`**: rows of better-auth as `src/` speaks of them, the session each browser last
heard of, and the dialogs that are mounted. A call in flight knows who is left to hear its answer
(`hears`): the dialog that sent it, only the settings around it, or nobody. `SetupGone` and
`SettingsGone` take that away, and `ActsOn` says what is done with an answer by then. That the
auth client turns every failure into an error answer and never throws is taken for granted.

Deployment:

**`Deployment`**: one deploy step by step, with the memo of `AGENT_BUILD`, what is live, and the
generated `wrangler.jsonc`; `Abort` may come after any step, edits and settings change in between.

The `MC...` modules give the constants values and the `.cfg` files choose among them.
`MCWorkspace` and `MCWebClient` check several modules in one run: `part`, chosen initially, says
which of them moves, so that their state spaces add up; those modules share no state.
Definitions whose comment begins with "A variation" are not part of the specifications:
they are mistakes that each property has to notice.

## Runs

| Run | Bounds | What it shows |
|---|---|---|
| `client-parallel` | one cached client, two calls with every answer, or three with one 429 between them; two 429 waits, KV and `/auth` failing | the shared promise is live and of the kind `refreshingForced` says (`SlotIsLive`); a rejected call awaits only a forced resolution (`AwaitedIsLive`) and presents a fresh key (`RenewedTokenIsFresh`); no dead key is stored (`CacheNeverRegresses`); the client implements `PluggyRequest`, liveness included (`ImplementsContract`) |
| `credentials-requests` | a create, two updates, a delete and a reader that reads on, in two regimes: one at a time with Pluggy and D1 failing; overlapping with KV failing too | one at a time, what is stored works (`StoredWorksWhenCalm`) and the entry between requests belongs to the row, except for what a failed update leaves (`QuietCacheServesRow`); overlapping, a deleted connection stays deleted and reads are not served the token of other credentials for ever (`MisledReadsCease`) |
| `identity-provisioning` | two hooks, three boots of one conversation, any number of restarts | one host, one agent, nothing registered for an unowned conversation, an active row is known to the registry, a ready state signs, no session or call left behind |
| `listing-walk` | four ids of two connections, two days, two filters, pages of one row | what stayed is listed, nothing twice, one connection per walk, walks end; totals by day, by group and as a whole agree, and what remains of instalments is what is owed, in every set of rows |
| `workspace-reads` | two of the user's connections and a foreign one, two tabs with a selection each, one screen that reads, one removal, one conversation; two accounts of two items, every failure; three holdings in pages of one or two; three months of unlike length, one of them still to come, any validated search in the URL, and a midnight; a token over 14 minutes; deploys with any settings, each source edited at most once | `ScopeIsOwned`, `CachedUnderItsConnection`, `AgentStaysPinned`; `CompleteOrDeclared`, `NotFoundIsAbsent`; `PeriodsTile`; `InFlightNeverRaces`; `FileMirrorsApi` |
| `webclient-screens` | one conversation, one text, one file, two sends at a time, two messages; messages of three parts of four kinds; three keys and pages of two; two connections, one API key, two requests in flight; three photos and two tabs; two browsers that take turns at the security settings, two secrets, two two-factor calls in flight | `OpeningCovered`, `OpeningSentOnce`; `TranscriptKept`; `FilesListedWhole`; `SecretGoesToItsRow`; `ImageStored`; `FormsAnswered` |
| `credentials-overlap`, `credentials-refused`, `identity-hooks`, `workspace-cleared`, `deployment-bundle`, `security-abandoned` (violations) | the fewest actors that show it | see the findings |

Why these bounds: to supersede a *plain* resolution in `PluggyClient` a third call is needed (one
call's renewal fails and empties the slot, a second one starts a plain resolution, a third is
answered 401 for the old key), and no rule relates more than a superseded, a current and a waiting
resolution. `MCInOrder` starts the calls, which are alike, in one order. Isolates meet only in the
KV entry, on which several resolutions of one client and the expiry already act in every order;
the theorems hold for any number of isolates, cached or not. Two updates are what an update needs
to find another's row. Three boots let one call run, one join it and one come after a restart. One
conversation is enough because conversations share only the host, and every boot step touches its
own conversation. Two connections and two tabs are what it takes to select one while another
answers; only one tab reads (`Viewing`), since tabs meet in nothing but the selection, and the
theorems hold for any number. With three holdings a page has one before it and one after it. Pages
of one or two rows make every boundary a page boundary. Three parts are a step, something between,
and a step; two sends are the opening message and its repetition, or two messages at once. The
clock of `TokenTtl` uses minutes and the real skew and least TTL (5 and 1), with the other
constants shortened so that every clamp binds within the horizon; the theorem covers the real
values.

State constraints: `OneSide` (in `workspace-reads`) follows either the reads of the tabs or the
conversation, which meet only in the connections, and lets one tab select where it follows the
latter; `OneDraft` does not draft a range in the calendar while a navigation is under way: the
draft does not look at it; `Promised` (in `webclient-screens`) stops where `ImageStored` makes its
exception, which lasts, opens the profile form in one of the tabs only, and lets one browser at a
time show the security settings: browsers meet in the rows, which `FormsAnswered` does not look
at. The theorems make none of these restrictions. The user's two connections are symmetric in
`workspace-reads`; neither is named by the code.

Deadlock is checked in every run but those of `AgentIdentity`, where a conversation may never be
created and all calls may be over. Elsewhere the only ends are explicit: `Finished` and
`MCTwoFinished` in the client run, `Stopped` (the horizon of the clock) in `MCWorkspace`.

### Fairness

`PluggyClient`: weak fairness of each call's and each resolution's steps: the runtime resumes a
function whose promise settled, and each promise (a fetch, KV, `delay`) settles or rejects. A call
need not be issued, no token need die and no entry expire. In `ConnectionCredentials` the steps of
a request that has begun are weakly fair for the same reason, and so is the expiry of an entry,
which KV enforces; beginning a request is not, nor need a reader read again. `MisledReadsCease` is
not the expiry alone: a read that is served a foreign token, or that read the row before it
changed, must not put that token back for the next one. In `AgentIdentity` the steps of a hook
that began and of a boot that reached `ensureAgent` are weakly fair; restarts, crashes, new
requests and conversations are not. `CallsEnd` still holds there under any number of restarts
because a restart ends the calls it interrupts; a hook that opened a session ends it, unless it is
cut off. In `TransactionListing` a caller that has a cursor asks for the next page sooner or later
and is answered or refused: `WalksEnd` says that following cursors ends, for a caller who does.
The screens state no fairness and no liveness: a user may stop at any point.

## Findings

* **An overlapping read defeats verification** (`credentials-overlap`). `updateConnection` evicts
  the shared token so that its client must log in with the new credentials. A read of the same
  connection that is already past its own lookup stores the *old* token afterwards; the update's
  client finds it, checks the items with it and never tries the new credentials, which are then
  stored. `service.ts:34-35` says that a connection that exists works.
* **A refused update breaks reads** (`credentials-refused`). The new credentials are verified
  under the cache scope of the stored ones. If they log in but may not read the items, the update
  is refused and their token stays in the entry: until its TTL, reads of the unchanged connection
  present a foreign token, and as the answer is no 401, nothing renews it.
* **`ensureHost` is not idempotent under overlap** (`identity-hooks`). The plan
  (`docs/agent-auth-identity-implementation-plan.md:151`, `:183`) asks for it. Two hooks may both
  see no row before either has its key pair; the second insert fails on the primary key. `OneHost`
  holds all the same.
* **Screens do not zero out** (`workspace-cleared`). `connectionProvider.tsx:9` says that they do
  when nothing is selected. The two transaction queries have the connection in their key and
  `keepPreviousData` (`useFinanceTransactions.ts:80`, `:100`): when the selection is cleared, or
  the selected connection removed, they go on showing the rows of the connection before.
  `CachedUnderItsConnection` holds: no cache is wrong, a placeholder is shown.
* **A deploy may publish an old agent** (`deployment-bundle`). `infra/workers/agent.ts:30-31` says
  that only the inputs it lists change the bundle. The agent also imports `@open-cash/files`, a
  package of the workspace, which is not listed: after an edit there alone the build is taken from
  the memo, while the API of the same deploy has the new code.
* **An abandoned set-up replaces a verified authenticator** (`security-abandoned`).
  `twoFactorSetupDialog.tsx:27` says that abandoning is safe because the next `enable` replaces an
  unverified row, and `securitySettings.tsx:246-247` that over a verified row it would silently
  invalidate the authenticator the user has. Cancelling the dialog does not take back its call:
  with an `enable` still under way, a second set-up is begun and verified, and then the late
  `enable` replaces the secret. Or the code is being verified when the dialog is cancelled, and a
  new `enable` is sent before the session is read again. The guard on `twoFactorEnabled` sees
  neither. One browser is enough.

## Proofs

The theorems hold for every value of the constants that satisfies the named assumptions.

`PluggyClient_Proofs`, for any sets of clients and calls, any assignment of calls
to clients, cached or not, any failures and any `MaxThrottle`:

* `TypeCorrect`: `Spec => []TypeOK`.
* `SlotLive`, `AwaitedLive`, `RenewalIsFresh`: the invariants of `client-parallel`;
  `CacheStaysGood`: its action property.
* `GivesUpOnlyWhenThrottled`: a 401 reaches the user only after a 429, a consequence of
  `RenewalIsFresh`; the 429 loop never renews.
* `KeepsContract`: every step of the client is a step of `PluggyRequest` or a stutter, for
  each call (`Spec => Contract!Safety`).

None of the invariants is inductive alone. The inductive invariant has three parts.
`Promises` says where promises can be: the slot, the owner of each resolution awaits it, only
calls that await are named by `on`, and a renewal comes from an answered 401. `Tokens` says
which tokens can be dead: only the seed token ever dies, whatever is minted is later than it,
a rejected token is dead, hence the seed, and every token a *forced* resolution delivers was
minted and is fresh, which needs that forced resolutions never look into the cache. `Keys`
says that a token in use was minted. The superseded plain resolution may still put
the seed into `apiKey`, and the invariant allows it: that is exactly why `AwaitedIsLive` is about
promises and not about `apiKey`. The step proofs go action by action, one conjunct at a time;
the temporal steps are `PTL`.

`TransactionListing_Proofs`, for any ids, days, filters, connections and page size:
`ListingTypeCorrect`, `SteadyRowsAreListed`, `NothingIsListedTwice`, `WalksKeepTheirConnection`.
The lemmas show that the cursor test is a strict weak order and, where the two orders of ids
agree, the order of the sort. The inductive invariant (`Separated`) says that between two pages the
cursor separates the rows: a row that stayed was listed or comes after the cursor, and nothing
listed comes after it. Changes of the provider only ever take rows out of `steady`, so they
cannot break it.

The same module proves the figures of `TransactionTotals`, for any finite set of stored rows and
any amounts: `FiguresAgree` (`TotalsReconcile`) and `RemainingIsWhatIsOwed` (`RemainingIsOwed`).
What an invariant has to say of the state is little: every step keeps `stored` finite
(`StoredIsFinite`). The work is in the sums. The library defines a sum by recursion on subsets;
that there is such a function is by induction on their size (`SumsExist`), and what follows, that
an element may be taken out of it (`SumTakeOut`), that it is the sum of two parts (`SumJoined`) or
of the parts that share a key (`SumByKey`), and that it may be taken over the images under an
injection (`SumRenamed`), is by a smallest counterexample (`MinimalSubset`). The days partition
the rows of the period (`DaysAddUp`); the plans that are not open owe nothing (`PlansAddUp`); and
each purchase is one group, whose latest instalment is a furthest one (`LatestIs`, since the order
among equal numbers is strict). `RemainingIsOwed` compares plans with purchases only where the key
of a group tells purchases apart and two copies of one instalment agree on count and amount:
without the second, which copy counts would depend on the order of ids.

`ConnectionScope_Proofs`, for any connections, tabs, selections in flight and either kind of
query: `ScopeTypeCorrect`, `SelectionIsOwned`, `CacheIsOfItsKey`, `AgentReadsItsConnection`.
`ScopeIsOwned` alone is not inductive: a selection past the check is about to be written, and
what is read back is applied later. `Checked` says that a selection in its write stage is of the
user, and that every answer on its way is. `ResolvedToKey` says that a request is resolved to
the connection of its key or not yet, which is what the header check buys; `PinnedToChosen`
that the column of a conversation, and what a tool call took from it, is the connection chosen
at its creation or nothing.

`ConnectionCredentials_Proofs`, for any requests, bodies, credentials, items and access:
`CredentialsTypeCorrect`, `StoredConnectionsWork`, `CacheServesItsRow`, and the action property
`DeletedStays`. The invariant has a part for each regime. `GeneralInv` holds in all: which steps a
request takes, what it carries, and that the creator is at work before there is a row (`NoRowYet`),
which is why nothing brings a deleted connection back. `CalmInv` holds while requests do not
overlap and KV does not fail: `OneAtATime`, and what the one at work has in hand
(`UpdateKept`, `CreateKept`, `ReadKept`): an update past its check has a token of the very
credentials it will write. `CacheInv` says when the entry may be ahead of the row: only between an
update's token and its write, or for good when that write failed (`Ahead`, `LeftToken`).

`AgentIdentity_Proofs`, for any hooks, conversations and boots, any overlap, crash and restart:
`IdentityTypeCorrect`, `HostIsOne`, `AgentIsOne`, `ActiveIsKnown`, `ReadyStateKeepsSigning`,
`CallsAreCoalesced`, `IdentityFailsClosed`, `SessionsEnd`. What is registered is a key of a row
that stays, and what a call carries is the key of that row: `HostKept` for hooks, `BootKept` for
boots. `Coalesced` links `agentPromises` to the boots inside the object, so that at most one of
them is between the read of a conversation's row and its insert; without it `BootKept` (a boot
that registers carries the key of the pending row) is not inductive. A restart empties the map and
ends those boots in one step, and the rows stay.

`WebClient_Proofs`: six screens that share no state, each with an invariant of its own.

* `SecretsKeepTheirRow`, for any rows, keys and requests. The argument goes from the draft
  (`DraftOfItsRow`: an open editor holds no secret of another row, since opening it empties the
  field) to the requests (`RequestsOfTheirRow`) and to what is stored. A late answer closes an
  editor and keeps its draft, which is emptied before it is used again.
* `PhotoIsStored`, for any tabs and photos. Between its upload and the update that points the
  column at it a photo belongs to one tab (`NewIsFresh`), and the photo a tab deletes is no longer
  in the column (`PreviousIsPast`).
* `FormsGetAnswers`, for any browsers, secrets and calls. The property is an invariant as it
  stands, with the types: the work is that a dialog that goes takes its waiting state with it in
  the same step that takes it away from the calls (`SetupGone`, `SettingsGone`), and that an
  answer meets only the form that asked, whichever call of the same kind is answered first.
* `OpeningIsCovered`, `OpeningIsSentOnce`, for any conversations and sends. At most one send
  carries the opening message, and while it does its key is out of session storage (`OnItsWay`);
  afterwards it is in the transcript or back there (`Left`). That it is admitted once needs to be
  part of the same induction (`AtMostOnce`).
* `WalkListsAll`, for any keys, contents, kinds and limits. What stayed and was not listed lies
  after the cursor (`ListedSoFar`); a page is the first part of that (`PageIsFirst`) and the
  cursor its last key (`CursorIsLast`).
* `TranscriptIsKept`, for messages of any length. `toSegments` is a recursion over the parts, and
  `SegmentsUpTo` is shown to satisfy it (`SegmentsUpToIs`, by way of `PrefixExists`); `Grouped`
  says what the segments of the first parts are and is carried over one part by `JoinsRun` or
  `BeginsSegment`. Segments only grow at their end (`PanelsKeepTheirSteps`), which is why an index
  may be a key. `StepsKept` is the invariant of the steps: one that is not shown was closed by the
  reader, or has not failed and was never spoken of by an event.

`WalkListsAll` and `TranscriptIsKept` need induction over data, as the sums and the fold of the other
modules do. The library's induction theorems cannot be used here, but
`WFMin` can: every set of numbers that is not empty has a least element (`LeastNumber`), and
the set in question is that of the numbers for which the claim fails.

`FinanceReads_Proofs`, for any items, accounts and rows and any part of them the provider does not
answer for: `AnswersAreComplete`, `AbsentIsAbsent`. The invariant follows a request through its
stages: with the accounts loaded, either all are there or something was declared unavailable
(`AccountsOrDeclared`), and likewise for the transactions (`RowsOrDeclared`); `NamesOne` keeps a
lookup of one account from being empty. Of a walk over the investments (`WalkInv`), `ListedSoFar`
says that what the pages have shown are the holdings up to the last cursor, but for those of items
that failed, which a page then declared; a page that is asked for after the last one therefore
repeats nothing. The same module proves `PeriodsFollow` of `TransactionsScreen`, for any calendar:
every search that is rendered or being loaded is `Sound`: a range in order, or a month shown from
its first day, begun or not. The month before one that is still to come may be the current one,
which ends today and not on the eve; its next one starts on the first day of the later month all
the same. Whether an arrow forward is offered at all is `CanShift`'s.

And it proves `NeverRaces`: `TtlSpec => []InFlightNeverRaces` for all constants that
satisfy `TtlAssumption` and `LifetimeAssumption`. The latter is what `MIN_TTL_SECONDS` and
`FALLBACK_TTL_SECONDS` take for granted: no readable token lives less than six minutes, no
opaque one less than 95, plus the time to store it.

`Deployment_Proofs`: `FileMirrorsTheApi`, for any bindings, providers and environments. The state
part (`DeployInv`) is that the file is one that was generated, in some environment, and that what
runs was bound in some environment, not necessarily the same one. The rest is about the generator:
the fold over the entries goes one by one (`SpecAfterIs`), and after each number of them every
section holds the names of the entries of its kinds, once (`Mirrors`, carried over one entry by
`ClassifyMirrors`, unless the deploy dies). A name is appended twice only if it is declared twice,
which two entries of an object cannot do; a bound secret and the same optional one can, and that
is the case `PushSecret` looks for.

The proofs rest on the named assumptions of the modules: the shapes of the constants (among them
that the atoms for "nothing" are no values, that a photo exists at all, that keys of files are
numbers from 1, 0 standing for no cursor, and that every day of the horizon lies in a month), and
those about the provider (`FreshTokensOutliveRequests`, `LifetimeAssumption`, `OrdersAgree`).
`DeployAssumption` says what a JavaScript object gives: the entries of `API.env` have names of
their own, and none is a provider's. TLC evaluates them in every run that extends their module.

Every safety property of the passing runs has a theorem. Only model-checked is liveness, which is
out of this prover's reach: the second part of the contract, `MisledReadsCease`, `CallsEnd` and
`WalksEnd`. They hold under the fairness given above, on the instances of the runs.

## Abstractions

* Tokens, keys and credentials are atoms; sealing, JWT contents, hashing of the cache key and
  capabilities are left out. A KV read sees the last write (KV is only eventually consistent
  across regions, which adds staleness that `ExpireEntry` and the dead seed token partly stand
  for).
* A failing `/auth` of any kind ends a resolution; error codes are kept only where `get`
  distinguishes them. A provider answer with a consent code is one status of its own.
* In `ConnectionCredentials` the provider's view is fixed while requests run, the name of a
  connection appears only as a reason for a write to fail, and a client's 401 handling is
  `PluggyClient`'s.
* In `FinanceReads` the provider is consistent within one request: what it does not answer for, it
  does not answer for twice. A set of rows stands for any figure computed from it. Between two
  pages of investments the positions and their balances, by which they are sorted, stay as they
  are: with balances that change, a walk may skip or repeat, which the code does not rule out.
* A page of `ConversationFiles` and of `TransactionListing` is computed in one step: R2 and one
  request of the service see one state of what they list.
* In `ChatClient` a request that failed before the agent admitted it never arrives later; the
  stream of a conversation is the order of admission. Deltas of a part are one state of it.
* Names, sizes, content types, e-mails and dates of API keys matter only in whether they are
  valid.
* In `Deployment` a tree of sources is a counter of its edits.
* No code path sets the status `revoked` of a host or an agent, so it is not a state here.

## Not modelled

* `common/repository`, `common/services`: each operation is one SQL statement, one atomic step of
  the models that use it. `index.ts`, `lib/errors.ts`, `lib/openapi.ts`, schemas: stateless.
* The overview, accounts, cards and administration screens: they render answers of queries.
* Social sign-in, password reset, backup codes, e-mail sending: better-auth's and the mail
  service's; `src/` configures them.
* What the agent says: the model behind it and its sandbox are external.
* Hazards listed in `PROJECT.json` without a property have a note there: behaviour that is in the
  models and that no line of the repository promises otherwise, such as a calendar arrow undoing a
  filter whose navigation is under way, or a new API key whose form was cancelled and tab left
  before the answer, which is then never shown.

## What stays open

* Liveness beyond the instances of the runs.
* The lost update between two updates of one connection (`connections/service.ts:110`), should the
  code come to promise something about it.
* A second send that reaches the agent late, and pages of R2 that see different states of the
  bucket: see "Abstractions".
