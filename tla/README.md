# Verification of the cores-mcp server

TLA+ models of the Cores MCP server, TLC runs that check them on small
instances, and TLAPS proofs of theorems about them for every instance.
Line numbers refer to `src/`.

## 1. The system

`cores-mcp` is one Go process. It serves the Model Context Protocol over
stateless HTTP (`cmd/server/main.go`), reads the four Core databases through a
read-only connection pool, and performs writes only by calling the REST API of
the Core that owns the data. Several replicas may run; each has its own memory.

| Part | State it keeps | Operations | Hard behaviour |
| --- | --- | --- | --- |
| Guarded write path (`types.go` `executeMutationTool`) and write replay store (`write_guard.go`) | map from user, tool and idempotency key to an entry (fingerprint, creation time, done channel, result), mutex, 24 h lifetime, 2048 entries | `begin`, `finish`, `forgetFailed`, `pruneLocked`; the handler runs between them without the lock | concurrent retries, eviction under waiting calls, lost answers of the Core, restarts |
| OAuth server (`authn/oauth.go`) | one-time codes in memory; tokens are signed and kept by clients | `authorize`, `exchangeCode`, `exchangeRefreshToken`, `VerifyToken` | races for a code, users disabled between two lookups, restarts with other settings |
| OAuth client store (`authn/oauth.go`) | map of clients, JSON file | `put`, `get`, `loadClientStore` | crash or I/O error between the memory insertion and the rename |
| HTTP middleware (`httpx/middleware.go`) | fixed-window counters per address | `RateLimiter.Middleware`, origin check, panic recovery | window boundaries, eviction of counters, time taken before the lock |
| Tool authorization (`types.go`, `tool_oauth.go`, `financial_*_access.go`) | none (tables of scopes per tool) | `authorizeMutation`, `requiredMutationScope`, challenges | many tables that must agree |
| Guided write tools with a preview in the server (`tools_warehouse_master_*.go`, `_category_*.go`, `_product_*.go`, `_location_*.go`, ...) | none in the process; a preview and a version travel through the client | preview, confirmed write, verification | the record, or what it depends on, changes between the queries of a preview, the preview and the write |
| Guided write tools with a preview in the owning Core (`tools_planner_lifecycle.go`, most `tools_rental_*.go`, `tools_procurement_*.go`, warehouse workflows) | none in the process; receipts in the Core | one request, with `preview` or without | what makes a call a write, what rights it needs and how it is repeated are decided in separate lists |
| Core API client (`core_api.go`) | none | `doJSON` with user, scope and idempotency headers | ambiguous outcome after a timeout |
| Read store (`store/store.go`) and read tools | pool of 12 connections | `Query` in a read-only transaction with the user's identity | each query sees one state with the rights of its user |
| Query engine (`tools_query.go`) | none | builds one SQL statement from a structured query | pure; the field and row rules |
| Knowledge, prompts, configuration, smoke test | none | load at start | none |

The parts meet in one request: the rate limiter and the origin check admit it,
`VerifyToken` gives it an identity and scopes, `authorizeMutation` compares the
scopes with the tool, `begin` decides whether the tool's handler runs, the
handler previews or writes through the Core API client, and `finish` publishes
the result to the calls that wait.

## 2. Modules

Every operator carries the name of the function, field or table it stands for
where TLA+ allows it; the comment above an action names the code it models.

| Module | Models | State | Actions and what they are in the code |
| --- | --- | --- | --- |
| `WriteReplay` | `executeMutationTool`, `writeReplayStore`, the owning Core | `entries`, `createdAt`, `outcome` are the store; `pc`, `key`, `payload`, `source` the goroutine of a call; `request`, `header` what it sent; `receipt`, `mutated` the Core | `BeginOwner`, `BeginConflict`, `BeginWait`: the three results of `begin`, pruning included; `Cancel`, `AnswerFromCache`, `ReplayAtOwner`: the select in `begin` and what follows it; `Send`, `Finish`, `FinishReplay`: the handler; `ForgetFailed`: a critical section of its own; `CoreWrites`, `CoreAnswersReceipt`, `CoreRefuses`: external; `Tick`, `Crash` |
| `IdempotentWrite` | what the write path promises for tools with a durable receipt | keys, payloads, effects, confirmations | arrival, one effect per key, confirmation after the effect |
| `OAuthServer` | the authorization server | codes, handed-out tokens, the request goroutines, the suite's users, the process setting for writes | `Approve`, `StoreCode` (POST authorize), `TakeCode`, `StartRefresh`, `WriteTokens` (POST token), `StartVerify`, `LookupRights` (`VerifyToken`), `ValidateUser`, `Refuse`, `ChangeUser`, `Restart`, `Tick` |
| `Delegation` | what the authorization server promises the suite's users | what was approved, spent codes, what clients hold and act with, the users | agreement, exchange, refresh, an act at one moment; change of a user, restart |
| `ClientStore` | `clientStore` and its JSON file | map, lock, file, temporary file | `Insert`, `Encode`, `OpenTmp`, `WriteTmp`, `Rename`, `Answer`, `Fail`: the steps of `put`; `Stop`, `Start` |
| `ClientRegistry` | what the client store promises to readers and to registering clients | clients known, clients that last, what each registration was told | registration, refusal and answer, each at one moment; stop and start |
| `RateLimiter` | `RateLimiter.Middleware` | counters, and as history the counters without deletion | `ReadClock` (before the lock), `Count` (the critical section), `Tick` |
| `ToolScopes` | the tables of scopes and retries for all 183 mutation tools and the financial reads | the tool called, its input, the token, the challenge | `Call`, `Consent` |
| `GuidedWrite` | the protocol every guided write with a preview in the server has, and the Core it writes to; its rules are parameters | the Core's rows and versions; per call the reviewed row and version, the row read, the next query | `Review`, `ReadRecord`, `ReadStale`, `Check` (one query, one transaction), `CoreWrites`, `CoreRefuses`, `OtherWrites` (external) |
| `ReviewedWrite` | what a guided write promises its user | the Core's rows; per call what was asked, the row shown and what became of it | review, one write of the shown row, decline, writes of others |
| `Locations` | the rules of storage locations, an instance of `GuidedWrite` | as above | the inputs create, move, rename, resize, archive and restore |
| `Catalog` | the rules of manufacturers, brands, three levels of categories and products, an instance of `GuidedWrite` | as above | the inputs create, update, delete, archive and restore; the queries in the order of each tool: `MasterCreatePasses`, `MasterUpdatePasses`, `DeletePasses`, `ProductCreatePasses`, `ProductUpdatePasses`, `LifecyclePasses` |
| `OwnerTools` | one record per tool whose preview the Core makes: its confirmations, the rights its handler asks for, what it looks up or leaves out | | a definition per source file |
| `OwnerWrites` | calls of one such tool through the whole write path, with the lists of name prefixes the path goes by | `tool`; per call `pc`, `input`, `rights`, `behind`, `result`, `answer`; `holder` the store's entry per subject; `receipt` the Core; `known` whether a name is still unambiguous | `Reject`, `Preview`, `Execute` (the checks of `executeMutationTool` and `begin`), `Repeat` (an entry that is complete), `Handle` (the handler up to its request), `Core` (external, and the rest of the handler, `finish` and `forgetFailed`), `Restart`, `Rename` |
| `KeyedChange` | what such a tool promises to the calls of one user with one key | the change that was made; per call the input, the rights, the answer | begin, the change with its confirmation, later answers about it |
| `*Proofs` | theorems about the module in front of `Proofs`; those about `ToolScopes` are in `OAuthServerProofs`, with the scopes they need | | |
| `MC*` | model values, symmetry and start states for TLC | | |

`WriteReplay`, `GuidedWrite` and `OwnerWrites` divide the write path between
them. `WriteReplay` has everything that happens when calls are repeated, with
many keys, expiry and eviction, and takes the handler as one request to the
Core. `GuidedWrite` has everything inside a handler that prepares its change
itself, and takes the call as made once. `OwnerWrites` has the tables: for each
tool, whether rights, confirmation, repetition, release of the key and redaction
fit together, for calls of one user with one key.

Five abstract specifications say what is promised. Each is an instance named
`Promise` in the module that implements it, with a refinement mapping, and its
specification is a property that TLC checks and a theorem proves:

* `IdempotentWrite` in `WriteReplay` (`KeepsPromise`): calls of durable tools and
  their receipts.
* `ReviewedWrite` in `GuidedWrite` (`ActsAtOnce`): the steps of a call are mapped
  to what it has come to (`Outcome`); all of its queries are stutters, and the
  Core's answer is the one step that acts.
* `KeyedChange` in `OwnerWrites` (`ChangesAsConfirmed`): the store's entries, the
  lists of tools and restarts disappear; what remains is one change per key, made
  with the rights of a caller who confirmed it, and answers to callers who asked
  for the same and may see it.
* `Delegation` in `OAuthServer` (`DelegatesAsApproved`): codes in memory, signed
  claims, expiry and the two separate lookups of a request disappear. A code is
  `Spent`, and its grant `Held`, once the user check of the request that took it
  is over, and a client `Acts` once its rights were looked up: these are the
  moments at which a request takes effect.
* `ClientRegistry` in `ClientStore` (`RegistersAtOnce`): the lock and the file
  operations disappear. What readers can see (`Visible`) is the map without the
  client whose `put` is under way, because `get` waits for the same lock.

### What is abstracted

* Identifiers, payloads and messages are model values. A payload is its
  fingerprint; equal inputs have equal fingerprints.
* Tokens carry their grant; a signature, PKCE verifier or CSRF value either
  matches or not, a nondeterministic choice (`proved` in `TakeCode`).
* Locations: code, barcode and name are one code; devices, cases and
  quantities, open tasks and counts are one unit of stock, none of which moves
  the version of the location; the status `maintenance` behaves as `blocked`;
  the review of similar names only adds a question and is left out; formats and
  lengths of fields are left out. The rules `Sound` the Core applies are not in
  this repository. They are taken from what the tools say of it ("rechecks
  hierarchy and inventory limits") and marked external.
* Catalogue: name, barcode and other identifiers are one name; open jobs and
  packed devices of a product are one unit beside the row; texts, prices, units,
  similar names, the tracking change, the manufacturer taken over from the brand
  and master data created together with a product are left out. `Sound` is
  external, as for locations: what the tools announce of the Core's rules and
  their queries ask.
* Tools with a preview in the Core: an input is its confirmations, the way it is
  run (`dry_run`, the `prepare_` tool, or neither), a key, whether it names a
  price, and whether it gives the record by name. Payloads, checks of their form
  and the wording of answers are left out; of an answer the kind is kept and
  whether it has prices.
* The Core's writes compare the version in the transaction that writes. This is
  what `expected_updated_at` is sent for, and it is an assumption about another
  program.

## 3. Runs

| Run (cfg) | Bounds | Shows |
| --- | --- | --- |
| `ReplayRestart` | 3 calls, a plain and an owner-replayed key, 2 payloads, one tick past the lifetime, 1 restart | a confirmed call is deduplicated, cached answers are the first attempt's, a repeated run after a success writes nothing, and `IdempotentWrite` is implemented |
| `ReplayFull` | capacity 1, 3 calls, 2 keys; fair | the inductive invariant of the proofs; eviction and `forgetFailed` against new calls: one owner runs per key, growth past the capacity only for calls in flight; waiting calls are answered and keys of failed durable calls freed, also after eviction |
| `ReplayEviction` (violation) | capacity 2, 3 calls, 2 keys | finding 1 |
| `ReplayCoalesced` (violation) | 2 calls, 1 key | finding 2 |
| `OAuth` | 1 user, 2 clients, 4 requests, 1 code, 3 scope sets (one unsupported), 1 restart, 1 change of the user | the inductive invariant of the proofs, in which a code is exchanged once and only for its client (`OneExchangePerCode`); no chain of consent, exchange and refreshes gains scopes; access only for users active during the request; a process without writes issues none; `Delegation` is implemented |
| `ClientFile` | 3 registrations, 2 stops, any file operation fails; fair | answered clients survive, the file always decodes, every registration ends; `ClientRegistry` is implemented, so that no registration is lost to another |
| `Limiter` | 6 requests, 2 addresses, limit 2, a window of 2 ticks, 1 entry kept beyond need, waits up to a window | at most `3 * Limit - 2` requests in any minute, no unfounded rejection, deletion never changes a decision |
| `ToolScopes` | all 183 mutation tools, all financial reads, every token their checks tell apart | challenge, consent and the checks of the call agree; a consent never costs a grant |
| `Locations` | 3 locations in every tree shape, every row archived or not, empty or not; one call of every kind; one change from elsewhere | the inductive invariant of the proofs (`GuidedInv`); a write replaces the row that was reviewed; what the queries let pass the Core refuses only after a change |
| `Catalog` | 9 records (every kind, its parents twice) and room for one more, 4 start catalogues, 2 calls of any tools, one link or two that belong together per change | each call acts at once on the row that was reviewed, or not at all; one write per version; what the queries let pass is refused only after a change; an archived product can be restored once what it names is active |
| `OwnerWrites` | 2 calls with one key, one tool for each of the 18 behaviours that the lists and handlers tell apart, every input, every change of rights, 1 restart, 1 rename | no write without key and entry, no key spent on a preview, no price and no administrator's data without the right, a repeated write is answered by its receipt, failures give keys back; `KeyedChange` is implemented |
| `OwnerRights` (violation) | as `OwnerWrites`, no restart and no rename | finding 3 |

In `Catalog` the second call is what changes the records under the first; users
of the Core who write besides are bounded to none there (`MaxOthers = 0`) and to
one in `Locations`. `OwnerWrites` leaves out `rental.jobs.assign_device`
(section 4).

Why the bounds are enough to be of use. Every hazard of the store involves one
key and at most three calls (owner, waiter, evicting or later call). A code or a
chain of tokens involves one consent, and its races two requests. A cycle needs
two locations, a parent that changes under a query three; a product that
contradicts a move needs the product, the level that is moved and two parents; a
stored answer needs the call that stored it and one that gets it. Every property of a passing run has a
mutant of the code, named `X_...` next to the definition `X` it replaces, that
violates it in the same run, so the bounds are large enough for the violation
to show. Where a theorem exists the bound does not matter.

`CHECK_DEADLOCK FALSE` is set where all calls may have been answered; the server
then waits for requests. In `Limiter` both values of `BurstBound` that matter
are reached: with waits, four requests for a limit of two, which is
`3 * Limit - 2` and happens to be twice the limit. That it is less than twice
the limit without waits, and more than that for larger limits, is what the
theorem adds.

### Fairness

`WriteReplay!FairSpec` has weak fairness of a handler's return and of a waiting
goroutine that can wake: the HTTP client of `core_api.go` has a timeout of 20
seconds, so a handler returns whatever the Core does, and the Go scheduler runs
runnable goroutines. Nothing is assumed of the Core or of new calls.
`ClientStore!FairSpec` has weak fairness of file operations and of the restart,
and strong fairness of taking the lock: a Go mutex serves a waiter after at most
a millisecond of starvation (`sync.Mutex` starvation mode). The other modules
state safety only.

## 4. Findings

1. **A full replay store deduplicates for less than its lifetime.**
   `pruneLocked` runs before the lookup in `begin` and, at 2048 entries, removes
   the oldest completed one, even the one being retried. The retry then runs the
   handler again. `docs/SECURITY.md:36` promises 24 hours. Tools with a durable
   receipt are not affected (`KeepsPromise` is proved for a store of any size).
   Run `ReplayEviction`; the theorem `Deduplication` shows that the lack of room
   is the only reason.
2. **A retry may be the first write and say it was not.** A retry that finds the
   entry of a first attempt which failed, or which still runs and then fails,
   repeats the handler; when this succeeds, the answer still says "no additional
   mutation". Run
   `ReplayCoalesced`. After a first attempt that succeeded the statement is true
   (`OwnerReplayAfterSuccess`).
3. **Some stored answers outlive the administrator right.** `README.md:1168-1170`
   says that the withdrawal of the right closes cached answers too. Before a
   stored answer is returned (`types.go:213`) only the families listed at
   `types.go:145-178` are checked; maintenance plans, the lifecycle of
   manufacturers and brands, and device batches ask in their handlers, which a
   repeated call does not run. Run `OwnerRights`; the theorem
   `RightsWhenAnswered` shows that there are no others.

Behaviour met while modelling that no line of the repository contradicts, or
that no run shows:

* `rental.jobs.assign_device` is in the list of tools that are run again when
  repeated (`types.go:201`, by its prefix), but prepares its change itself: the
  repeated call finds the assignment the first one made and asks about it
  (`tools_workflows.go:270-272`), where the comment at `types.go:199-200` says a
  receipt supplies the result. `RepeatNeverAsks` is checked of the other tools
  only, and `RepeatedWrite` has this as its hypothesis.
* A product may name a category level without the one above it: by clearing
  `category_id` (`tools_warehouse_product_update.go:317` looks at new values
  only), or by its creation. Archived, it can neither be restored
  (`tools_warehouse_product_lifecycle.go:150-160`) nor edited (216-218).
  `ArchivedRestorable` names the exception (`Whole`).
* `procurement.products.create` reads the product page again at the confirmed
  call (`tools_create.go:276`), so that what is created may differ from the
  draft that was shown; `warehouse.products.create` refuses this.

## 5. Proofs

TLAPS proves, for every value of the constants, the theorems below. They are in
modules of their own; each rests on the named assumptions of the module it is
about.

* **WriteReplayProofs.** `ReplayInv` is inductive: a store entry belongs to a
  call of its key that started in this process and is running or done
  (`EntryInv`, `OwnerInv`); a waiting call points at an entry of its key and
  payload (`SourceInv`); every confirmed durable call has a receipt, and one
  call per key wrote it (`ReceiptInv`); a repeated run starts after its source
  is done (`RepeatInv`). `AtMostOneRunner` alone is not inductive, because
  eviction separates an owner from the map, and the receipts are needed to see
  that a second owner writes nothing. From it follow `OneRunner`,
  `CachedReplay`, `OwnerReplay`, `Growth` and the refinement `KeepsPromise`
  (initial states map to initial states, each action to a step of
  `IdempotentWrite` or a stutter). `Deduplication` has a hypothesis, that the
  store is never full with entries that have not expired, which finding 1
  shows to be needed.
* **OAuthServerProofs.** `OAuthInv` relates what is in flight or stored to the
  consent it descends from: `GrantInv` for scopes, `CodeInv` for codes and the
  requests that took them, `WriteInv` for processes without writes, `RightsInv`
  for the user's state during the request. `ScopeCeiling` is not inductive: it
  needs the bound also for grants on their way from a code to a token. These parts
  (`ServerInv`) say nothing of when a request takes effect, which `Delegates`, the
  refinement of `Delegation`, has to know: `DescentInv` adds that a stored code
  carries all that was approved, not only no more (`CodesComplete`), that who took
  a code works on its grant and on nothing else (`Redeeming`), what each request
  has in hand until its user is checked (`Descends`), and that every token was
  issued by a request that still says so (`Issued`): this is the grant which a
  refresh or an API request presents in `Delegation`.
  The same module proves the four properties of `ToolScopes`, by cases of the
  tools' families instead of the 183 names: `ChallengeSupported` (what a challenge
  names can be granted) and `ChallengeComplete` (whoever is granted the challenge
  passes the checks) are about one tool and any token, and `ScopesInv` carries
  them from the challenge over the consent to the call that follows. So they hold
  for every token, also with scopes that are meant for other tools
  (`AnyTokenSuffices`), where the run takes the tokens that the tool tells apart.
  `SameConsentPage` joins the two modules: with the scopes of the repository, the
  consent in `ToolScopes` is `consentScopes` of `OAuthServer`.
* **ClientStoreProofs.** `StoreInv`: who is inside `put` holds the lock, what it
  encoded is the map, and the map is never behind the file. `Registers` shows
  that `put` is a step of `ClientRegistry` at the rename or at its error, and a
  stutter before. It needs that the lock is held only from inside `put`, or a
  client would be hidden from readers after a restart, and that a client is
  unknown before it registers.
* **RateLimiterProofs.** `LimiterInv`: a counter is the one that would have been
  kept, or was deleted after its window ended for every request still to be
  counted. The assumption `MaxStall <= Window` is needed: an entry is deleted two windows
  after its start, and its window is over for a time read up to one window
  earlier. The counters forget their requests, so the two properties that count
  them need more: `LedgerInv` says that for each request a window can be named
  (`opened`) such that the windows of an address do not overlap (`Apart`), each
  holds the request that opened it (`Openers`) and allowed at most `Limit`, and
  the last one as many as its counter says (`Filled`), and one that rejected was
  full before (`Full`). The names are an existential of the invariant, so the
  model has no variable for them. `BurstsBounded` then divides the requests of a
  minute by where their window started: before it, in it, or after it; each part
  is of one window, and those who opened the first and the last window are not
  among them. Sets are counted with the library's facts on unions and subsets,
  without induction: the requests decided so far are finitely many, which is
  part of the invariant and not assumed of `Requests`.
* **GuidedWriteProofs.** For any rules that are `WellFormed`. `GuidedInv`:
  while a call is under way, the version its user reviewed is not in the future
  and, as long as it is current, stands for the reviewed row (`Reviewed`); what
  is checked and sent is what was reviewed (`Confirmed`); a version that was
  written is spent (`Spent`). `ReviewedOnly` does not follow from the Core's
  comparison alone, which is of the version read by the confirmed call; it needs
  the comparison of that one with the reviewed version as well.
  `GuidedActsAtOnce`: every step of a call is a step of `ReviewedWrite` or a
  stutter; besides `GuidedInv` it needs that a creation carries no row along
  (`Blank`) and that the rows keep the Core's rules (the lemma `GuidedSound`, which
  only carries along what is assumed of the Core). `GuidedReady`
  has the further hypothesis `Complete`: queries that one state of the records
  answers cover the Core's rules. `ReadyInv` carries it over the separate
  transactions, as long as nothing disturbs the call.
* **LocationsProofs, CatalogProofs.** The rules of locations and of the
  catalogue are well formed (`RulesWellFormed`): what an input writes is a row,
  its target is a record, a record is created where none is, and its queries are
  counted. So types, `ReviewedOnly`, `OneWritePerVersion` and `ActsAtOnce` follow
  from the theorems above for any number of records and calls. The queries are
  `Complete` as well (`RulesComplete`), which gives `LocationsReady` and
  `CatalogReady`. Both are proved from what replacing one row does to the rules
  (`SoundAfter`), tool by tool.
  For locations the hard part is the tree. `Ancestors` is the least set closed
  under parents, so that it can be reasoned about without induction: a set that
  is closed contains it (`AncestorsAreLeast`), which bounds the ancestors after a
  move by those before it and those of the new parent (`OtherParent`). Neither a
  cycle nor an active location below an inactive one can come about
  (`MoveKeepsTree`, `StayKeepsTree`), although restoring asks only what is above
  and archiving only what is below.
  For the catalogue it is products, which link to five records that link to
  each other. `ProductsFit` shows that a moved brand or level which no product
  contradicts leaves all products consistent, archived ones included, and
  `ProductUpdateComplete` that a link which an update does not name needs no
  query of its own, because the rules held of it before. `CatalogRestorable`
  uses the same rules: `ArchivedRestorable` follows from them at every moment,
  with `Whole` as the one condition that they do not give.
* **OwnerWritesProofs.** `OwnerInv` is inductive: an entry belongs to a confirmed
  call with a key, of the subject it is kept for (`Owned`); a call is answered
  from an entry of its own input and subject (`Followed`); a call under way has
  passed the checks (`Passed`); what a handler returned says what rights its
  caller had (`Returned`); the receipt is of a call that asked to write
  (`Received`). `NoCommercialWithoutGrant` alone is not inductive: a stored
  answer goes to another call, and only `Followed` with the financial right in
  the subject says that this call may see it. The theorems also rest on facts
  about the tables, proved file by file (`AgreesByFile`): every confirmation of a
  tool is one its handler writes on (but for planner plans and tasks and
  requisition drafts, which take two of which one counts), and a right that a handler asks for
  is asked for by the write path too, or the handler is run again, or its family
  is one of finding 3. From them follow `GuardedWrites`, `KeysForWrites`, `CommercialGrant`,
  `RightsWhenAnswered`, `FailuresForgotten`, and `RepeatedWrite` for tools that
  do not prepare their change themselves. `OwnerPromise`, the refinement of
  `KeyedChange`, needs two more facts about the tables (`AsksAgainByFile`,
  `MaintenanceLate`): a caller who gets a stored answer has the rights that
  `Sees` asks of him, either because the path asks for them first, or because
  they are a part of the key, or because his call runs the handler again; the
  tools of finding 3 are excepted there by name (`OpenFamilies`).
  `TablesAgree` compares the lists here with those of `ToolScopes`, which are
  translated by name and not by family: on every tool whose preview the Core makes
  they classify repetition, release of the key and the administrator right alike.

Only model-checked: liveness (`WaitersAnswered`, `FailedDurableKeyFreed`,
`RegistrationsEnd`), which this prover does not treat. Every other property of a
passing run is stated by a theorem. `TypeCorrect` of the replay store,
`OneExchange` (a code is exchanged once), `RefreshKeeps` (a refresh keeps what
was granted), `ClientsNeverLost`, `StoreInvariant`, `LimiterInvariant`,
`LedgerInvariant`, `SameConsentPage`, `AnyTokenSuffices`, `TablesAgree` and the
theorems on `GuidedWrite` for any rules are proved and have no run of their own.

The theorems on completeness are about `Sound`, the rules of the Core as the
tools announce them, which this repository does not hold. If the Core asks for
more than they say, what it refuses besides is outside of them.

## 6. Not modelled

* Of the guided writes with a preview in the server: devices, packages,
  suppliers, procurement products, offers and links, rental requirements and
  movements, and the details of a product named under "What is abstracted". They
  follow the protocol of `GuidedWrite`; their rules are not translated.
* Of the tools with a preview in the Core: payloads, and the read tools
  registered in the same files.
* The read store: one read-only transaction per query, with the user's identity
  set locally to it (`store.go:71`). Every path out of `Query` ends the
  transaction and the setting with it; its isolation is PostgreSQL's.
* Read tools, query engine: functions from a request to one SQL text. Their
  meaning depends on the databases. Which fields a financial read leaves out
  belongs here.
* Tool registration, prompts, knowledge, configuration, smoke test: no state
  that changes after the start.
* Of the middleware: origin check, panic recovery and security headers, which
  keep no state.
* `ClientStore` models a stop of the process, not a loss of power: the code does
  not sync the file.

## 7. Plan

`WriteReplay`, `OAuthServer`, `ClientStore`, `RateLimiter`, `ToolScopes`,
`GuidedWrite` with `Locations` and `Catalog`, and `OwnerWrites` are done. Left,
in this order:

1. `Devices` and `Packages` (bulk creation, serial numbers, relations with
   cycles), and the procurement masters (suppliers, products, offers, links),
   further instances of `GuidedWrite`.
2. The tracking change of a product against its devices, and master data
   created with a product, in `Catalog`.
3. `FinancialRead`: which fields a read may return to which token.
4. The field, join and grouping rules of the query engine as operators, checked
   against a reference definition on small queries.
5. A composition of `WriteReplay` with one guided write: a retry of a call whose
   answer was lost, when the record has moved on meanwhile.
6. Proofs: what a further instance of `GuidedWrite` has to show is
   `RulesWellFormed` and `RulesComplete`; the composition of item 5 would be
   proved to implement `ReviewedWrite` and `IdempotentWrite` together.
