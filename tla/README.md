# Flora Hive in TLA+

Flora Hive is a Go service: a JSON API over environments, their members and
their devices in PostgreSQL, and a client of an MQTT broker that keeps a live
registry of the devices it hears of. Users are known to another service,
uServer-Auth, at which the container sets itself up when it starts. This
directory models what all this does when requests, messages, failures and
restarts interleave, checks the models with TLC on small instances, and proves
the main results with TLAPS for any number of users, environments, devices,
topics and requests.

## The system

| Part | State | Operations | Modelled in |
|---|---|---|---|
| Catalogue (`migrations`, `repositories`) | tables `hive_users`, `environments`, `environment_members`, `devices` | one SQL statement or transaction each | `Catalog` |
| Handlers of environments, members, devices (`hive_routes.go`) with the services and RBAC below them | locals of each request | thirteen operations, as users or with an API key | `HiveApi` |
| Authentication (`attach_auth.go`, `error.go`) | – | look at the token, upsert of the user, principal | arrival in `HiveApi`; in steps in `AuthApi` |
| MQTT ingest and live registry (`mqtt/service.go`) | `registry`: device id → entry | `messageHandler`, `ListLiveDevices`, `getMqttDevices` | `LiveDevices` |
| MQTT publishing (`hive_routes.go`, `mqtt/service.go`) | locals of each request, `connected` | `postMqttPublish` | `MqttPublish` |
| Topic functions (`mqtttopic`) | – | normalise, parse, match | `MqttTopic` |
| MQTT connection (`mqtt/service.go`, hooks of `serve.go`) | `client`, `connected`, `lastError`, the lock | connect, reconnect, subscribe, disconnect | `MqttConnection` |
| `bootstrap:auth` (`bootstrapauth`, `docker-entrypoint.sh`) | the env file, the system and accounts at uServer-Auth | create system, register, persist, start the server | `EnvFile`, `BootstrapAuth` |
| uServer-Auth client, `/auth` handlers | sessions at uServer-Auth, `hive_users` | login, register, refresh, logout, me, password | `AuthApi` |
| pool, migrations, logging, Sentry, CORS | – | – | not modelled: configuration |

The parts meet in four places. The handlers and the MQTT side share the
tables, with no lock in common and each call on its own connection. The
listing of live devices joins the tables with the registry. And the listing
and publishing both trust `devices.device_id`, which a `PATCH` can change at
any time, to name a device of the catalogue. Finally, the env file that
`bootstrap:auth` leaves behind decides whether the server can ask uServer-Auth
anything.

What is hard here is time. Almost every handler reads something (a role, a
device, a parent), decides, and acts in a later statement; the MQTT handler
looks a device up before it takes the lock; the listing reads twice from the
database and then from memory. Calls fail half-way, and a commit can fail
without saying whether it happened; so can a call to uServer-Auth, which
`bootstrap:auth` makes between two writes of a file, and repeats at the next
start. The connection's handlers run in goroutines that nothing orders, while
the hooks hold the lock they want. `hazards` in `PROJECT.json` lists these at
their lines.

What makes each part correct:

* catalogue: nothing outlives its environment, an id names one thing for ever,
  a device path names one row;
* API: an environment changes only by the act of someone who was an editor of
  it during the request; what a client is told agrees with what happened;
* registry: a listing shows only what its caller could see at some moment of it
  (or what came, after the caller had left, into an environment whose id the
  listing had read already), hides nothing the caller was entitled to
  throughout it, and identities recover from any history;
* publishing: a message reaches a device only for an editor of the one
  environment its id belongs to, and comes back under the same id;
* connection: nobody waits for the lock for ever, a connection that lasts is
  subscribed, and the status comes to agree with it;
* bootstrap: the token of a new system is not lost, an operator's value is not
  overwritten, and restarts lead to a registered account;
* `/auth`: whoever is served under a session is in `hive_users`, where nobody is
  without an account, and a session that is over stays over.

## Modules

`Catalog` has the tables as functions (`dev`, `member`) and sets (`users`,
`envs`), and an operator for each statement, guarded by the constraints under
which PostgreSQL accepts it. `minted` remembers which ids `uuid.New()` gave
out, since it never repeats one. `CatalogNext` is any statement at any time.
`CatalogProofs` proves its invariants.

`HiveApi` makes a request a process. `UserFlow` and `KeyFlow` say which call
follows which in each handler; an action performs one call for every handler
that makes it (`RequireEnvAccess`, `FindDevice`, `Reload`, ...), and every write
has an action of its own. `CallFails` is the error path of every call;
`Committed` includes the commit that took place and reported an error. `req`
is what the goroutine has in its variables. `held` observes which roles the
user had since the request began; no action reads it.

`Tenancy` is the abstract specification: environments as objects with a life,
roles and a content, each step the act of one request, which is the first
editor's if it creates one, and has a licence of its own if it changes one.
`HiveApi`
implements it through the mapping at the end of the module
(`EnvironmentsGuarded`). `HiveApiProofs` has the theorems, and
`HiveAnswersProofs` those about what clients are told.

`LiveDevices` puts the registry over `CatalogNext`. `Lookup` and `Store` are
the two halves of `messageHandler` (the client hands messages over one at a
time, so there is one `msg`); a listing has the steps `ListBegin`,
`ListForUser`, `ListRowIDs`, `ListLiveDevices`, `ListEnd`. `Age` is the end of
a heartbeat's TTL, `Restart` the loss of the registry. A filter that is `nil`
in Go is `None` here. `seen` observes, during a listing, what it may and what
it must show: `rows` are those in an environment while the user is a member of
it, `late` those that come into one that the user has been a member of since the
listing began, but no longer is. `ListRowIDsForEnvironments` finds the latter by
environment ids read before (`hive_routes.go:341`), so a listing can show them.
`LiveIdentity` adds `overtaken`, which observes that what the device id of the
message in hand belongs to has changed between its lookup and its store.

`MqttTopic` has the topic functions, on sequences of levels, and the subscribe
pattern that `LoadEnv` makes of the prefix. `MqttPublish` is
a publish request in its steps (`Begin`, `Resolve`, `Access`, `Check`, `Send`),
over `CatalogNext` and a connection that comes and goes. `seen` observes who
owned the addressed device, and whether the user was an editor there.

`MqttConnection` has the hooks of the service, the client's connection and the
goroutines of its handlers, one pair for each connection. A hook that waits
holds the lock; a critical section without a wait is one step, enabled when
the lock is free. `SubscribeLocked` sends a SUBSCRIBE on whatever connection
there is by then. The client library, the broker and fx are external:
`DialSucceeds`, `DialFails`, `ConnectionLost`, `Reconnects`, `BrokerAccepts`,
`BrokerRefuses`, `Deliver`. `stale` observes that `connected` was set by the
goroutine of a connection that had been overtaken.

`EnvFile` is the env file as a function from line numbers to lines, with what
`persist.go` and godotenv make of it: which line is protected, which one is
rewritten, which are dropped, which is read. `BootstrapAuth` is the life of a
container over it: `Start`, the two calls with their answers, refusals and
losses, the two writes, `Serve`, and `Crash` at any time. `faults` observes
that a write stopped half-way or that the token of a new system could not be
stored. `AuthApi` is the server that was started: requests with their bearer
token, looked at (`Attach`), stored (`UpsertFromMe`), and forwarded
(`Granted`, `NotGranted`, `Told`), while sessions end at any time and the
container restarts under them. `NotGranted` is every other status than 2xx, which
`client.go` passes on, and every call or answer that is lost: uServer-Auth may
have done what was asked in each of these cases. An API key, or no principal at
all, is answered at once (`BeginWithoutToken`). `alive` observes that the session
of a request was not over when the request began.

`HiveApi` justifies `CatalogNext` as the surroundings of the MQTT modules:
`ApiImplementsCatalog` proves that the API does nothing else to the tables.

`MC*` modules and `.cfg` files instantiate the others. Definitions marked
*faulty variant* are the bugs the properties are tested with (`mutants` in
`PROJECT.json`); nothing else refers to them. `CatalogProofs`, `HiveApiProofs`,
`HiveAnswersProofs`, `LiveDevicesProofs`, `MqttPublishProofs`,
`MqttConnectionProofs`, `BootstrapProofs` and `AuthApiProofs` hold the proofs.

### Abstractions

* Names, descriptions, types, display names, time stamps, telemetry and
  `lastError` are left out; no modelled step depends on them. `PATCH` of an
  environment therefore only has its control flow.
* Requests without a principal and malformed bodies change nothing and are
  left out, as is `listEnvironments`, a single read.
* A parent set by `PATCH` is a row id that was given out at some time; any
  other text is like an id whose row is gone.
* In `LiveDevices` a message is known by its device id. That is the default
  pattern, `{prefix}/+/heartbeat`. A pattern with several wildcards gives
  entries that never have a row.
* A prefix is taken to have no leading slash, and not to be empty. With one,
  `NormalizePublishTopic` keeps it and `ParseDeviceRowIDFromTopic` strips it from
  the topic, so the two disagree; without a prefix, the topic `//heartbeat` is
  sent as `/heartbeat`, which `+/heartbeat` matches with an empty level, while
  the parser names `heartbeat`. The instance is the default prefix, `flora`, and
  the theorems about licences and about what comes back have this as their
  hypothesis.
* In `MqttPublish` the connection comes and goes freely, which is more than
  `MqttConnection` lets it do.
* In `MqttConnection` a message is only there or not: what it does to the
  registry is in `LiveDevices`. A process makes `MaxLinks` connections at most.
* In `EnvFile` a value is the operator's, uServer-Auth's, empty, or a
  placeholder. What godotenv makes of the text of one is a constant, `Loaded`,
  which need not be the identity: `formatEnvValue` (`persist.go:98`) leaves a `$`
  as it is in double quotes, where godotenv expands it, and `parseEnvValue` keeps
  single quotes and trailing comments that godotenv drops. It is assumed that the
  empty value is read as empty and that no placeholder is read as a real value;
  the latter leaves out a line such as `K=v # see <docs>`, which `parseEnvValue`
  does take for a placeholder and `persist.go` overwrites. In the run one of the
  operator's values is read as the other. The keys are the
  token, the account's name and its password; the admin flag is treated like
  the password. A line is `plain` or `export`, the latter for every line that
  godotenv reads and `envLineKey` does not match.
* In `BootstrapAuth` a run that is skipped or lacks a host or a system name
  ends before its first call and is left out. In `AuthApi` storing the user
  does not fail, which is in `HiveApi`; a session stands for its access and its
  refresh token.

## Runs

| Run | Asks | Instance |
|---|---|---|
| `members` | do two racing users keep to `Tenancy`; is an orphan frozen | 2 users, 2 environments, 2 requests in flight, member operations |
| `devices` | do answers tell the truth; is anything shown to somebody who never was a member meanwhile; integrity; forest; `Tenancy` | 2 users, 2 environments, 2 rows, 2 ids of which one is padded, API key, 2 requests in flight |
| `listing` | is a listing confined and complete | 1 user, 2 environments, 2 rows, heartbeats and `up`, failing lookups, restarts |
| `identity` | does a message make its entry right, does that stay so, and is it so in the end | 1 user, 2 environments, 2 rows, 2 ids |
| `publish` | is a publish licensed, and accounted to the device it was checked for | 1 user, 2 environments, 2 rows, 2 ids, 8 topics |
| `connection` | does everybody get the lock; has every connection a subscription or somebody to ask for it, and every wrong status somebody to set it right; is a lasting connection subscribed, and reported | 3 connections, refusals, start and stop at any time |
| `userver` | is the token kept, nothing overwritten, an account registered in the end, and with the system's token only; is everybody who was served known; is over over | 43 env files of up to 2 lines, 24 environments, 1 session, 1 request |

Two requests are enough for a check to race with the write that takes its
ground away, and two users for one to demote or remove the other. Two
environments tell a right in one from a right in the other and give two rows
the same device id. Three connections let the handlers of two earlier ones run
late at once. Two lines let a key be in the file twice, or another key stand
before or after it, and the two values tell the operator's from another of the
operator's. One request and one session suffice in `userver` because handlers
share nothing but the sessions, which end at any time anyway; the theorems are
for any number. Ids are never reused, so an instance ends when it has used
up its environments and rows; the deadlock check still passes, because requests
go on. A request's operation, arguments and the outcome of every call are
chosen freely. The MC modules of the MQTT side keep devices without parents
(and, for listings, members as editors): nothing there depends on either. Nor
does a listing tell a device that is `down` from one whose TTL is over
(`Connected`), so `listing` leaves the former out.

Five runs end in a violation, each against a sentence of the repository:

* `parent`: a `PATCH` can set a parent in another environment
  (`device_service.go:15` says `ErrInvalidParent` is for that).
* `auth`: when storing the user fails, the request ends with status 200 and no
  principal (`attach_auth.go:60`).
* `jwt`: a user without any device gets everybody's (`README.md:86`), because
  the empty filter is `nil`, and `nil` means no filter.
* `duplicate`: a device id that became ambiguous stays listed from its old
  entry (`README.md:75`).
* `shell`: a value on a line that starts with `export` is overwritten, although
  `bootstrap_auth.go:18` says that only empty keys and placeholders are, since the
  code that protects values does not see it.

A device id may also be emptied by a `PATCH`, which `POST` would refuse
(`hive_routes.go:797`): `UpdateDevice` takes any label.

## Fairness

* `identity`: `Lookup` and `Store` are weakly fair: they are consecutive lines
  of one function, and a query returns. `Receive` is strongly fair for every
  device id: devices send heartbeats periodically, and this is the assumption
  under which identities recover. The run has neither failing lookups nor
  restarts, since either, repeated for ever, would empty the entry again and
  again. Nothing is assumed of the catalogue: it may change for ever, as long
  as the one device id settles.
* `connection`: goroutines run and waits with a time limit end (weak fairness of
  the handlers and of the return of both hooks), and the broker answers a
  SUBSCRIBE one way or the other. Nothing is assumed of the network, nor of when
  the process is stopped. `HearsAgain` is about connections that last and that
  the broker has not refused: after a refusal, or after a first connection that
  failed, the code tries nothing again. `StatusCatchesUp` excepts the case that
  the goroutine of an earlier connection set `connected` last, which does happen.
* `userver`: bootstrap starts (weak), a call that is made again and again is
  answered some time, and so is a write (strong): the container restarts for
  ever, and no outage lasts for ever. `Converges` takes for granted that the
  container is restarted, that the operator gave the account and the creation
  token, that the token made is read from the file as it was written, and that no
  token was lost, which nothing repairs.

The safety properties need no fairness.

## Proofs

Assumed are only the named `ASSUME`s of the modules: the kinds of ids are
disjoint, `None` and `ApiKey` are none of them, and `None` is no set of rows and
no session; levels of topics are strings and no topic is without levels; the
operator's values, the token that was made, the empty value and the placeholder
differ, and `Loaded` is as described above.
Theorems that have hypotheses of their own are named with them below.

* `CatalogTypeCorrect`, `CatalogSound`: type correctness and `CatalogIntegrity`
  of any sequence of statements.
* `ApiImplementsCatalog`: each action of `HiveApi` is a statement or leaves the
  tables alone. `ApiKeepsIntegrity` follows from it and `CatalogSound`.
* `TypeCorrect`, `ApiGuardsEnvironments`: `HiveApi` implements `Tenancy`. A write
  ends the call it is made in, so the request that acts is the one that moves
  (`WriteActs`). The invariant is

      IInv == TypeOK /\ CatalogIntegrity /\ RequestsKnown /\ Authority

  `Authority` is the heart of it: a user's request past its check has `editor`
  in `held`, although by then the role may be gone. It is preserved because
  `held` only grows during a request. `RequestsKnown` says that the ids a
  request carries were minted and that the row it found lies in its
  environment for as long as it exists: without it a handler that acts on a row
  id could act in an environment it was not checked for. `CatalogIntegrity` is
  needed so that an environment that is gone cannot have content.
* `OrphansStayFrozen`: `OrphanStep` uses only that a step of `HiveApi` is a step
  of `Tenancy`, so the argument holds for anything that implements `Tenancy`.
* `DevicesFormForest`, when `"set"` is not in `ParentEdits`: `ParentForest` is
  inductive with `IInv`. Removing devices or clearing parents keeps a forest, and
  a new device, whose id was never minted before, is nobody's parent, so it is
  added as a leaf.

* `AnswersAreTrue`, `OnlyMembersAreServed`: the invariant `AllTold` says where in
  its flow a request is. Before its read back a request has not written, and
  after it has; no flow ends before its access check has been passed
  (`UserFlowEnds`, a table checked by cases). What a 404 or a panic reports as
  gone stays gone since its id was minted, and an id is minted once.
* `LiveTypeCorrect`, `ListingsAreConfined`, `ListingsAreComplete`: the ids a
  listing has read belonged to its user when they were read, and a row found in
  an environment lies in it for as long as it exists, so what a listing allows is
  in `seen.rows`, or in `seen.late` if it is newer than the membership. Without
  `late` the claim is false: it is the price of reading ids first. Conversely what it must show is what was visible all along and
  is visible now, hence in every one of the three reads.
* `JwtListingsBesideOwn`: what `README.md:86` says and the run `jwt` refutes is
  true of a user for whom there is something to be shown all along: the row of
  such an entry is among the ids read, so the filter is not `nil`. No run has this
  property: `listing` has one device id, so that a user's own entry is the only
  one there.
* `IdentitiesHold` (when neither lookups fail nor the process restarts): a message
  that is stored makes its entry name the only row of the device id, or none where
  there is not just one, and the entry does so until another message or until that
  changes. The exception is a message that was overtaken between its lookup and its
  store (`service.go:175` and `:209`): it may make an entry wrong, even one that was
  right, and without the exception TLC finds that. The invariant `Fit` says that a
  message that was not overtaken carries the row it belongs to, and one yet to be
  looked up none. With `IdentityCatchesUp`,
  which only TLC checks, this says that an entry gets right and stays right; in
  `duplicate` it is wrong between a change and the next message.
* `PublishTypeCorrect`, `PublishingIsLicensed` (when the prefix does not begin
  with a slash): `NormalIs` and `SegmentIs` compute what normalising and parsing
  make of any topic, so the device id that was checked is the one that the topic
  sent addresses. The rest follows a request from call to call: an environment
  whose owner was found has a single such row then, and the editor found later
  puts it among the licensed.
* `LoopbackNamesTheDevice` (when the prefix does not begin with a slash and is not
  empty, and the pattern asks for what comes right after it): `OnlyWildcard`
  computes what a pattern with one `+` picks out of a topic, and `BackIsAddressed`
  that this is what the parser finds in the topic that was sent. `DefaultPattern`
  shows that the pattern `LoadEnv` makes of such a prefix is of that kind.
* `ConnectionTypeCorrect`: types, one `subscribeLocked` at a time, and no handler
  before its connection.
* `ConnectionIsNotForgotten`, `StatusIsOwed`: the safety halves of `HearsAgain` and
  `StatusCatchesUp`. They are inductive together with `Latest`: every
  connection but the current one has had its `ConnectionLost` started, and the
  current one if it is lost, and not before.
* `UserverTypeCorrect`, `ServedStayKnown`, `OverStaysOver`: a session that was over
  is never live again, so `Attach` and the call after it refuse it; one that was
  opened keeps its user, who had an account by then. A request that wants a session
  gets to its call only through `UpsertFromMe`, so that user is in `Known` from
  there on, which only grows (`Onwards`), whatever the call comes to.
* `TokenIsKept` (which also asks that the token is read as it was written),
  `OperatorsValuesStay` (both when every line the operator may write is
  `plain`; `shell` shows that they need it): a finite set of line numbers has a
  smallest and a largest element, so each key that is written has one line, the
  first, and after the write the last as well (`UpsertWrites`); a key that is not
  written keeps its last line (`UpsertLeaves`). A key whose last line has a real
  value is protected, so it is never among those that are written.
* `RegistrationsPresentTheToken` (again for plain lines, and a token that is read as
  it was written), the safety half of
  `Converges`: a container that was set up never registers with another token than
  the system's. The invariant `Ready` adds where that token is: in the file
  whenever a run starts, and in the run before it registers.
* `PersistSettles`: written again, the same updates find every key protected,
  unless one of them is itself a placeholder; a restart does not touch the file.

Checked by TLC only: `IdentityCatchesUp`, `Converges`, `NobodyWaitsForever`,
`HearsAgain` and `StatusCatchesUp`, as liveness under fairness is beyond the
prover. The safety half of each but `NobodyWaitsForever` is proved.

## Not modelled

* The pool of at most 20 database connections: no handler asks for a second
  connection while it holds one, so the pool delays and never blocks.
* golang-migrate, the scripts that create the database, `setup.sh`, CORS, Sentry
  and logging: configuration of libraries and tools, without state of the program.
* `listEnvironments` and `getMqttConnection`, which read and answer.
* The reading of MQTT payloads and the match of incoming topics: a message is
  known by its outcome, a device id and a presence.
* The other variables of `lib/env.go`: they are constants of the modules, or have
  no part in them.

## Plan

1. `MqttPublish` and `LiveDevices` over `MqttConnection` instead of a connection
   and messages that come freely, with the refinement that shows that this
   loses nothing.
2. Payloads and patterns of `messageHandler`: presence from the payload, and
   patterns with several wildcards.
3. The rules of `setup.sh` and of the other readers of the env file, over
   `EnvFile`.
