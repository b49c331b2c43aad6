# A verification model of server-essentials

`server-essentials` is the library a Drumee server process is built on: the
database stub, the cache of system tables, the Redis client, logging and object
lifecycle, mail, SMS and HTTP helpers, settings, and tables of constants.  This
directory models it in TLA+: the MariaDB stub alone and in a program that exits
under it, the cache that is loaded through it with its records and texts, the
cascade of `stop()`, the ways out of the process (SMS, HTTP, mail), the Redis
store, the settings, and the helpers.  TLC checks the models on small instances
and TLAPS proves the main properties for all instances.

Every definition is translated from the source; `PROJECT.json` ("map") names
the lines.  Code outside the repository (the database server, TCP, Node's event
loop) is modelled from how the code uses it and marked external.

## 1. The system

| Component | Source | State | Operations | Talks to |
|---|---|---|---|---|
| MariaDB stub | `lib/mariadb.js` | `_connection`, `_pool`, `_closed`, options | `call_proc`, `call_func`, `query`, `execute`, `await_*`, `await_run`, `end` | driver, Logger |
| Driver connection | `lib/node_modules/mariadb/lib` | status, send and receive queues, server status flags | commands, commit/rollback, `end`, socket events | server |
| Cache | `lib/cache.js` | process-wide maps of messages, file types, settings | `load`, `setEnv`, `getFilecap`, `message` | stub, files |
| Redis store | `lib/redis-store.js` | clients, `inited` | `init`, `sendData`, `publish`, `getSubscribe` | Redis |
| Logger, model | `lib/logger.js`, `lib/addons/model.js` | attributes, listeners, children | `say`, `sanitize`, `payload`, `stop` | every class |
| Messenger | `lib/messenger.js` | transport, butler configuration | `getMTA`, `send`, `dispatch` | SMTP |
| Network | `lib/network.js` | one request's streams and chunks | `request` | HTTP |
| SMS, MFA | `lib/utils/mfa.js`, `lib/vendor/*` | a failover timer per message | `sendSms`, `smsFailover`, `sendEmail` | SMS gateways |
| Offline | `lib/offline.js` | `db` | `stop`, shell helpers | stub |
| System environment | `lib/sysEnv.js`, `lib/configs.js` | settings | `loadSysEnv`, setters | files, environment |
| Pure helpers | `lib/addons/{array,string,number}.js`, `lib/lex/*`, `lib/utils` | none | `get_rows`, permission masks | |
| Tables, templates, crypto, `bin/soffice.sh` | `lib/lex`, `lib/dataset`, `lib/template.js`, `lib/subtleCrypto.js` | none | | |

How they interact: every class extends Logger (itself a Backbone model), so
`stop` and events run through all of them.  Cache, Offline and the services
outside this repository own stubs and end them.  A stub is shared: all callers
of a service use one stub, hence one connection, and JavaScript's single thread
interleaves them at every `await` and `.then`.

What is hard, per component, and what makes it correct:

* **Stub and driver.** Calls that share a connection share its transaction; the
  driver pipelines commands; COMMIT is not awaited; the error handler of one
  call rolls back and closes what others are using; connections are lost at any
  point.  Correct: what a caller is told agrees with what the database keeps,
  no call is left waiting, the process does not die of its own errors, no
  connection leaks.
* **Cache.** Loads that overlap, a load that ends the caller's handle, shared
  records that callers write into, one table's size deciding whether all are
  filled.  Correct: whoever returns from `load()` finds every table, no newer
  rows are replaced by older ones, every load ends.
* **Redis store.** `init` awaits in the middle; sends fail half-way.  Correct:
  one client and one subscription, each recipient gets its own payload once.
* **Lifecycle.** `stop` on a graph with cycles that grows meanwhile.  Correct:
  it ends, forgets nothing, and leaves shared stubs alone.
* **SMS.** A timer against a late, cut or missing answer, an error handler that
  is attached late.  Correct: one truthful outcome per message.
* **Network.** Event orders of a response against a file that is opened and
  written in the background.  Correct: the caller is answered, the hash is that
  of the body, the file is complete in the end.
* **Messenger.** It stops itself after a send, while others wait for a token or
  an answer, and caches its sender.  Correct: no empty mail, the sender that was asked
  for or else no second account, a result that is true.
* **System environment.** Files that are edited, kept by `require` or broken
  between loads, and values copied at import.  Correct: the settings in use
  belong together and all modules agree on them.
* **Records, texts, models.** Objects of the cache and of models are handed out
  and written into.  Correct: nobody sees what another wrote, but for named cases.
* **Helpers.** Loops over arrays they shrink, lists that are unwrapped by their
  length, offsets in keys.  Correct: what a reference definition says.

`PROJECT.json` lists the hazards line by line and the property that covers each.

## 2. Modules

| Module | What it is |
|---|---|
| `DriverConnection` | one connection as operators on two records: the driver's end and the server's session |
| `MariadbStub` | the stub, its calls, the event loop, the connections; properties and inductive invariants |
| `CallLedger` | the abstract specification: reports to the callers and saved writes, no connections |
| `Cache` | `load()` and `mergeLex` of the cache, over handles and their connections |
| `Lifecycle` | `stop()` of loggers and models over a graph of references |
| `Offline` | `stop()` of `offline.js` on top of `MariadbStub`: the stub ends, a second later the process exits |
| `SmsFailover` | `sendSms`: the first gateway, its timer, the second gateway |
| `NetworkRequest` | `request()` of `network.js`, its events, its background file |
| `Messenger` | a messenger's content, sends and clean-up |
| `Services` | the three ways out of the process side by side |
| `RedisStore` | `init`, `getSubscribe`, `sendData`, `publishLiveUpdate` over links that fail |
| `SysEnv` | the settings: files, `require` cache, precedence, copies, constants; `configs.js` |
| `FileInfo` | `getFilecap` and `getFileinfo` over the records they share |
| `Texts` | the lexicon: load, merge, write, and which objects are shared |
| `Sanitizer`, `Payload` | what a model shows: `sanitize`, `cleanData`, `payload`, of both classes |
| `Helpers` | `statement`, `get_rows`, `results`, masks, levels, keys, `format`, templates, each with a reference definition |
| `ProcessStores` | `RedisStore`, `SysEnv`, `FileInfo`, `Texts`, `Sanitizer` and `Payload` side by side |
| `ProcessState` | `ProcessStores` with `Helpers` |
| `MC...` | values for the constants |
| `DriverConnectionProofs` | lemmas about the operators on one connection |
| `MariadbStubProofs` | type correctness, the stage invariant, three safety theorems |
| `MariadbDurabilityProofs` | what a reported success can be lost to, and its durability; the same and three more properties in a program that exits (`Offline`) |
| `MariadbSequentialProofs` | atomicity, durability and the refinement of `CallLedger` for calls made one at a time |
| `CacheProofs`, `LifecycleProofs` | types and safety of the two modules |
| `ProcessStateProofs` | settings, records, texts, Redis links and messages, what models show and send, and all of them in one process |
| `DeliveryProofs` | SMS, requests and mails, and their composition |

`Services`, `ProcessStores` and `ProcessState` are one specification each for
modules that share no state and never call each other: a behaviour runs one of
them, chosen at first.  Interleaving them would multiply the states and add no behaviour any
property could see, since each property reads the variables of one module.

`Cache` stands on `MariadbStub` through what the latter says of a stub: a call that
finds no valid connection makes one of its own, and the last to be made is kept
(`Connect`, `Connected`); queries on one connection are answered in order; a
failed query has ended the stub, and an `end()` drops what others have in flight.  `Lifecycle` takes from it only that a
stub is persistent (`mariadb.js:36`).

### MariadbStub: state

| Variable | Code |
|---|---|
| `opt` | `limit > 1` (`pooled`) and `throwOnError` |
| `stub`, `pool`, `closed` | `this._connection`, `this._pool`, `this._closed` |
| `pc`, `mode`, `on`, `fault` | of each call: its place in `_run` or `await_run`, which form it has, its local `c`, the error its `.catch` got |
| `conn` | per connection, the driver's status, `receiveQueue` and transaction flag |
| `db` | per connection, the server session: open transaction and the calls that wrote in it |
| `durable` | the calls whose writes are committed |
| `proc` | running, exited (`process.exit`), crashed (uncaught error) |
| `reading` | the connection whose data chunk is being parsed |

`receiveQueue` is split where the server stands: `wire` is not executed yet,
`replies` is answered and not parsed yet.  `undoers`, which only the properties
read, are the calls that ever wrote a ROLLBACK to the connection.

### MariadbStub: actions

| Action | Code (`mariadb.js`, driver) |
|---|---|
| `Reuse`, `Connect` | `getConnection`, with and without a valid connection |
| `Connected`, `ConnectFails` | `createConnection` settles |
| `Check` | the validity check and `beginTransaction` |
| `Begun` | `.then(() => c.query(...))` |
| `Succeeds` | the second `.then` without handler: `c.commit()`, result |
| `Handled`, `HandledLater` | the second `.then` with a handler, that returns or throws, at once or through a promise |
| `_handleError` | `.catch(this._handleError)`: throw, swallow, or roll back and `end()` |
| `End`, `PoolEnded` | `end()` called by the program, and the pool's end |
| `Deliver` | one reply is parsed (`receivePacket`) and its promise resolved |
| `SocketError` | `socketErrorHandler` and `fatalError` |
| `Execute`, `SessionEnds`, `Drop` | the server (external) |

One step is what runs without yielding: a promise continuation with every call
it makes.  Promise jobs run before the next socket event (`Quiet`).  One chunk
may carry several replies; their continuations then run in the order of their
distance from the resolved promise (`EarlierHops`), on which the absence of a
crash at line 270 depends.

Abstractions: a statement is its call's identity, the writes of a statement are
all or nothing per call except that a failed one may or may not have written;
procedures that commit by themselves are left out.  A COM_QUIT is the state
`closed` with commands still on the wire, since QUIT travels behind them.  A
pool's own connections serve no statement and are left out.  Continuations at
the same distance run in any order, a superset of the program's.  The rejection
that the driver schedules with `setImmediate` after a lost connection becomes
runnable at once.  A connection reset that discards what the server has not
read yet counts as a lost connection (`Drop`).

Not modelled in the stub: the SQL text (`statement`, `log`), the shape of the
rows, the throw on empty arguments, `execute` (it calls a method that does not
exist), listeners of the ERROR event.  The branch of `_run` that exits the
process on "abnormal errors" is in the model and unreachable without `end()`.

### Cache

`filecap` and `sysconf` are the version of the database's rows that the maps
were filled from (0: never), `lexicon` and `indexed` say which languages have an
entry in `Lexicon` and whether it has entries under indices.  `file` is what each
language has under `dataset/locale`: a good file, a malformed one, or none.  `pc`
and `arg` are each load's place and its argument `db`.  Of each handle, `connection`
is its `_connection` if that is valid and `made` are all it ever began; of each
connection, `up` says whether it is established, `asked` and `answered` are its queries.

| Action | Code (`cache.js`; `mariadb.js` where named) |
|---|---|
| `Skip` | the early return of `load()` |
| `Load` | `load()` up to its first `await` (with `force`, or with an empty lexicon) |
| `FilecapLoaded` | the first answer, the second query |
| `SysconfLoaded` | the second answer, `db.end()`, the language files, the missing languages |
| `QueryFailed` | an answer that cannot be iterated |
| `mergeLex` | the same |
| `Ask`, `Connected` | `getConnection` (`mariadb.js:63-80`): the valid connection, or one more |
| `Read`, `ReadAndEnd` | the answer reaches its load, which may end the handle (`end`, `_handleError`) |
| `Lost` | a connection somebody waits on is lost (`_handleError`) |
| `Execute`, `Change` | the database (external) |

Everything after the second `await` runs without yielding, hence in one action.
A malformed file makes `readFileSync` throw (line 221): the load fails with the
languages before it entered (`Readable`), the default not set, no others tried.
Whatever the files are, they stay so while the process runs.
The bounds are `MaxVersion`, in the guard of `Change`, and one call per load.
A table is one version: which of its rows were removed is not seen.  The handles
have no pool.  A connection that is refused makes `_run` exit the process, and so
ends what the module is about.  `end()` nulls `_connection` a moment after it made it
invalid (line 399), here at once: a connection made between the two would be
forgotten, and the next query make one more, on a handle that has had two already.

### Lifecycle

`refs` are the references of each object, one key per pair, of the pairs `Keys` allows;
`made` remembers all there have been; `stopping` and `timers` are `_stopping` and the
pending `setTimeout`; `attrs` is what has become of `attributes`.  `Stop` is a
call by the program, `CleanUp` the timer's callback with the `stop()` and
`clear()` it calls on the children, `Attach` an assignment of the program
(external).  `calls` and `stops` are counters for `StopsBounded`; `calls` is
bounded by `MaxCalls` in the guard, `stops` stays at `MaxCount`, which the
instances never reach.  Left out: a child whose `stop` throws or is overridden,
keys that hold no object.

### SmsFailover

Per message: `caller` (what its promise has told), `timer`, `request` (how much
of the answer of smsfactor was read), `attempt` (each of the three calls of
`smsFailover`: directly, from the timer, from the catch) and `accepted` (copies
a gateway has taken).  `env` says what the host provides: the credential files,
the package `ovh`, and `debug` and `warn` on `Backbone.Model`.

| Action | Code |
|---|---|
| `SendDirect`, `SendPrimary`, `SendThrows` | `sendSms` without, with and with an unusable first gateway (`mfa.js:54`) |
| `TimerFires` | the callback of the 3500 ms timer |
| `StatusNot200`, `Status200`, `Data`, `End`, `RequestError`, `CutShort` | the events of the request (`smsfactor/index.js:45-71`), with the `.then` or `.catch` of `sendSms` |
| `OvhListed`, `OvhAnswers` | the two callbacks of `ovh/sms.js` |
| `GatewayTakes`, `OvhTakes` | the gateways (external) |

### Offline

`stopping` says that the timer of `stop()` is pending.  `stop` ends the stub if
the program has one (`End` of `MariadbStub`, else nothing but the timer), `Exit`
is `process.exit(status)`.  The second between them is not measured: the exit
may come before or after any answer.

### NetworkRequest

| Variable | Code (`network.js`) |
|---|---|
| `req` | each request's place, how much of its body has come and was read, the hash, the result |
| `stream` | `localStream`: opening, open or closed, the chunks it was handed, how many it has written, whether it was ended |
| `file` | `opt.outfile`, one path for all requests: whose chunk stands where |
| `process` | running, or ended by an uncaught error |

| Action | Code |
|---|---|
| `Request` | `createWriteStream`, then `https.request` (52-69), or what throws before |
| `StreamOpens`, `StreamWrites`, `StreamCloses` | what the stream does in the background (Node); each may fail, and ends the process, since nobody listens |
| `Response`, `Unreachable` | the callback of the request, `req.on('error')` |
| `Readable`, `ResponseEnds`, `Broken` | `readable`, `end`, and a broken response: a reset is an error of the request and rejects, a response cut off nobody hears of |
| `Later` | the timer of two seconds that looks for the file again |

A body is a number of chunks and its hash the number of chunks hashed: the
properties only ask whether all of it, and nothing twice, was hashed.

### Messenger

`messenger` holds each object's life, content, own `from` and `_stopping`; `mailing` each
call's progress, arguments and result; `_butlerSender` the cached sender of the module;
`credential` what `email.json` says; `outbox` the mails a transport was given.
`initialize` is the constructor's choice of content, `send` is `send()` or
`dispatch()` up to `getMTA`'s first wait, `TokenAnswered` the OAuth token,
`MailAnswered` and `MailingReturns` the settled promises of `sendMail` and
their result with `stop()`, `Released` the clean-up of `logger.js` 11 seconds
later.  `Sender` is the order of line 222: the `from` of the call, the user of
`email.json`, who is asked for only then, the `from` of the messenger, the default.
`Arguments` are what a call may be given, `Attributes` the senders messengers may
have.  `Configure` edits the credentials (external).

### RedisStore

| Variable | Code (`redis-store.js`) |
|---|---|
| `store` | `_instance`: client, publisher, `inited`, `subscribers` |
| `initPc`, `subPc`, `sent` | where each `init`, `getSubscribe` and `sendData` stands |
| `link` | the connection of each client, publisher and subscriber |
| `dest` | each payload's `dest`: its own, none (or an empty object), or deleted by a call |
| `channel` | what was published, in order |

One action per stretch between two `await`s: `init`, `ClientConnected`,
`PublisherConnected`, `ConnectRejected`; `getSubscribe`, `SubscriberSettles`;
`sendData` (with `publishLiveUpdate` as the form "live"), `Publish`,
`PublishRejected`, `SendReturns`.  Assumed of the package: `connect()` resolves
or rejects, a message published while the link is made waits, a rejected
`publish` may have left.  Links that break later are the package's to renew.
A call names its destinations by a list, one object, an argument that is empty, or
the payload's own `dest` (`Form`); `WithDest` are the payloads that come with one.
What a call has left to send is the set of the places in its list, served from
the first one on (`Following`): the loop of the code as a set, with its order.

### SysEnv

`disk` holds the files, `required` what `require` keeps of `drumee.json`,
`configs` and `uiInfo` are `COFIGS` and `UI_INFO`, by the editions they were
made of, `copies` what importing modules took, `consts` the constants of
`getSysConst`.  `loadSysEnv` is one action with its failures: what it throws at
decides what it has changed by then.  A setting is one of five that differ in
which source wins (`Precedence`).  `Import`, `ImportDbConf` are imports of a
module and of `configs.js`, `Edit` somebody's edit of a file.  Bounds:
`MaxLoads` in the guard of a load, `MaxEdits` in that of an edit.

### FileInfo, Texts

`filecap` holds the records of the cache, `lookup` the calls of `getFileinfo`:
`getFileinfo` up to the wait for `detectFiletype`, `FileDetected` all behind it,
`FilecapReloaded` a reload by `Cache`.  An extension is single (`gz`) or double
(`tar.gz`); which of them hands out the record itself is `Shared`.

`lexicon` holds an object for each language, whose texts come from the file, a
merge or a write, and `aliased` says whether `DefaultLexicon` is still the
lexicon's own object.  `loadTexts`, `mergeLex`, `WriteLex` are the code's, and
`loadTextsThrows` is the load that meets a malformed file with some languages
entered and `DefaultLexicon` as it was (line 221).  The default language is assumed to have a file, as it
is shipped: without one line 223 would make `DefaultLexicon` undefined.

### Sanitizer, Payload

The attributes, an object, an array and the copy `toJSON` makes live in a heap,
so that what is shared is seen.  `cleanData` and `modelCleanData` make the copy
and begin `sanitize`, which calls itself: `at` is the item at which the call for
each object stands.  A step belongs to the innermost call (`Innermost`): it returns,
throws, deletes an item, or keeps one and calls itself for what it holds.  The
code does not wait in between, so that nothing else runs until all have returned
(`Idle`).  `SetItem` is the program (bound `MaxSets`).
`payload` and `modelPayload` write into options that callers may pass again.

### Helpers

A behaviour is one call, with any input of the instance, and its result.  The
reference definition of each helper stands beside it (`Meant`, for example).
Texts are sequences of small numbers; a key is its length; a mask a number.
`results` of an answer with a row of length 1 among its sets throws, since a row
has no `get_rows` (`Thrown`, line 29).  `format` counts down when it has no arguments,
and replaces `{0}` and `{-1}` by "undefined".  Of the patterns that `replace()`
knows in a replacement, `$&` is in the model (`Match`).

## 3. Properties and runs

`Sequential` says that the program awaits each call before its next step;
`Faults` and `Modes` select what the environment and the program may do.

| Run | Instance | Checks |
|---|---|---|
| `serial` | 3 calls, 3 connections, sequential, all faults, run and handler forms, with and without pool | `TypeOK`, `DurableSuccess`, `AtomicFailure`, `HandledSavedByNext`, `ConnectionOwned`, `ImplementsLedger` |
| `pairs` | 2 calls in flight, 2 connections, every form, all faults, with and without pool, `throwOnError` or not, in a program that may `stop()` and exit | `SuccessKept`, `NoEffectBeforeBegin`, `CrashOnlyOnLoss`, `PartialOnlyByAnother` |
| `liveness` | 2 calls, 2 connections, sequential, all faults and forms | `EveryCallSettles` |
| `fatal` | 2 calls, connections may be lost | `FatalErrorExits` is violated |
| `graceful` | 2 calls in flight, no fault | `GracefulEnd` is violated |
| `cache_loads` | 2 loads, each on a given handle or the one under `yp`, connected before or not, 2 languages with good, malformed or no files, tables that change once, failing queries, lost connections | `TypeOK`, `LoadedIsFilled`, `NeverBackwards`, `EveryLoadSettles` |
| `cache_early` | 2 loads, merges before the first | `LoadedIsFilled` is violated |
| `stop` | 3 objects of both classes and a persistent one, any graph | `TypeOK`, `StopsBounded`, `NoneForgotten`, `PersistentKept`, `CascadeEnds` |
| `services` | 2 SMS on each of the eight kinds of host the code tells apart; 2 requests of one file, 2 chunks; 2 mailings of one messenger with a sender of their own or none, 2 recipients, 2 users | `ServicesTypeOK`, `SentIsAccepted`, `InTimeIsFinal`, `EveryMessageSettles`; `HashIsOfBody`, `CrashesAreLocal`, `EveryRequestSettles`, `FileCompletes`; `MailsAreTrue`, `EveryMailingSettles` |
| `process_state` | 2 `init`, 1 `getSubscribe`, 2 sends of shared payloads with a `dest` and without, 3 destinations; 2 roots, 3 loads, 2 edits, 2 importers; 2 lookups of 2 single and 2 double extensions; 3 languages, 2 texts; a nested model; every small input of the helpers | `ProcessTypeOK`, `LinksAreReady`, `SendsAreTrue`, `SettingsAgree`, `FilesKeptApart`, `TextsKeptApart`, `ModelsShowTheirOwn`, `OnlySecretsStripped`, `AnswersKept`, `HelpersAsMeant` |
| `sms_shipped` | 1 message, a host that adds nothing to the repository's dependencies | `FallbackTried` is violated |
| `sms_givingup` | 1 message, a host that adds `ovh` and the loggers | `GivingUpIsFinal` is violated |

Some invariants are conjunctions of named parts, each with its own comment:

| Invariant | Parts |
|---|---|
| `LinksAreReady` | `InitedIsUsable`, `SubscribersConnected` |
| `SendsAreTrue` | `ServedInOrder`, `SilentOnlyWithCause` |
| `SettingsAgree` | `ReturnedIsComplete`, `CopiesAgree`, `OneEditionPerRoot`, `OneConstant` |
| `FilesKeptApart` | `SinglesStay`, `SameFileSameAnswer`, `CategoryKept`, `AlwaysCategorised` |
| `TextsKeptApart` | `MergeDropsFile`, `MissingSpeaksDefault`, `DefaultUnmerged` |
| `ModelsShowTheirOwn` | `CleanIsClean`, `ThrowsOnLaterPath`, `OwnAttributesKept`, `ForeignSenderOnReuse` |
| `AnswersKept` | `RowsKept`, `SingleRowIsItself`, `ResultsKeepLongSets` |
| `HelpersAsMeant` | `StatementAsMeant`, `PemRoundTrip`, `FormatTogether`, `WrittenOrThrown`, `SaidWhenAsked`, `PrivilegesNested`, `KeyRoundTrip` |
| `MailsAreTrue` | `ResultIsComplete`, `NoEmptyMail`, `OneButler` |

Each part has a faulty variant that breaks it, and the invariant with it.

Why the bounds suffice: the interesting conflicts are between one failing call,
one successful call and one that commits or rolls back for them, which takes
three calls; a call can use a connection only until it is closed, so the second
and third connections serve the calls after an error or an `end()`.  The runs
with two calls exist because all forms and faults at once are covered there; the
theorems cover every number.  No counter is unbounded: a call is made once, and a
connection opened once, so the state space is finite by itself.  Connections are
symmetric; calls are not (they are numbered in the order they are made).

Cache: a load can only be disturbed by another that is at a different query of
the same handle, that made a connection beside it, or that has left a half-filled
table; two loads do all of these to each other, and the theorems hold for any
number.  Two languages put a good file before a malformed one and behind.  Lifecycle:
three objects make cycles of length two and three and a shared child; what a
persistent object refers to plays no part, since it is never cleaned up.  SmsFailover: messages share only the process;
two show that one message's crash or answer never settles the other.

Requests meet in the file only, and two chunks are enough for a write in the
middle of another's body.  Two mailings of one messenger make the race with its
clean-up, two users the change of account.  In the Redis store two `init()`
overlap in every way the two waits allow; two calls that share a payload are a
retry.  Three loads and two edits give a module two different sets of settings to
choose between, with a failure in the middle.  A lookup disturbs another through
one record, so two lookups suffice.  The helpers run over all argument lists up
to five long (the loop of `statement` needs two output parameters in a row and
one behind), all answers of up to three sets of up to two rows, lines of three
characters and keys of up to two lines and a rest, all levels below 16, and in
the tables of masks every number up to 128 (`MaskLimit`), above the largest mask.

Deadlock checking is off in all runs: the program may exit, or has made all of
its calls, and then nothing is left to do.  That no call is stuck is what
`EveryCallSettles` says.

Fairness (`FairSpec`): the event loop runs what is runnable and reads what has
arrived, a connection attempt succeeds or fails, a handler's promise settles,
the server executes what it is sent, a lost connection is reported.  There is no
fairness on the program's calls, on `end()`, or on faults.  In `Cache` the
database accepts connections and executes what they carry, and the event loop
reads the answers; in
`Lifecycle` the timers fire, while the program need not stop anything; in
`SmsFailover` the timer fires and ovh's client calls back, but nothing is
assumed of smsfactor, whose request has no timeout.  In `NetworkRequest` the peer
answers or fails, the event loop reads, files are opened and written, the timer
fires; in `Messenger` the mail servers and the token's request answer, while no
send and no clean-up is counted on.  A request whose response breaks off is
left waiting by the code, so `EveryRequestSettles` stops there.

What the runs showed beyond passing:

* `FatalErrorExits`: the log line at 115 announces an exit; line 116 throws.
* `GracefulEnd`: `end()` drops the callers of statements in flight.
* Calls in flight together share one transaction, and `DurableSuccess` does not
  hold of them: a deadlock that another call met on the connection, or with a
  pool the rollback of another call that failed, takes a success with it.
  `SuccessKept` says that these and a lost connection are all that can.  The same
  rollback leaves the next statement outside a transaction, so that a call may
  be saved in part (`Undid` in `PartialOnlyByAnother`).
* `LoadedIsFilled` with merges before the first load, `FallbackTried`,
  `GivingUpIsFinal`: see "findings" in `PROJECT.json`.
* Two loads given the same handle can hang: the first to finish ends it.  So
  `EveryLoadSettles` is about a load whose handle nobody shares (`Alone`).  Loads
  on different connections can take the cache back to older rows, and that is so
  on one handle too: loads that overlap its first connection make one each, and so do those
  after a loss.  `NeverBackwards` is about a handle under `yp` that has had one
  connection (`SharedConnection`).
* A language file that does not parse makes `load()` reject with the languages
  before it entered; since the lexicon is not empty then, later loads skip.  So
  `LoadedIsFilled` promises the tables and the languages that could be read
  (`Readable`), not all that have a file.
* A message may be sent twice, by the timer and by the catch, or by the timer
  while smsfactor is slow: no comment promises otherwise, and `InTimeIsFinal`
  says when it cannot happen.
* A program that sends the same payload again after a failure is told that it
  was sent, although nothing was published; so is one whose payload never had a
  destination, or an empty one (`SilentOnlyWithCause` lists the causes).
* `results()` of an answer with a row of length 1 among its sets throws
  (`ResultsKeepLongSets`), and `format()` without arguments writes "undefined" for
  `{0}` (`FormatTogether`).
* An answer of one row is the row itself (`SingleRowIsItself`), while the loops
  of `cache.js` (188, 199) iterate over what they get: a table of one row makes
  the load fail.
* After a change of `email.json` mails are sent through the new account and name
  the old one as sender.  Calls may name their own sender, and messengers one for
  when `email.json` has none: `OneButler` says that the first is used, and that all
  others that name a user of `email.json` name the same, the stale one.
* The size in the result of a request may be that of an unfinished file, or of
  one another request writes; what can be relied on is the hash (`HashIsOfBody`)
  and that the file is complete in the end if nobody else uses it (`FileCompletes`).
* A PEM file that ends with two line feeds is cut inside its footer; what
  `formatAsPem` writes, and one line feed added, comes back (`PemRoundTrip`).
* `cleanData` throws when an array holds a system path behind its first item,
  and strips nested objects for good (`ThrowsOnLaterPath`, `OnlySecretsStripped`).
* An offline program that exits a second after `stop()` loses no success it was
  told of by exiting (`SuccessKept`), and saves no failed call's writes
  (`PartialOnlyByAnother`).
* With `throwOnError` a failed call's partial writes are committed by the next
  call, so `AtomicFailure` is checked with the default option.

## 4. Proofs

All theorems hold for every value of the constants that the assumptions of the
modules and of the theorem allow: any number of calls and connections, loads and
handles, objects and graphs, messages and hosts.

* `TypeCorrect`: `Spec => []TypeOK`.
* `StageCorrect`: `Spec => []StageInv`.  `StageInv` is the strengthening the
  others rest on: a call in state "beginning" or "querying" is the one whose
  command is in the receive queue (`Staged`), at most once (`OnceEach`), a
  connection being made belongs to one call (`Attached`), and a continuation
  that will use its connection finds it open (`ReadyIsLive`).  The last is not
  inductive without the order of continuations (`EarlierHops`) and without
  `Quiet`: exactly the two facts about the event loop the code relies on.
* `RefusedCallsHaveNoEffect`: `Spec => []NoEffectBeforeBegin`.
* `CrashesOnlyOnLoss`: `Spec => []CrashOnlyOnLoss`.
* `SequentialConnectionOwned`: `Spec => []ConnectionOwned`, assuming
  `Sequential` and no pool: no live connection is forgotten by a program that
  awaits each call.
* `SuccessIsKept`: `Spec => []SuccessKept`, without assumptions: any calls in
  flight, any fault, with a pool or without.  The inductive invariant is
  `DurableInv`: the driver never believes an open transaction closed
  (`TxMirrored`, so a skipped COMMIT had nothing to commit), a ROLLBACK that an
  open connection has to execute is that of a failed call of a stub with a pool
  (`UndoersKnown`), an answered statement's writes are still there
  (`WrittenBeforeOk`), and a call reported successful keeps its connection
  (`OkOnConnection`).  The exceptions in these, a deadlock and a ROLLBACK on that
  very connection, must outlast what they excuse: `undoers` of a connection only
  grows (`UndidStays`), and a call that a deadlock struck can be told nothing but
  its failure (`DeadlockStrikes`, `DeadlockStays`).
* `SuccessIsDurable`: `Spec => []DurableSuccess`, assuming that no option asks
  for a pool and that the server finds no deadlock: then neither exception
  occurs (`KeptIsDurable`).  Both assumptions are needed (section 3).

The argument of these proofs: `ConnSteps` reduces every step to what it does
to one connection, either appending a command (`Writes`) or one of six named
steps; the lemmas of `DriverConnectionProofs` say what each does to the queue.

A program that awaits each call (`Sequential`) with the default `throwOnError`
is promised more, with a pool or without and under all faults, deadlocks and
lost connections included:

* `SequentialAtomicFailure` (`AtomicFailure`), `SequentialHandledSaved`
  (`HandledSavedByNext`), `SequentialSuccess` (`DurableSuccess`, here also with a
  pool and deadlocks), and `StubImplementsLedger`: the stub implements
  `CallLedger`, each step being a step of the ledger or a stutter.
  Both assumptions are needed: calls in flight together save each other's writes,
  and with `throwOnError` the next call saves those of the failed one.
  The inductive invariant, `SequentialInv`, says that calls are in flight one at
  a time (`OneAtATime`) and work on the stub's connection, unless a pool's `end()`
  made the stub forget it (`Holding`); that a START TRANSACTION or a statement is
  the last thing in its queue, and a statement that waits for the server the only
  one (`Queued`); and, for each call, where its writes are: pending, saved, or gone for good
  (`CallKept`).  The last is what makes the others inductive: what becomes of
  pending writes is decided by the first COMMIT, ROLLBACK or START TRANSACTION on
  the wire, and the invariant says which it is.  TLC checked it with three calls
  and three connections (2.5 million states) before it was proved.

In an offline program (`OfflineSpec`), where `stop()` ends the stub and the exit
comes at any later moment, calls in flight or not:

* `OfflineNoEffect` (`NoEffectBeforeBegin`) and `OfflineCrashesOnlyOnLoss`
  (`CrashOnlyOnLoss`) and `OfflineKept` (`SuccessKept`) without assumptions,
  `OfflineSuccess` (`DurableSuccess`) under those of `SuccessIsDurable`.
  `OfflineSteps` says that an offline step is
  one of the stub's, or the exit, of which `ExitKeeps` says what it keeps.
* `OfflinePartial` (`PartialOnlyByAnother`), also without assumptions:
  writes belong to calls on that connection (`PendingOwned`), a COMMIT on the wire
  to a call that was told its success (`CommitsOwned`), and a call that is alone
  on its connection, with no rollback by another, executes its statement inside a
  transaction, which only its own COMMIT can save (`AloneInv`).  TLC checked it on the instance of `pairs`
  (1,932,175 states) first.

Cache and lifecycle:

* `CacheTypes`; `LoadersFindTheTables`: `Spec => []LoadedIsFilled` if nothing is
  merged before a load is done (`~MergeEarly`, needed: run `cache_early`).  The
  invariant (`FilledInv`) says that the lexicon, on which `load()` decides, is filled only
  when the two other tables are and every readable language is entered, also
  after a load that threw at a malformed file.  `SharedLoadsGoForward`: `Spec =>
  NeverBackwards`.  The invariant (`OrderInv`) says that, while the handle under
  `yp` has had one connection, all queries go over it, and that the versions in
  its answers never fall and begin at what the cache holds.  A second connection
  ends what is promised, and never comes undone (`ConnectionsStay`).
* `LifecycleTypes`, `CleanUpForgetsNothing`, `PersistentObjectsStay` rest on
  `GraphInv`: `_stopping` and the timer go together, and an object has all its
  references until it is cleaned up.  `CascadeIsBounded` (`StopsBounded`) needs
  more, since a bound on a count is not inductive: `Budget` charges each stop to
  a call or to a reference that has disappeared.
* `MessageTypes`, `SentMessagesAreAccepted`, `SuccessInTimeIsFinal` rest on
  `InTimeInv`: after a success with no failover begun, the timer is not armed
  and the request is closed, so that nothing is left to begin one.

What a process keeps and what leaves it:

* `ReadyStoresHaveLinks` (`LinksAreReady`) rests on `LinksInv`: a publisher is
  connected only once its `init()` is done, the store has one as soon as an
  `init()` got that far, and when the store is ready one of them is connected.
* `SendersAreTold` (`SendsAreTrue`) rests on `SendsInv`: the messages of a call in
  the channel are exactly the places of its list that are no longer left, all of
  them before those that are (`Told`), each call's in ascending order, and a
  payload whose destination was deleted lost it to a call that was made.  `OneMoreMessage`
  says that a message adds to one call's and leaves all others'.
* `SettingsStayTogether` (`SettingsAgree`) rests on `SettingsInv`: a
  `drumee.json` that somebody uses is the one `require` keeps, a copy of the last
  load is what is in use, and a constant is the only value that was given.
* `FilesStayApart` (`FilesKeptApart`) rests on `FilesInv`: the answer of a
  lookup in a single record is a function of the table and of what was detected
  (`Answer`), so that no other lookup can matter.  `CompletedRow` is what
  `getFileinfo` keeps of any record.
* `MergedTextsStayApart` (`TextsKeptApart`) rests on `TextsInv`: merged texts are
  in plain entries only and texts of a file in none of those, and what
  `DefaultLexicon` is an alias of is the entry of a file.
* `HashOfWholeBody`, `CrashesStayLocal` rest on `RequestInv`: what is hashed and
  what was handed to the stream is what was read, and whoever is past the end has
  read everything.  The second says that only the stream of a file (opening,
  writing or closing) and a response without a file end the process.
* `MailsStayTrue` (`MailsAreTrue`) rests on `MailerInv`: each recipient is
  pending or has answered, a messenger that can send has a content, a mail bears the
  name its call was given (`Mailed`), and the users of `email.json` named in the
  outbox are the cached one.
* `ModelsShowClean` (`CleanIsClean`, `ThrowsOnLaterPath`, `OwnAttributesKept`,
  parts of `ModelsShowTheirOwn`) and `SharedObjectsLoseSecrets`
  (`OnlySecretsStripped`) rest on `SanitizerInv`: each call under way was made at
  the item behind which its caller stands (`Nested`), and what a call has behind
  it is tidy and, at any depth, needs no further stripping, but for the object
  whose call it waits for (`Behind`).  A deletion never changes what another item
  matches, since arrays lose none (`DeletionKeeps`): an array throws instead.
  The heap is any that the assumption allows: objects may be arrays or not, hold
  any number of items and be held twice.  What bounds it is `Holds`, objects within
  objects to a depth of three, without cycles.  TLC checked the invariant on the
  instance of `process_state` and on one with an array that holds an object.
* `SendersAreForeignOnReuse` (`ForeignSenderOnReuse`, the last part of
  `ModelsShowTheirOwn`): options that are passed for the first time name nobody.

These are about the specification of the part alone (`RedisSpec`, `NetworkSpec`
and so on).  Two theorems carry them over: `ServicesKeepPromises` and
`StoresKeepPromises`, of `ServicesSpec` and `StoresSpec`, where a step of one part
leaves the variables of the others alone, so that the conjunction of the
invariants is inductive; `ServicesTypes` and `ProcessTypes` say the same of the
types (`ServicesTypeOK`, `ProcessTypeOK`), `ModelsShowTheirOwnAlways` and
`ProcessStripsSecrets` of `ModelsShowTheirOwn` and `OnlySecretsStripped`.
`ProcessState` adds to `ProcessStores` one part with variables of its own, the
helpers, about which nothing is proved.

Only model-checked: liveness (out of TLAPS's reach); and `AnswersKept` and
`HelpersAsMeant`, whose operators are recursive, fold over sequences or work on
bits, so that a proof would be an induction over data.  These run over all small
inputs instead.
The other inductive invariants are no runs of their own: their theorems say more.

Faulty variants: an operator `X_Y` is `X` with a plausible bug; `PROJECT.json`
("mutants") says which property each breaks.

## 5. Not modelled

* Tables and texts: `lib/lex/constants.js`, `attribute.js` and the other tables
  of names, `lib/dataset`, the locales.  They have no behaviour.
* `utils/svc-gen.js`: it calls `require('path')` as a function and requires a
  module that is not there, so it ends before it does anything.
* `bin/soffice.sh`: a script around an external converter.
* `lib/index.js`: it loads the modules.  That the cache and the
  store are kept in `global` is why each is one set of variables here.
* `execute()` of the stub (it calls a method that does not exist), the throw on
  empty arguments, its `log()`.
* `Cache.setEnv` between two loads, `getSysConf` (only reads).
* The index form of `get_rows`, `result()`, the tests on texts and numbers in
  `addons/string.js` and `addons/number.js`, `normalizeArgs`, `parseJSON`,
  `include`, `makeArchiveList`, `supportedLanguage`: functions of their input
  that nothing else depends on.
* `sendEmail` of `mfa.js`: it uses `email` before it is declared and always
  rejects.
* The `parse` option of `render`, which `write` does not use.
* Cryptography: keys are lengths, and only how they are wrapped is modelled.
* A COMMIT or ROLLBACK that the server answers with an error packet while the
  session stays open: nothing in the stub waits for either, and what the server
  has done by then is not known.  `Drop` covers the server that fails with its connection.
* `Cache` over a handle with a pool, and texts whose default language has no file.
* The patterns ``$` ``, `$'`, `$$` and `$1` in what `format` puts in.
* What a caller of `dispatch()` sees that throws, once the messenger was cleaned
  up, against its comment (messenger.js:243): the call ends as `thrown`, and no
  property is about it.
* Links of Redis that break after they opened, and the pool's own connections,
  which serve no statement: their packages look after them.
