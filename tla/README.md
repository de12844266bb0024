# Pictophone in TLA+

Specifications, model-checking runs and machine-checked proofs for pictophone: a
game in which players write a story in turn, each seeing only the last sentences.
`be/server` is a Rust gRPC server, `be/logic` the rules of the game compiled to
WebAssembly, `fe` a web client. Paths below are under `src/`.

## The system

| part | state it keeps | operations | modelled by |
|---|---|---|---|
| game logic `be/logic/src/main.rs` | none: `Option<State>` in, `Option<State>` out | `create_game`, `join_game`, `start_game`, `make_move`, `get_game` | `GameLogic` |
| logic handler `be/logic/src/handler.rs` | none | decode a request, dispatch on its method, encode the answer | `GameLogic!HandleAction` |
| server `be/server/src/main.rs`, `util/mod.rs` | per call: a replay of the log | `handle_action`, `handle_query`, `state_stream`, `fold_state`, `end_after_error` | `Server` |
| service glue `be/server/src/proto.rs` | none | the five methods of `Pictophone` to `handle_action`/`handle_query` and back | `Server!InvokeAction`, `Server!InvokeQuery`; the messages: `Rpc` |
| Firestore datastore `be/server/src/datastore.rs` | Firestore: one count, one document per action; per instance: a cache of shared futures | `push_action`, `watch_log` | `ActionLog`, `LogWatch` |
| local datastore, `util/aovec.rs` | a vector and a broadcast channel | `push`, `watch`, `take` | `OffsetVec` |
| runner `be/server/src/runner.rs`, `binaries.rs` | compiled modules by version | `run`, `load_module` | `Runner` |
| tokens `be/server/src/auth.rs` | one cached token | `CachedTokenSource::token`, the interceptor | `TokenCache` |
| frontend `fe/src/watch.ts`, `App.tsx`, `navigation.ts` | the page, the user, the url bar, the game streams | `switchMap`, `mapFold`, `combine`, `newState`, `fold` | `Frontend` |
| generated messages and stub `fe/src/gen` | message objects | setters, `serializeBinary`, `deserializeBinary`, `toObject`; a method's call | `Messages`, `Rpc` |
| config, `serde_firestore`, `doltc`, service worker | none at run time | start-up, conversions, code generation, caching of the client's files | no |

How they interact. A client calls an action method. The glue wraps the request
into a log record and calls `handle_action`, which *first* appends the record to
the log (`push_action`) and *then* finds out what it meant: it replays the log from
its beginning, running the logic once for each action, and takes the response at
the place where its own action is. Nothing is validated before the append and
nothing is computed in the transaction: a refused request is in the log like any
other. `get_game` replays the log likewise and goes on with each action that is
added. Server instances share nothing but the log; the calls of one instance
also share its cache of log documents, its access token (which every request to
Firestore asks for, blocking its thread) and its compiled modules. The web client computes its page from the address, the
signed-in user and the messages of one `get_game` stream, and calls the action methods
for what the user does; it never looks at their answers.

What is hard here: the transactions of concurrent pushes, their retries and
commits whose answers are lost; the cache that is checked under one lock and
filled under another; counts that Firestore repeats or skips; errors in the
middle of a replay, which carry the state away; the rule that a response without
a state leaves the state alone; turn order over long sequences of requests; a lock held over a blocking request; and
two ends of a wire that are generated apart and deployed apart.
`PROJECT.json` lists each hazard at its line with the properties about it.

## The modules

- `GameLogic` has the rules as pure operators. A handler returns `Ok(state)`,
  `Ok(None)` (nothing to change) or `Err(e)`, which never carries a state.
  `NextState` is `fold_state`'s `new_state.or(old_state)`. It has no variables and
  no recursion.
- `GameService` is the system as a client would like it to be: one state, any
  request of anyone at any moment. Its history variable `moves` records the moves
  that were answered without error. `MCGameService` is its instance for TLC.
- `AtomicLog` says what `Datastore::push_action` promises: an append-only log to
  which each call appends at one instant, at most once, also after it has failed.
- `ActionLog` is `push_action` over Firestore. An action per await: begin, read the
  metadata, commit, answer. Firestore's side (`Apply`, `Abort`) is external: it
  applies both writes together, only if the metadata is still as it was read,
  and may abort. A failing or cancelled call leaves its commit with Firestore,
  which may apply it later. `abstractLog` and `abstractStatus` map it to `AtomicLog`.
- `LogWatch` is `watch_log` on one instance: the Listen stream, `fill_in_gaps`, and
  the cache, with the read lock (`LookUp`) and the write lock (`Fill`) as separate
  steps. Actions are named by their index, which `ActionLog` justifies. A shared
  future is unpolled, sent, ready, or failed. An error of the Listen stream that is not
  its last item changes nothing here; one that is, is `Stop`.
- `ClientService` says what the callers of the action methods see: each call takes
  effect on the games at one instant between its start and its answer, and its
  answer is the one of that instant (a linearizable service).
- `Server` composes the server's replay with `AtomicLog` (by `INSTANCE`, sharing the
  variables `log`, `status`, `returned`) and `GameLogic`. Per call: where it awaits
  (`pc`), how far it has replayed (`pos`), the state so far (`folded`), and whether
  `end_after_error` has let an error pass. An action call drops an error of the logic
  (`FoldFails`) or of the log stream (`LogFails`) and ends at the item after it
  (`EndAfterError`); a query ends with the error. `states` is a history variable, the state
  after every prefix of the log; the refinement mapping reads it.
- `Frontend` is the web client, on its own: the server is the messages of its streams.
  `App` is `combine(urlBar, authState)` under `switchMap(newState)` under `mapFold(fold)`; a
  promise that settles is an action (`UrlNext`, `AuthNext`, `GameNext`, `Navigate`,
  `SendRequest`), and so is each event of the browser (`Pop`, `AuthChanged`, `Data`, and
  what the user does). JavaScript runs promise callbacks to the end between two
  events (`Quiet`), so that they interleave only when one event settles several: a
  chunk of a stream with several messages. `intent`, `request`, `sent` and `stale` are history.
- `TokenCache` is `CachedTokenSource` under the interceptor: a fair queue of waiters for
  tokio's `RwLock`, a step each for taking the read lock, looking, taking the write lock,
  fetching and storing, a clock, and threads, which a call keeps while it waits.
- `Runner` is `run` and `load_module` over the directory of binaries: the look under the
  read lock, the file, the compilation and insertion under the write lock, the run. A
  binary may be released at any moment; what is released does not change.
- `OffsetVec` is `AOVec`: pushes, a watcher that subscribes and then reads the length, and
  the channel that keeps 16 messages.
- `Messages` is the generated client code: a class is the table of its fields, and the
  pattern that the compiler repeats for each field is an operator on tables. A message is
  a function on the numbers that are set; the wire is a sequence of numbered payloads.
  Messages nest, three deep at most (`GetGameResponse`, `Game`, `YourTurn`): each method has a
  form for every level (`ToObjectLeaf`, `ToObjectInner`, `ToObject`), which calls the one below for the messages
  inside (`Inside`), and not itself. The loop that reads a wire is a recursive function (`Reading`).
- `Rpc` takes one call after another through it: fold's setters, the stub, the server's
  decoding by its own definitions, `GameLogic`, the server's encoding, the stub again,
  `toObject`, and the page of a game. A newer server may add a field (`Newer`). It extends
  `GameService`: a call of an action method takes a step `Handle` of it, a query none.
- `GameServiceProofs`, `ServerProofs`, `ActionLogProofs`, `LogWatchProofs`, `FrontendProofs`,
  `RunnerProofs` and `TokenCacheProofs` hold the theorems of their modules; those of `Rpc`
  are in `GameServiceProofs`, too.
  `GameLogicProofs` has the lemmas about the rules that `GameServiceProofs` and `ServerProofs` share.

The layers: `ActionLog` implements `AtomicLog`; `Server` uses its log only by the steps
of `AtomicLog` and implements `ClientService` (all three are theorems, and so is that `Rpc`
implements `GameService`); `LogWatch` shows that the stream a replay reads is the log in
order, which `Server` assumes (`pos` counts through `log`). `GameService` shows what
the rules mean once requests take effect one at a time, and `Rpc` that they mean the same to
the client. `TokenCache` and `Runner` are under every request of `ActionLog` and `LogWatch`, and
under every step of a replay of `Server`, which take from them that such a step ends,
and that the logic is that of the version named.

Some operators have a faulty twin right before them (`JoinGameTwice` before
`JoinGame`, and so on), marked as such. No specification uses them: they record a
plausible bug that the properties reject when it is put in the place of the real
operator.

## What the runs check

| run | configuration | states | shows |
|---|---|---|---|
| `game` | 2 games, 3 players (symmetric), 2 sentences, windows 0 and 2, lengths 0 and 4 | 40 913 | `RosterOK`, `StoryIsAcceptedMoves`, `ViewAgreesWithMoves`, `StoryHiddenUntilOver`, `RepeatedMoveRefused`, `StepsOnlyGrow` |
| `action_log` | 3 concurrent calls, fair | 7 219 | `LogContiguous`, `AtMostOnce`, `ResultIsMine`, `OrderedAsReturned`, `AppendOnly`, `ImplementsAtomicLog`, `PushReturns` |
| `log_watch` | 2 watchers, log of up to 3, fetches may fail, fair | 4 012 | `CacheAligned`, `FetchesExisting`, `DeliversPrefix`, `CatchesUp` |
| `log_watch_failure` | as above | - | violation: a failed fetch panics its watchers |
| `server` | one call each of the four action methods, one game, one player | 330 432 | `ImplementsClientService` |
| `server_query` | create, join and start beside a `get_game`, fair | 44 804 | `ViewIsOfThePrefix`, `Answered`, `QueriesCatchUp` |
| `frontend` | 2 games, one whose address is not read back; 2 users; chunks of up to 2 messages, 3 calls of `get_game` | 859 482 | `PageIsOfTheUser`, `LatestIsShown`, `AddressIsShown`, `RequestsAsAsked` |
| `server_hang` | create and join, fair | - | violation: a replay that meets an error at the end of the log hangs |
| `token_cache` | 3 requests, 2 threads, margin 1, lifetime up to 3, 4 ticks, fair | 201 747 | `TokenIsFresh`, `CacheOnlyRenewed`, `EveryCallEnds` |
| `runner` | 3 calls (symmetric), 2 versions, 2 modules | 159 305 | `AnsweredByItsVersion`, `FailureNotCached` |
| `rpc` | one game of 2 players, 2 sentences, the client's window 2 and length 5 | 15 722 | `RequestArrives`, `AnswerArrives`, `PageShowsTheView` |
| `offsets` | 1 watcher, 20 pushes, the channel's 16 messages | - | violation: a watcher that lags misses offsets |

Why these bounds are enough to meet the interesting cases.

- `game`: three players give a rotation in which being out of turn differs from
  having just moved; length 4 is more than one round; window 2 is smaller than the
  story, 0 is the edge; length 0 is a game that is over when it starts; two games
  show that one does not disturb the other. The state space is finite with no
  bound in the actions, since a story never outgrows its length.
- `action_log`: three calls meet every pattern of two conflicting commits and one
  that comes late. Retries do not count up, so no bound is needed. The proofs are for
  any number of calls.
- `log_watch`: two watchers race for the cache; a log of 3 lets counts be skipped,
  repeated and taken back. `MaxLength` is the only bound in a guard.
- `server`: the four methods each depend on one before it (a join before the create
  is refused, and so on), so that the order in the log decides every answer.
  Symmetry is not used.
- `frontend`: three streams are one that was left, the one of the page, and one for
  another game or user; two messages in a chunk let a page change while one is unread.
  `MaxStreams` bounds the navigations, sign-ins and pops, `MaxChunk` the chunks.

- `token_cache`: two threads and three calls let one call hold the write lock and another
  wait with the last thread in its hand while a third has none. Four ticks are more than a
  lifetime, so that a token is fresh, then inside of the margin, then gone. `MaxTime` is
  the only bound in a guard.
- `runner`: two versions can be mixed up; three calls are two that load at once and one
  that finds, or no longer finds, what they did. No bound is needed.
- `rpc`: a story of 5 with a window of 2 has views with none, some and all of its
  sentences; every method and every error that its page can cause comes up. The proofs are
  for rosters, stories, ids and sentences of any kind and length.
- `offsets`: 17 pushes overrun the channel. With 16 the property holds.

Deadlock is not checked where every call may have come to its end, or the log has
reached its bound: the system then rests.

### Fairness

Weak fairness stands for the async runtime, which polls every task that can go on,
and for Firestore and the source of tokens, which answer every request. `TokenCache` takes no
more: the lock's queue is a variable, not a fairness assumption. `ActionLog` assumes more of
Firestore: strong fairness of `Apply`, because `push_action` has no limit and no
backoff and the code alone cannot promise to end; Firestore documents that one of
several conflicting transactions commits. `LogWatch` assumes that Firestore at last
tells a listener the current count, not that it tells every count. `Server` assumes
that `push_action` returns and that the log reaches every stream, which the other
two modules show. No client has to call, no call has to fail, and no action of the
log has to be followed by another, which is what `server_hang` is about.

### Findings

- `log_watch_failure`: `fetch_action` is commented "Not found => error" and returns a
  `Result`, but unwraps inside the shared future (`datastore.rs:201`): one failed
  request panics the calls that await it, and the cache keeps the panicked future.
- `server_hang`: after an error `end_after_error` ends the stream only at the *next*
  item. If the error is at the last action of the log, the caller waits until
  somebody else pushes.

- `offsets`: the comment on `AOVec::watch` says that all offsets get covered
  (`aovec.rs:27`), but a receiver that lags more than 16 pushes behind gets an error that
  `r.ok()` drops (`aovec.rs:32`), with the offsets. Nothing uses the watch yet.

Also noted while modelling: the comment `Deadlock potential here?` (`main.rs:288`) is answered
by `EveryCallEnds`: no, as long as the source of tokens needs no thread of the runtime
(`ureq` blocks the one it has; with an asynchronous client, `FetchOnRuntime`, it would be yes).
Versions of the logic are the client's choice (`x-impl`, `main.rs:28`), and nothing says what
two of them have to agree on, although they replay one log. `get_game` on an empty log sends nothing at all until a
first action is pushed (`InvokeQuery` then has nothing to fold), and
`InvalidGameParametersError` of `messages.proto` is never returned: a game of length
0 can be started and is over at once. The frontend's url bar does not hear of its own
`pushState`, so that a change of the user after "Go to a game" shows the page from
before (`AddressIsShown` excepts it, as `stale`). And `serializeLocation` does not
escape the id of a game: one with a slash in it is shown when it is asked for, and is a
404 after a reload or the back button (`AsParsed`).

## What is proved

TLAPS proves these for every value of the constants, under the named assumptions:

| assumption | says |
|---|---|
| `GameLogic!ParametersAssumption`, `SentencesAssumption`, `NoneAssumption` | window sizes and lengths are naturals; there is something to say; `None` is not a value |
| `Rpc!PageParametersAssumption` | the parameters with which the page starts a game, 2 and 5, are among those of the clients |
| `ActionLog!NoneAssumption`, `LogWatch!MaxLengthAssumption` | `None` is not a value; the bound on the log is a natural |
| `Server!CallsAssumption` | every call of an action carries a request, every query asks for a game and a player, and no call is both |
| `Frontend!ParametersAssumption` | every address parses to a location; views and users are told apart from the marks of the page itself (`loading`, `UNAVAILABLE`, ...); bounds are naturals |
| `Runner!VersionsAssumption`, `ModulesAssumption` | the default is a version; failures are not modules |
| `TokenCache!ParametersAssumption` | times are naturals, and no token is not a time |

Every safety invariant and action property of the passing runs is a theorem, and so
are both refinements that the runs check.

- `GameLogicProofs`: what `handle_action` can answer (`HandleActionCases`), types, the
  rotation of turns, rosters, that no action takes anything back (`GamesKept`), when a move is accepted (`MoveAnswer`) and what
  `get_game` says (`GetGameCases`). The last two come down to the same condition from two
  places of the source, which compute the turn each for itself.
- `GameServiceProofs`: `TypeCorrect`, `RosterCorrect`, `StoryCorrect`, `GamesNeverRestart`,
  `ViewsCorrect`, `StoryStaysHidden`, `RepetitionsRefused`. The lemma
  `StepCases` says what a step can be: nothing changes, or one game is created,
  joined, started or moved in. Types and rosters are inductive as they stand. The
  story is inductive together with the types. That games never restart is an action
  property: `GamesKept` under the types. The views follow from
  types, rosters and the story by the lemmas on `MoveAnswer` and `GetGameCases`; that a repeated
  move is refused, from the strict rotation: `n - 1` and `n` differ modulo the number of players
  when there are two or more. A game of one player has no such protection, which is why the
  property excepts it.
- `GameServiceProofs`, on `Rpc`: `CallsImplementService`, `CallsCorrect`, `RequestsArrive`, `AnswersArrive`,
  `PagesShowTheView`, `PagesTellTheTurn`. The inductive invariant is `CallOK`: while a request is under
  way the wire is what the client writes of what was asked; while an answer is, it is what the
  server writes of what the logic meant, with or without a field that the client does not know. What reading then returns
  is a matter of the messages alone, in two lemmas about the operators of `Messages`. `RequestIsRead`:
  a setter decides what its getter returns and no other (`SetGet`), the wire has a pair for every field
  that is set (`PlainWire`), and a field without one is read with the value that it was
  not written for, so that empty ids and sentences arrive. `AnswerObjectOf` and `PageIsTheView`: what is read is
  one message (`AnswerIsRead`), found at the client under the name that the error has there, and a list comes
  back element by element (`RepeatedIsRead`), the empty one included, so that the page can tell an empty
  `YourTurn` from no `YourTurn`. The tables of both ends enter through one lemma for each method.
  Two facts need induction over the length of a sequence, the loop that reads a wire and the
  concatenation that writes one: they use sets of naturals and the least of their complement (`LeastNumber`,
  `Induct`), which the library's well-founded relations give. `CallsImplementService` says that a call does to
  the games a step of `GameService` or nothing, whence types and rosters hold under `Rpc` as well.
  `PagesTellTheTurn` puts the wire and the rules together: a page tells its player to write exactly
  when the rules would accept a sentence of hers. It, the refinement and `CallsCorrect` are in no run's list.
- `ServerProofs`: `TypeCorrect`, `ViewsOfPrefixes`, `Refinement`, `UsesAtomicLog`,
  `ReplaysCannotTrap`, `QueriesMoveOn`.
  `IInv` says that the history is what a replay computes (`StatesAreReplays`), that a stream
  which has passed no error on holds the state of the prefix it read (`FoldedIsOfThePrefix`), that
  the place a push returned holds its own action (`ReturnedIsOwnPlace`) and is still ahead of
  the replay (`OwnPlaceAhead`). Then `take` answers with what the action meant at its place in
  the log. The refinement, step by step: the commit of a push is the instant at
  which the call takes effect, taking the response is its answer, a failure is a failure (with
  or without the effect), and everything else is a stutter. `UsesAtomicLog` closes the layer
  below. `ReplaysCannotTrap` is about the index `players[i]` of the logic, which would trap the
  module, and every replay of that log after it: in the states that a replay hands over, a
  running game has players. `QueriesMoveOn` says that a query never takes back what it has shown:
  a player does not drop out of a roster, a started game does not go back, and a story that is over
  stays the same; it follows from `ViewIsOfThePrefix` by the lemmas `GamesKept` and `ViewsKept`. No run lists these
  last three, which are about `Server` for every instance.
- `FrontendProofs`: `TypeCorrect`, `PagesOfTheUser`, `LatestShown`, `AddressShown`, `RequestsSentAsAsked`. The
  key part of `IInv` is `OneSettles`: of the promises that a combinator races, one at most has
  settled. `Promise.race` drops what the loser had to say, so that the other parts rest
  on it. They say what a settled promise holds: an action is the page's own and leads where the
  bar was set (`ActionIsOfThePage`), a request waits or was sent (`IntentIsSent`), the last unread message is the last of
  the page's stream (`UnreadEndsWithSent`), and the page is that of the address, but for a pop or a
  navigation under way (`PageIsOfTheAddress`). The user of `PagesOfTheUser` is the one last taken from
  Firebase's reports: a report that waits in `authSink` is not on the page yet.
- `ActionLogProofs`: every safety property of the runs (`LogIsContiguous`,
  `AppendedAtMostOnce`, `ResultIsOwnPlace`, `OrderedInRealTime`, `LogIsAppendOnly`) and
  `Refinement`: `ActionLog` implements `AtomicLog`. The inductive invariant `IInv` adds
  to types and contiguity that the version of the metadata is its count
  (`VersionIsCount`), that a document in the log belongs to the call whose commit was
  applied and is at the place it read (`DocumentsAreApplied`), that a commit is under
  way only where the call's `pc` allows it (`CommitAgreesWithPc`), and what a call
  that began after another returned can have read (`ReadsAfterReturned`). Without the
  second, a call could not know that the document at its place is its own; without
  the last, the real-time order is not inductive.
- `LogWatchProofs`: `TypeCorrect`, `CacheIsAligned`, `OnlyExistingFetched`,
  `WatchersReadTheLog`. What a watcher yields next is the action in the cache at its next
  index, so `IInv` adds that what `fill_in_gaps` has produced is what was yielded and what is
  still to be fetched, index after index, within the log (`TodoFollows`), and that a
  watcher in `fetch_action` awaits a future that is in the cache (`FutureInPlace`).
- `RunnerProofs`: `TypeCorrect`, `VersionsNeverMixed`, `CacheHoldsReleases`, `FailuresForgotten`. What a run
  answers is decided when it finds or reads its module, so `IInv` adds that a cached
  module is its version's binary (`CacheIsTheFile`), that so is what a run has in hand
  (`ModuleIsTheFile`), and that a binary in place when a run began is still there
  (`ReleaseStays`). Two runs may then load one version at once and insert over each
  other: they insert the same. `CacheHoldsReleases` is about the cache: no failure is ever in
  it. `FailuresForgotten` is what a caller sees of that: a call that began when its binary
  was in place ends with that binary's answer or trap, whatever calls before it met.
- `TokenCacheProofs`: `LockCorrect`, `TokensFresh`, `CacheMovesOn`. The types hold the
  exclusion of the lock and are inductive with it. For the tokens, `IInv` adds that the
  token a writer is about to store is no earlier than the cached one and no later than
  the last one issued (`IssuedInOrder`), which only the exclusion keeps true, that only a
  writer has fetched one (`FetchedAtStore`), and that calls began in the past.

Only model-checked: everything temporal with fairness (`PushReturns`, `CatchesUp`,
`Answered`, `QueriesCatchUp`, `EveryCallEnds`), which this prover does not do. `OffsetVec` has no
theorem: what it shows is that a comment does not hold.

## Abstractions

Identifiers and sentences are opaque. Messages are numbered fields, without bytes, wire
types or lengths (`Messages`); the records of `log.proto` around them and the JSON of the
state are left out, since the server and the logic are their only writers and readers; a
decoding that fails is an error of `fold_state`. `Server` assumes one version of the
logic. A token is its expiration. Counts are naturals: a `u64` count of documents does
not overflow. Logging is left out.

## Not modelled

`config.rs` and the start-up read their inputs once. `serde_firestore` converts two records
of one field each. `doltc` runs when the server is built. `serviceWorker.ts` and `config.ts` of the
client are the template of create-react-app and constants: what they do is the
browser's. `MoveAbortedError` and `EmptyHandError` are generated and never used.

## Plan

1. Done: `GameLogic`, `GameService`, `ActionLog`, `AtomicLog`, `LogWatch`, `Server`,
   `ClientService`, `Frontend`, `TokenCache`, `Runner`, `OffsetVec`, `Messages`, `Rpc`, and the proofs
   named above.
2. Done: proofs of every safety property, of both refinements, and of `Rpc` from end to end
   over messages in levels.
3. Composition: `LogWatch` under `Server` instead of the counter `pos`, on a small log; the
   version of the logic (`x-impl`) as a parameter of a replay.
