# TLA+ specification of the game contract SDK

The SDK is a header-only C++ library for EOSIO game contracts. A game derives
from `game_sdk::game` (`src/sdk/include/game-contract-sdk/game_base.hpp`), which
keeps the session table, takes deposits, runs the two-party random protocol
("signidice"), pays sessions out and closes abandoned ones. This directory
models that program, the library its games are tested with and the big integers it
draws random numbers with, model-checks them with TLC and proves the contract's
safety with TLAPS.

## 1. Inventory

| Part | State | Operations | Modelled in |
|---|---|---|---|
| Session contract (`game_base.hpp`) | `session` table, `global` singleton (`session_seq`, `session_ttl`, platform, events) | `transfer`, `newgame`, `newgameaffl`, `newgamebon`, `depositbon`, `gameaction`, `sgdicefirst`, `sgdicesecond`, `close`, `init`; and for the game's callbacks `require_action`, `require_random`, `update_max_win`, `finish_game` | `GameContract`, abstractly `Escrow` |
| Settlement (`handle_player_win`, `handle_player_loss_or_tie`, `transfer*`) | none | split of a payout over real tokens and bonus | `Settlement` |
| Signidice (`rsa.hpp`, `service::signidice`) | the row's `digest` | verify a signature, hash it | `GameContract` |
| PRNG, `cut_to`, `shuffle` (`service.hpp`) | seed and counter | `next`, `cut_to`, `shuffle` | `Service` |
| Events (`emit_event`, `send_game_message`) | the inline actions of a transaction | one event per request, ending and message | `Events` |
| intx (`int128.hpp`, `intx.hpp`, `div.cpp`, `div.hpp`) | none | the operators of `uint128` and `uint256`, above all the long division | `Int128`, `Intx` |
| Dispatcher (`dispatcher.hpp`) | none | `apply`, `execute_action` | atomicity only |
| Debug tables (`game_base.hpp`, `IS_DEBUG`) | queues of test values | `pushnrandom`, `pushprng`, their use by `sgdicesecond` and `get_prng` | `Debug` |
| Example games (`src/examples/*/contracts`) | one table of rolls or rounds each | `on_new_game`, `on_action`, `on_random`, `on_finish` | `Stub`, `MultiStub`, `OddOrEven`, `ProtoDice`, `WinRaiseLose`, run by `Games` |
| Tester library (`game_tester.hpp`) | session id counters, the events of the last transaction | `push_action`, `new_game_session`, `game_action`, `signidice`, `close_session`, `get_events`, ... | `Tester` |
| Strategy executor (`strategy.hpp`) | the graph, the run's node and counter | `process_strategy`, `process_next_step` | `Strategy` |
| Casino, platform, events, token (`platform-contracts`, a git submodule that is absent) | balances, listings, bans, keys | called through inline actions and table reads | their effect on a session: `books` and `blocked` |
| cicd, cmake, `abi-merger.py`, `*.abi` | | build scripts, interface files | not modelled |

How they interact. A player transfers tokens to the game with the session id in
the memo; the token contract notifies the game, which opens a row or tops one
up. The platform pushes `newgame` (or `newgamebon`, which adds a bonus), and
`gameaction` for each move; anyone pushes the two signatures of a signidice
round. `newgame`, `gameaction` and `sgdicesecond` call the game's virtual
methods, and these call back into the SDK to name the next state. The contract
tells the casino of everything by inline actions: `newsession`, `sesupdate` (the
*change* of the largest possible loss), `sesclose`, `sesnewdepo`, `seslockbon`,
`sespayout`, `onloss` (pay this win), `sesaddbon` (pay this as a bonus). The signing
services and the player's client are told by events, which are inline actions too.
A test drives all of this through the tester, which looks at the events of the last
successful transaction; a strategy drives the tester.

What makes it hard:

- money is in three places (the contract, the casino, promised as a bonus) and is
  told apart only by what was sent; deltas must balance over every path;
- every step may be the last: a session can be left at any state, and `close`
  decides from state, `acted` and `last_max_win` who pays;
- actions come in any order and from anybody; signatures may be replayed;
- the listings, pauses, bans and the TTL change under live sessions;
- a transaction fails anywhere, after it already "sent" transfers.

What makes each component correct:

- contract: holds exactly the real deposits of the live sessions; the casino's
  counters balance; expired sessions are only closed, and always can be; a
  running session keeps its identity;
- settlement: pays the payout in full, nothing negative, pro rata;
- signidice: no random value twice, no signature good for two sessions;
- games: never ask the SDK for something it refuses once the signatures are in,
  always leave the player a move, keep their own row exactly as long as the session,
  pay what they announced;
- events: whoever follows them knows what is asked of whom, over which digest;
- PRNG and shuffle: every value in range, every permutation reachable;
- intx: exact arithmetic, whatever the operands;
- debug tables: a pushed value is played once or not at all, the last one first;
- tester and strategy: a session of its own for every test, what a test sees and counts
  is what happened, and a walk of a graph with cycles ends.

## 2. Modules

**`Settlement`** The arithmetic of the two settlement functions as operators
from a row to an `Outcome`: what the casino pays in tokens (`onloss`) and in
bonus (`sesaddbon`), what the game returns (`transfer`) and gives to the casino
(`casino_win`), and what it reports (`sespayout`). `ShareComputable` is the range
check of CDT's `asset`, whose `*=` checks the product before the division.

**`GameContract`** The contract. An EOSIO action is atomic, so an action without
game code is one step. Actions that call a virtual method are transactions:
`Begin` copies the row and its book into `tx`, each of the game's calls is a step
on the copy (`RequireAction`, `RequireRandom`, `UpdateMaxWin`, `FinishGame`),
`Return` commits, `Abort` drops everything. So the game is any program over the
SDK's calls, and a failing `eosio::check` anywhere rolls back. Nothing else runs
while `tx` is open, as on the chain.

| variable | code |
|---|---|
| `sessions` | the `session` table; a row keeps the fields that decide something, with `last_update` as the seconds since (`idle`) |
| `session_seq`, `session_ttl` | `global` |
| `books[id]` | what the inline actions sent for a session did elsewhere: tokens held, sessions open, max win locked, deposits reported |
| `rolls` | the digests already handed to `on_random` (history) |
| `receipt` | the settlement of the last step (history) |
| `blocked` | the listings that are off: game, casino, casino's game, token, params, banned player |
| `tx` | the running transaction |

A digest is the seed (`casino_id`, `ses_seq`, `player`; the game id is constant)
and the sequence of keys whose signatures were hashed into it: SHA-256 taken as
collision-free, and PKCS#1 v1.5 signatures as a function of key and digest.
`create_session` leaves `casino_id` and `acted` unset; `RawCasinoIds` and
`RawActed` are the values they may then have (the build zeroes memory, so the
runs use casino 0 and FALSE; the proofs hold for any, except that of
`LossNeedsOwnMove`). A game that returns from
`on_new_game` still in `req_start` is left out (`Return`), as the five examples
all leave it, which `Games` shows. Names, memos, parameters and the duplicate "legacy"
notifications are left out.

**`Events`** `GameContract` with what each action emits: `outbox` is what the running
transaction has emitted, sent when it commits and lost when it fails; `heard` what a
service that follows the events last heard of a session. A game's message asks nothing
of anybody and may come between any two calls.

**`Escrow`** The promise about money: per session, real tokens come in, stay
apart, and are divided once between player and casino. `GameContract` implements
it (`EscrowSpec`).

**`GameCalls`, `Stub`, `MultiStub`, `OddOrEven`, `ProtoDice`, `WinRaiseLose`** A
game is data: each callback maps the session's row and the game's own row to the
set of *codes* it may run over the client's inputs, and a code is the own row it
leaves and the SDK calls it makes, in order. What a client may send is a set
(`Params`, `Numbers`; action types and decisions directly); a roll is any value.
`prev_round_deposit`, `event_numbers` and the like keep what decides something.

**`Games`** runs them on `GameContract`: `game` is the deployed one, `own_table` its
table, `work` what is left of the running callback. `MakeCall` makes the next call,
`GameReturn` commits the contract's and the game's table together, `finish_game` and
`close` end in `on_finish`. A call the SDK refuses has no step, so `GameAbort` is
all that is left. `SdkSpec` says that this is a behaviour of `GameContract`.

**`Service`** `cut_to`, the generator and `shuffle`, with words of `W` bits and a
digest of four. `sha256` is any function: each hash is any digest.

**`Int128`, `Intx`** The integers under the generator, on words of `W` bits: `Int128`
is `uint128` as two words (the portable multiplication of words, `udivrem_2by1`,
`udivrem_3by2`, division), `Intx` is `uint256` as two of those. The operators are the
library's functions with every carry; the division of `div.cpp` is a state machine,
one step per loop iteration (`Normalize`, `By1`, `By2`, `Estimate`, `Subtract`), for
every pair of operands. `reciprocal_2by1` has the value its comment states.

**`Debug`** `Events` as the tests build it (`IS_DEBUG`): `debug` is the table of pushed
values, `global_debug` the copy the contract object holds from its constructor, which
reads, to its destructor, which writes unless the action failed.

**`Tester`** A test case on `Debug`: a helper is the list of actions it pushes (`plan`)
with the result it requires of each, `_events` what `get_events` looks into, `ses_id`
the static counter of each overload of `new_game_session`, `verdict` whether a
requirement failed. Any action may be refused. **`Strategy`** is the executor over it,
one action per function, with any action type at a node and any outcome of a condition.

**`MCMoney`, `MCSessions`, `MCSignidice`, `MCLive`, `MCGames`, `MCTester`** give the
constants.

**`GameContractProofs`** (with `Settlement`), **`SignidiceProofs`** (with `Events`),
**`GamesProofs`, `ServiceProofs`, `TesterProofs`** (with `Debug` and `Strategy`),
**`Int128Proofs`, `IntxProofs`** hold the proofs, **`Arithmetic`** the lemmas on numbers
that the last ones and `ServiceProofs` share.

Operators named `X_Fault` stand before the definition they vary (`PaidOut_BonusToo`
before `PaidOut`): a plausible slip of that code, which its property must catch.
They are used by no specification.

## 3. Runs

| run | instance | checks |
|---|---|---|
| `money` | one id used for two sessions, one player and casino, two tokens, amounts 1..2 up to a deposit of 4, payouts 0..6, max wins 1, 3, 6, TTL 1 s | `TypeOK`, the inductive `LedgerInv`, `EscrowExact`, `CasinoBalanced`, `BonusWithinDeposit`, `PaidInFull`, `ProRata`, `CasinoExposure`, `LossNeedsOwnMove`, `ExpiredOnlyCloses` |
| `sessions` | two ids, two players, two casinos, TTL 0 s | `IdentityFixed`, `EscrowSpec` |
| `signidice` | two ids, one player and casino, two rounds each, every signature offered to both, up to two events per transaction | `ListenersInformed`, `FreshRandom`, `DigestsDistinct` |
| `live` | one id, every switch toggling, TTL 0 or 1 set again at any time, under fairness | `NeverForgotten` |
| `games` | each of the five games on one id used twice, two tokens, one player, deposits 1..2 up to 6, TTL 1 s; `multi_stub` with up to two rounds and a largest type of 2; dice bets 1..6 where 2..3 is allowed, numbers 0, 1, 2, 51, 98, 99, 100 | `RandomAccepted`, `OwnRowsLive`, `MoveLeft`, `WinAsAnnounced`, `RoundsAsAsked`, `RaisesStake`, `SdkSpec` |
| `service` | words of 2 bits, every digest, range and hash, three cards, a counter that stops at 3 | `CutIsModulo`, `UniformDraws`, `EveryOrder`, `NoRepeat` |
| `intx` | four words of 2 bits: every pair of 8-bit operands, every shift; `uint128` also as two words of 4 bits | `WordArithmetic`, `HalfWidth`, `LoopExact`, `EstimateOneOff`, `DividesExactly`, `SignedTruncates` |
| `tester` | up to three helpers of a test case, or one and a strategy of up to two sessions with a limit of 2 on a graph with a cycle; two ids by either overload; two values pushed into each queue | `StrategyTypeOK`, `FreshSession`, `TestSeesOutcome`, `PlayedOnce`, `LastPushFirst`, `RunsAddUp`, `Terminates` |
| `other_token` | `multi_stub` as in `games` | `OtherTokenFinishes`, violated (section 6) |
| `casino_timeout`, `refund_limit`, `stake_report` | as `money`, `money` with `MaxAmount` 8, `sessions` | the statements of section 6, each violated |

What the new promises mean. `RandomAccepted`: a call that `on_random` makes and the
SDK refuses would waste both signatures. `MoveLeft`: at the player's turn some input
is accepted by game and SDK, else time takes the deposit. `WinAsAnnounced`: a win
paid is the one last told to the casino, on the deposit as it then is.
`CutIsModulo`: folding the halves loses nothing, `cut_to` is the whole digest modulo
the largest value of the type. `UniformDraws`: rejection leaves every value equally
many hashes and keeps more than half of all. `EveryOrder`: at every round of
`shuffle` every order of the cards not yet placed can still come about.
`ListenersInformed`: the last request a service heard is the one the session waits for,
with the digest to be signed. (A game may answer a move or a random value with no
request; the last one then stands.) `EstimateOneOff`: Knuth's digit is at most one too
large, so adding back once is enough. `LoopExact`: before every round the digits found
times the divisor, plus what is left, are the numerator. `DividesExactly`: the
library's own `*` and `+` put quotient and remainder together again, which the
generator's threshold `UINT256_MAX / delta * delta` needs. `FreshSession`: a test that
uses one overload of `new_game_session` always gets a session that was not there.
`TestSeesOutcome`: `game_finished` and the request of the platform's signature are
among the events exactly if the session is over, or waits for that signature over that
digest. `RunsAddUp`: the number `process_strategy` returns is that of the sessions
created, played and closed, with one more left open if it is less than asked for.

Bounds. `MaxDeposit` 4 with bonus 1..2 gives every relation of bonus, deposit and
payout the settlements distinguish (shares that divide and that truncate, payout
below, at and above the deposit, above the max win). A second `update_max_win`
and a deposit between two of them are within it. `MaxSessions` 2 is one reuse of
an id; `MaxSigns` 4 two signidice rounds. Time counts to `LongAgo`, one more than
the largest TTL: older rows behave the same. `Payouts` are not negative: the
token contract refuses a negative transfer. Symmetry is used over session ids and
players only, in runs without liveness. In `games`, deposit 6 allows three raises of
`odd_or_even`; numbers and rolls lie on both sides of every comparison; `Payouts` and
`MaxWins` contain every amount a game computes. In `service` four 2-bit words have
ranges that divide 2^8 - 1 and ranges that do not; wider words only repeat this. In
`intx` words of two bits meet every branch of the division: one, two and more words, a
shift of none and one, equal leading words, a digit one too large, a borrow added back;
`HalfWidth` repeats it with words of four bits. Two events let a request stand before
another or before a message. In `tester` three helpers are a session, a move and a close
(or two sessions), two pushed values an order; a strategy may follow one helper, its
helpers are not counted, two runs are one after another, and a limit of 2 is reached
inside the graph's cycle. The proofs do away with all of these
bounds for the properties they cover.

Fairness. Seconds pass whatever transactions run between them (`SF` on `Tick`);
a transaction ends or is cut by the chain (`WF` on `Return` or `Abort`); `close`
needs no authority and is pushed again and again by whoever wants the deposit back
(`SF` on `Close(id)`). No fairness is assumed of players, platform, casino or
game. The tester is one thread: a helper that runs and an executor that runs go on
(`WF` on the chain's steps and on `Execute`), and nothing says that a test calls one.
Deadlock is checked in every run but `intx`, where a division ends, and `tester`, where
a test case ends.

## 4. Proofs

All for any sets of sessions, players, casinos, tokens, amounts and TTLs, from
the named assumptions `MaxAmountAssumption`, `SetsAssumption`,
`BoundsAssumption`, `GamesAssumption` for the games,
`TesterAssumption` and `StrategyAssumption` for the tests, `ServiceAssumption` for the
generator, `WidthAssumption` for its integers.

- `WinPays`, `LossPays` (`GameContractProofs`): a settlement pays in full and pro
  rata. They rest on `ShareBound`: the truncated share lies between 0 and the
  bonus, and multiplied back differs from `amount * bonus` by less than the
  deposit.
- `TypeCorrect` (`GameContractProofs`): `TypeOK`, one lemma per action.
- `LedgerSound` (`GameContractProofs`): `LedgerInv`. `EscrowExact` and `CasinoBalanced`
  are not inductive by themselves: a transaction commits its copy, so the copy
  must be as sound as a row (`Sound(tx.row, tx.book)`); `sesclose` is sent exactly
  when the state is not `req_start`, so "started" (the row has a seed) must agree
  with the state; and `newgamebon` assigns `bonus_deposit` and overwrites
  `casino_id`, which is right only because an unstarted row has neither bonus nor
  max win. From it follow `EscrowIsExact`, `CasinoIsBalanced`,
  `BonusIsWithinDeposit`, `SettlementsPayInFull`, `SettlementsAreProRata` and
  `ExposureIsBounded`.
- `SignidiceSound` (`SignidiceProofs`): `SignInv`, from which `RandomIsFresh` and
  `DigestsAreDistinct` follow. That a random value was not used before says nothing
  of the next signature; what is inductive is where digests come from. A live
  session's seed is its own number, below `session_seq`, and no two share one; every
  digest used is of a number given out and, if that session lives, no longer than its
  digest is now. So the next signature makes a digest longer than all that were used
  of its session. While `on_random` runs the same is said of the transaction.
- `TransactionsFollow` (`GameContractProofs`): `SessionInv`. An action with game code
  replaces a row only when it commits, after any number of calls, so what a commit may
  do is decided while it runs: the stored row has not expired, and the transaction's
  row, or the row it has settled, has the same escrow and keeps its identity. From it
  every step is `Lawful` (opens, tops up, starts, settles or leaves a session), and
  `IdentityIsFixed`, `ExpiredIsOnlyClosed` and `ImplementsEscrow` follow; the last is
  the refinement, initial states and every step. `LossNeedsMove` assumes in addition
  `RawActed = {FALSE}`: a row made in memory that is not zero might say that its player
  has moved.
- `EventsAddNothing` (`SignidiceProofs`): a behaviour with events is one of
  `GameContract`, so that these theorems hold of it (`RandomIsFreshWithEvents`,
  `EscrowIsExactWithEvents`).
- `ListenersAreInformed` (`SignidiceProofs`): `ListenersInformed`, from `EventsInv`.
  Inside a transaction what counts is what would be heard if it ended now, the events
  emitted so far on top of those heard before (`Hear(heard, outbox)`), and that is not
  always informed: `on_new_game` owes a request as long as its row is `req_start`, and
  while `on_random` runs the last request may be over the digest just rolled. The
  invariant says exactly where a running transaction may be behind (`Underway`), and the
  SDK lets none of those commit. `Hear` is stated by the place of the last request in the
  list, not by recursion, so that no induction over a list is needed.
- `GamesUseTheSdk` (`GamesProofs`): `SdkSpec`, where a game may name any amount
  (`Payouts` and `MaxWins` are `Nat`). Each game's codes are shown to hold legal calls
  only (`StubOK`, ..., `ProtoDiceOK`, which needs the own row's number to be in 1..99),
  and `on_new_game` to ask for an action or fail. So the theorems above hold of the
  contract with each game on it (`GamesHoldTheDeposits`). `OwnRowsLiveWithSessions` is
  `OwnRowsLive`, strengthened by what a running callback keeps: once `finish_game` was
  called nothing is left of the own row, and `stub` never has one.
- `WinsAreAsAnnounced`, `MultiStubPlaysAllRounds`, `OddOrEvenRaisesStakes`,
  `RandomIsAccepted`, `PlayersCanMove` (`GamesProofs`): all from `PlayInv`. A game's own
  row and the SDK's row are two records that only its code keeps in step, so the
  invariant lists the positions the two can be in together (`Position`: `MultiStubAt`,
  `OddOrEvenAt`, `ProtoDiceAt`, ...), and of a running callback that the calls still to be
  made lead, one by one, to such a position or to a payout that was announced
  (`Playing`). Payouts and max wins are any naturals. The last two theorems assume
  `SmallAmounts`: `MaxDeposit * (MaxDeposit + MaxPayout) <= MaxAmount` and
  `2 * MaxDeposit + MaxPayout <= MaxAmount`, the products and sums of a settlement. With
  `MaxAmount` 2^62 - 1 this holds for deposits and wins up to a billion units; above it
  finding 2 of section 6 shows that it is needed. `PlayersCanMove` assumes in addition
  `LegalInputs`: that what the games may be sent contains a legal input, which any set of
  all inputs does.
- `TestsSound` (`TesterProofs`): `TestsInv`, the ledger and event invariants with five of
  the tests' own.
  `PlanInv`: what a helper has still to push is of its session, and only its last
  action enters game code, so a running transaction is that action.
  `ExecutorInv`: a run has its session open until it is closed, so the returned count and
  the open session add up (`RunsAreCounted`), and the counters fit (`TestsKeepTypes`).
  `DebugInv`: each queue of the table increases, and splits the values pushed with those
  played; the object's copy and what its callback was given split the table in the same
  way, so that a commit moves values and a failure returns them
  (`ValuesArePlayedOnce`, `LastPushIsFirst`).
  `SeenInv`: the outbox of a running transaction already tells what its row is
  (`TestsSeeTheOutcome`).
  `FreshInv`: every live session has a number below the counters or is being opened, and
  how far the new one is (`Stage`), from which `SessionsAreFresh` follows.
  `TestsPlayByTheRules` is the step from tests to the contract: a test case is a
  behaviour of `EventsSpec`, so every theorem about the contract holds in every test.
- `GeneratorNeverRepeats` (`ServiceProofs`): `NoRepeat`, as the counters already
  mixed are exactly those below the counter, and the check stops it before it wraps.
- `CutKeepsEveryBit`, `DrawsAreUniform`, `EveryOrderComes` (`ServiceProofs`), for words
  of any width. The provers know nothing of `2^W`; what is used of it comes from the
  number of subsets (`FS_SUBSET`): that it doubles, adds exponents, and that `2^b - 1`
  divides `2^(b * n) - 1` (`LargestDivides`). With that, folding the halves of a digest
  changes it by a multiple of the divisor (`FoldKeeps`); the digests taken are whole
  residue classes of the same size (`Threshold`, `ClassSize`); and the orders still open
  solve the recursion of `Outcomes` and are its only solution (`OutcomesRecur`,
  `OutcomesOpen`), a round of `shuffle` opening each of them (`OpenMore`). Induction is
  over a set of numbers (`NatInduct`: no least number out of it), not over an operator.

- `WordsAreNumbers` (`IntxProofs`): `WordArithmetic`, for words of any even width. Every
  operation is first shown of two limbs in any base (`Arithmetic`: a carry or a borrow is
  the comparison that finds it, `SumWraps`, `DifferenceWraps`; a high limb that wraps is
  the whole number wrapping, `ModLimbs`; the two halves of a shift, `UpByPart`,
  `DownByPart`; the product, `ProductByLimb`), then of `uint128` in base `B`
  (`PlusIs`, `ShlIs`, ...), then of `uint256` in base `B * B` (`AddIs`, `ShiftLeft`, ...).

- `LoopsAreExact`, `GuessesAreClose`, `DivisionIsExact`, `SignsComeBack` (`IntxProofs`):
  `LoopExact`, `EstimateOneOff`, `DividesExactly` and `SignedTruncates`, from `IInv`.
  `LoopExact` is not inductive: it does not say that the words stay words, that a digit
  not yet found is still zero, that the divisor's top bit is set (what makes a guess from
  the leading words close) or what the pending guess is worth. `IInv` adds these: once
  normalized, the operands are `x` and `y` times the same power of two (`Normalized`),
  and between two steps of a loop `Exact` holds, with the guess, if one is pending, the
  digit or one more (`OneOff`). The division by a word and by two words rest on
  `Divide2by1` and `Divide3by2` (`Int128Proofs`: the reciprocal's digit is at most one
  off before it is corrected); Knuth's guess on bounds of what the words it does not read
  can add (`GuessLarge`, `GuessFits`); `MultiplySubtract` and `AddBack` on invariants of their rows, by
  induction over the words (`NatInduct`).

- `HalvesAreNumbers` (`IntxProofs`): `HalfWidth`. The property takes `Int128` with words
  of `2 * W` bits, so it rests on `Int128Proofs` instantiated in the same way (`Doubled`):
  `Divide128` has a lemma for each of the four ways of `udivrem` (`ByOneWord`, `ByMore`,
  `ByHalf`, `ByTwoWords`), of which the first and last shift divisor and dividend until
  the divisor's top bit is set, lose nothing by it (`NothingLost`) and shift the
  remainder back (`Unshifted`); `PortableIs` carries four products of half words
  (`HalvesTimes`); `ClzIs` places the leading bit.

Every invariant and action property of the passing runs is thus proved, three of them
under the further assumptions named above (`RawActed`, `SmallAmounts`, `LegalInputs`); only
model-checked are the two liveness properties, `NeverForgotten` and `Terminates`, which
are out of the prover's reach.

## 5. Not modelled

Memo parsing and symbol precision: a transfer that names no session or a wrong symbol
fails and changes nothing. The contents of casino, platform and token contracts,
which are not in the repository: that they may refuse any notification is `Abort`
(and a step not taken); removing a casino or token altogether while sessions are
live is not modelled. `init` naming another platform. The dispatcher's routing by
code, receiver and action name, which keeps no state: an unknown action ends in
`eosio_exit(1)`, and a transfer of any code reaches `on_transfer`.

Of `intx`: `uint512`, conversion to and from text, `exp`, the byte-order functions, the
loop variants of addition, shift and multiplication, and signed division of `uint128`,
none of which the SDK uses; and the table and Newton rounds of `reciprocal_2by1`, which
have constants for 64 bits and no counterpart in a narrower word.

Of the tester: keys, accounts, token set-up and the getters, which keep no state of
their own. A `BOOST_TEST` inside a helper (that a deposit is positive) is a guard of it.
`service::PseudoPRNG` beyond which values it was given, and `split`, which nothing uses.
Build scripts.

## 6. Where the code differs from what it says

1. `casino_timeout` (`CasinoPaysTimeout`). "If casino doesn't provide signidice we
   assume that casino lost" (`game_base.hpp:521`); but `close` pays
   `last_max_win` through a function that refuses 0 (`:263`). A game that never
   calls `update_max_win` (`stub`), or a bet whose payout is the deposit
   (`proto_dice`, number 1), is then stuck for ever with its deposit.
   `NeverForgotten` excepts exactly these rows (`Unpayable`).
2. `refund_limit` (`RefundPossible`). "If platform doesn't provide signidice we
   refund deposit to player" (`:529`); but the product `payout * bonus` is
   checked against 2^62 - 1 before it is divided (`:286`), so an all-bonus deposit
   over about 215 thousand BET cannot be refunded or closed. The run shows it with
   a maximum of 8.
3. `stake_report` (`StakeReportedToHost`). The first deposit is reported to the
   casino of the row's unset `casino_id`, "here we haven't info about casino"
   (`:527`), not to the one the game is started with.
4. `other_token` (`OtherTokenFinishes`). `multi_stub_tests.cpp:146`
   (`new_session_token_test`) opens a `multi_stub` session of 5 KEK; but its last
   `on_random` calls `finish_game(zero_asset)`, an asset in BET, which the SDK refuses
   for that session. `stub` does the same. The session then expires, and case 1
   keeps it from being closed.

Not a finding of a run, but met while modelling: the two overloads of
`new_game_session` (`game_tester.hpp:384` and the one with a bonus) count ids
separately, so a test that uses both may be given a session that is there already;
`win_raise_lose_tests.cpp:190` and `:194` both use id 0 when that test runs alone.
`FreshSession` is about tests that use one of them.

## 7. Plan

1. (done) `Settlement`, `GameContract`, `Escrow` with their runs and proofs.
2. (done) The example games on the SDK: `Games`, and that they use it as it allows.
3. (done) `Service`; the integers under it, `Int128` and `Intx`.
4. (done) `Events`, `Debug`, `Tester`, `Strategy`.
5. (done) Proofs: signidice, sessions and the refinement, events, games.
6. (done) Proofs: what listeners know, what the games play, and the tests.
7. (done) Proofs: the generator, `cut_to` and `shuffle`.
8. (done) Proofs about the integers: carries and products, division by a reciprocal,
   the loops of the division.
9. A removed casino or token as a third value of a listing, under which notifications
   fail too, with the liveness that is then left.
