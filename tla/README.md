# Verification of pypeerassets

pypeerassets is a library that reads token decks and card transfers from the chain of a
peercoin-like coin. Nothing but the chain is stored: whoever wants to know a balance, a valid issue
or the state of a proposal parses the chain and computes it again, and all wallets have to come to
the same result. This directory holds TLA+ modules of the parts that compute these results, TLC
configurations that check them on small instances, and TLAPS proofs of what matters most for every
value of the constants.

Paths like `protocol.py:607` are below `src/pypeerassets/`.

## 1. The system

### Components

| Component | State | Operations | Module |
|---|---|---|---|
| Token ledger, `DeckState` (protocol.py) | balances, supply, burned, locks per holder, the cids seen and the valid cids | `calc_state` over a card list: issue, transfer, burn, lock, unlock, expiry, cleanup | DeckState, TokenLedger |
| DT parser (at/dt_parser.py, dt_parser_state.py) | epoch, valid cards of the epoch and before it, bundles, issued claims, proposals' decisions, voters | the loop over cards and epochs, `epoch_init`, `check_card`, `epoch_postprocess`, `process_cardless_epochs` | DTParser |
| Voter weights (at/dt_parser_utils.py) | weight per address, for the SDP token and the deck's own | `update_voters`, SDP weight schedule | Voters |
| Rewards of claims (at/dt_states.py) | distribution factor of a proposal, rewards of donation states and proposer | `set_dist_factor`, `set_proposer_reward`, `set_reward` | Rewards, DTParser |
| Bundles (at/extended_utils.py) | a generator with one position shared by all transactions | `get_issuance_bundle`, `process_cards_by_bundle` | Bundles |
| AT parser (at/at_parser.py) | valid bundles, used claims, valid cards | `at_parser`, `check_donation`, `is_valid_issuance` | ATParser |
| Card typing and issue modes (protocol.py, card_parsers.py, at/extension_protocol.py) | the list handed from parser to parser | `CardTransfer.__init__`, `card_bundle_parser`, `validate_card_issue_modes` and one parser per mode | IssueModes |
| Deck discovery (\_\_main\_\_.py, at/protobuf_utils.py) | a pool of two threads, one message object for all | `find_all_valid_decks`, `deck_parser`, `parse_protobuf` | DeckDiscovery |
| Proposal schedule (at/dt_states.py, dt_periods.py) | rounds, epochs and time lock of each proposal | `get_proposal_states`, `set_rounds`, `modify`, `get_period_dict`, `period_query` | ProposalRounds |
| Donation states and slots (at/dt_states.py, dt_slots.py, dt_entities.py) | transactions and amounts per round, donation states, used addresses, chosen successors | `set_donation_states`, `_validate_basic`, `_validate_priority`, `get_slot`, successors | Donations |
| Tracked transactions (at/dt_entities.py, ttx_base.py) | attributes of one transaction | constructors, successors, donor address | Assembly, and in ProposalRounds and Donations |
| Retrieval of marked transactions (at/dt_parser_utils.py, dt_parser_state.py) | pages of a node's list, read account by account | `get_parser_state`, `init_parser`, `get_marked_txes`, `get_tracked_txes`, `find_card_bundles` | TrackedTxs |
| Transaction assembly (at/dt_misc_utils.py, \_\_main\_\_.py, provider/rpcnode.py) | - | `create_unsigned_tx`, `card_transfer`, `select_inputs` | Assembly, TrackedTxs |
| Classic voting (voting.py) | - | votes by tagged transactions | not modelled |
| Keys, networks, other calls of providers, generated classes | - | pure functions and I/O | not modelled |

### How they interact

`find_all_valid_decks` finds decks. `find_all_valid_cards` asks a provider for the transactions of a
deck, types their cards (`CardTransfer`) and hands the list to `validate_card_issue_modes`, which
chains one parser per mode. For a custom deck that is `at_parser` or `dt_parser`; both get the list
through `process_cards_by_bundle`, and both ask the provider again while they walk over it. The DT
parser keeps a `ProposalState` per proposal, which computes its donation states when the first claim
for it is met, and the voters' weights, which follow the cards found valid so far. Before that,
`init_parser` has read all tracked transactions from the node, one P2TH account after the other; they
were made by `create_unsigned_tx` in somebody's wallet, and nothing but the position of an output says
what it is for. The valid cards go to `DeckState`, which computes balances and locks. An application repeats all of it whenever it
wants to know something; the chain has then grown.

Everything but deck discovery is sequential. What is hard is therefore mostly:

- sequences of legal cards: locks made, spent, released and expired in any order on one holder;
- lists and sets that have to agree (bundles by txid, claims by tuple; successors by txid and by
  object) over several cards, transactions and epochs;
- state computed at one moment and used at another: weights, epochs, the flag `epoch_initialized`;
- a chain and a node's list that grow between the pages of one account, between the accounts, between
  the listing of the cards and the look-up of a donation, and between two parses whose results people rely on (time locks, slots, decisions);
- exceptions that one transaction raises and that are caught far away, or nowhere;
- integer limits: divisions of epochs and slots, truncation, lock types out of range.

`PROJECT.json` lists each of these under "hazards", at the line where it bites.

### What makes each component correct

- ledger: supply equals balances; locked tokens are there; a repeated card counts once; expiry and
  unlocking, lazy and in loops, are not visible from outside;
- AT and DT parsers: a donation or proposal is rewarded once, in full, not before it is due, to who
  is entitled; a later parse does not take back what an earlier one found;
- voters: votes weigh tokens that were issued and not spent twice;
- issue modes: modes combine, and cards stay what and where they are;
- discovery: each deck with its own data;
- retrieval: each transaction once, in the order of the chain, with those it follows from; a wallet's
  transactions are read as they were meant, and no coin is lost;
- schedule: each block has one period, rounds lie in their epochs, what donors have locked their
  coins for does not move;
- donations: never more than the requested amount, one state per donor, reserved before signalled,
  and a slot once given stays.

## 2. The modules

| Module | Models |
|---|---|
| Sums | sums over finite sets, defined by cardinality so that facts about them can be proved without induction over data |
| DeckState | `calc_state`, card by card; the loop of `_unlock_amount` lock by lock |
| TokenLedger | abstract: an account ledger with claims that expire and are released at once |
| DeckStateRefinement | the refinement mapping from DeckState to TokenLedger |
| DeckStateProofs | theorems about DeckState, among them that it implements TokenLedger |
| Bundles, Voters | functions on card lists, used by the parsers |
| Rewards | what a claim of a DT deck is worth, with quotients of limited precision |
| ClaimsLedger | abstract: claims that fall due and are settled once; ATParser and DTParser implement it |
| Sublists | the part of a list that a condition leaves, defined by cardinality as Sums is |
| CollectionsTheorems | facts about sums, recursion over lists, parts of lists and bundles, used by all proofs |
| DTParser, DTParserProofs | `dt_parser` with `ParserState`; theorems |
| ATParser, ATParserProofs | `at_parser` over a growing chain; theorems |
| IssueModes, IssueModesProofs | from transactions to valid cards; theorems |
| DeckDiscovery | the thread pool and the shared message |
| Assembly | the outputs of tracked transactions and card transfers, the choice of inputs, and what the constructors read from outputs |
| TrackedTxs, TrackedTxsProofs | wallets, a node with its list and chain, and a parser that reads the list, composed; theorems |
| ProposalRounds, ProposalRoundsProofs | proposals, modifications and votes in blocks; theorems |
| Donations, DonationsProofs | `set_donation_states` for one proposal, parsed again as the chain grows; theorems |
| MC* | constants of the small instances |

Operators named `Bug_...`, commented "Mutant", stand before the definition they are a broken form
of. Nothing uses them; a property that does not fail with the mutant in place of the definition would
say nothing about the code.

### State and actions against the code

**DeckState.** The variables are the attributes of the class; `processed_*` are its cid sets, `locks`
maps the stamp of the card that made a lock to the lock (the code has lists per holder in the same
order). `ReadNew` and `Reread` are one iteration of the loop in `calc_state`, with all that `_process`,
`_check_locks`, `_add_lock` and `_cleanup_locks` do for the card; `Unlock` is one turn of the `for` loop in
`_unlock_amount`; `Finish` is the final cleanup. `pc = "raised"` is the `NotImplementedError` of
`hash_to_address`. The card list is the input, revealed card by card. `flow` and `burnt` are history
variables, of what the first readings of cards should do to each balance and to what is burned; no
guard reads them.

**TokenLedger.** `claims[a][g][t]` is what of a's tokens can only go to g until block t. A claim is gone
when t has passed, and a payment to g uses up claims, those that end first before others. The
mapping (`ClaimsOf`) sums up the locks that count, drops the expired ones, and takes off what a release under
way has still to take off. `Heights` are the blocks of cards and of the cleanup, which moves time on as a
card does.

**DTParser.** `Read` reveals the next transaction; `EnterEpoch` is `epoch_init`, `Card` the checks of one card,
`TooEarly` the cards before the deck, `Postprocess` and `Cardless` the two ways forward between epochs,
`EndLoop` what follows the loop, `Continue` force_continue. Votes and proposals are in `chain`, chosen in
Init. `last_processed_position` is the generator's position; `NextCard` moves it with the card. `RewardOf` is
the reward of a claim whose proposal shares an epoch's reward with a set of others (`sharing`); proofs
take any such function, the instance the one of Rewards.

**Rewards.** The code multiplies quotients that were rounded before: Decimals half to even at
`getcontext().prec` digits (provider/rpcnode.py:9 sets 15), and for the proposer's share a float. A fraction
is a pair of integers. A third of 3 units is 0 units, as 0.333... times 3 is less than 1; and where
quotients are rounded up, rewards can add up to more than the proposal's part.

**ClaimsLedger.** Claims fall due, and are settled once, for all they are worth or for nothing. For the AT
parser a claim is a donation, due when it is confirmed in time, settled and issued by what the last
parse found valid. For the DT parser it is a sender with a donation or proposal, due when the reward
of the epoch is shared out (`sharing`), settled when its tuple is used, and issued by the valid cards and
those still to come of a valid bundle.

**ATParser.** `Block` mines a transaction to the deck and confirms donations; `Start` lists the cards;
`BundlePart`, `Duplicate`, `ValidIssue`, `InvalidIssue` and `Other` are the branches for one card, `Return` the end.
`Block` can come between any two. `Advance` is what the generator does when the next card is asked for.

**IssueModes.** `List` is `card_bundle_parser` on one transaction, `ListMismatch` the exception nobody catches,
`Validate` the head of `validate_card_issue_modes`, `CustomParser`, `CustomFallback`, `Once`, `Multi`, `Mono`,
`Unflushable` and `Unknown` one mode each.

**DeckDiscovery.** Per thread `Take`, `ParseOther`, `ParseFails`, `Parse` (decode into the shared message) and `Copy`
(read it); `Yield` is the generator.

**ProposalRounds.** `Submit` puts a proposal transaction or modification on the chain, by anyone; `Mine` lets the
height and the votes move on; `Parse` is `get_proposal_states` with all that follows up to the decision.

**Donations.** `Mine` and `Pass` are the chain. A parse is `Begin`; for each round `OpenRound` or `PriorityRound`, the
candidates who might take part, of whom `Validate` judges one at a time in the order of the chain (`todo` are
those left, and `Earliest` is the next): each that is accepted uses up its donor's address for those after
it; `NoSlot`, `NotLocked`, `Lock` or `Give` for each of those who do take part; `Raise` or `End`. Shares of slots are
divided at 28 digits, as the code's Decimals are: `Lossy` are the shares that lose a unit by it, and
`LossyAssumption` says that such a share was at least 1. Objects and their copies (`deepcopy` at dt_states.py:326) are told apart, as an attribute set on
one is not set on the other.

**Assembly, TrackedTxs.** `SendTracked` is one call of `create_unsigned_tx`, with named or selected inputs, whose
result is sent; `SendCard` one of `card_transfer`. A transaction is its kind, its inputs and outputs, the
transaction it refers to, and the arguments it was made of (`asked`, which no reader sees). `listed` is the
node's list of each account, `blocks` the chain; `Mine` puts pending transactions into a block, after those
they spend. A parse is `Begin` and `ListCards` (`get_parser_state`), then for each account `NextPage` and
`LastPage` (`get_marked_txes`, with the constructors and `get_tracked_txes` on the last one), or `PageFails`.
The node answers one call at a time; everything else can come between, but for `ListCards`, whose two
calls (the list, then its transactions in a batch) are one step. Four history variables, which no guard
reads, remember what was `known` when the parse began, the accounts `torn` by a block between two pages,
what the parse before has read (`last`) and where that was torn (`gaps`).

## 3. The runs

Each run answers one question. Bounds are the constants of the configuration; the named bounds of the
modules (`MaxCards`, `MaxBlock`, `MaxTxs`, `MaxHeight`, `MaxPtxes`, `MaxEpoch`, `Spawns`, `Heights`, `Places`,
`MaxCoins`, `MaxBlocks`) only stop the input from growing. Most configurations say `CHECK_DEADLOCK FALSE`: the
program ends, or the chain of the instance is complete. The AT parser and the one of TrackedTxs can
always parse again, so their runs check deadlock.

| Run | Question | Instance | Distinct states |
|---|---|---|---|
| deckstate_ledger | Does `calc_state` give what an account ledger would, with balances and locks that agree? | issuer and two holders, four cards, amounts 1 and 2, lock times 1 and 2, address locks, blocks 1 to 3, cleanup at block 2; symmetry of the two holders | 59 680 |
| deckstate_types | Does each card count once, also in custom decks and with odd lock types? | three cards, each perhaps listed twice, lock types 1 (yields no address), 2 (an address), 4 (raises), 6 (out of range) | 43 592 |
| dtparser_claims | Are rewards given once, in time, in order and within a proposal's part, as a ledger of claims would, and do votes weigh tokens? | two addresses, two proposals that end together, apart or fail, one donation, three of nine transactions, one of them a transfer of two cards, epochs 1 to 5, the chain ends in 4, Decimals of 3 digits, floats of 11 bits | 642 750 |
| atparser_claims | Is a donation claimed once and rightly while the chain grows under the parser? | two donations, six transactions, four blocks, deck blocks 2 to 3, factor 3/2 (4.5 units are cut to 4) | 2 190 989 |
| modes | Do modes combine, and is what they leave in order? | all 64 sets of modes, an AT deck, three of eight transactions with up to two receivers | 144 647 |
| tracked_txs | Is what wallets send found once, with its predecessors, again in later parses, and read as it was meant? | proposer, donor and another signaller, who may send data that do not decode; up to five of signal, lock with reserve, donation, claim; pages of two entries, the donor's transactions listed twice; two blocks besides the first; fees 1, least output 2 | 348 270 |
| rounds_schedule | Do rounds and periods fit into epochs and stay? | epochs of 30 blocks, two transactions, two senders, heights at the first and last blocks of epochs and of the voting period | 63 031 |
| donations_rounds | Are slots within the request, by priority and final? | three donors and the proposer, up to six of twelve transactions, request of 3, parsed after each transaction and at each place | 676 806 |
| dtparser_skipped, discovery_race, rounds_modified, donations_raised | findings, section 5 | | |

Why the bounds are enough: a ledger hazard needs a lock, a second lock or transfer around it, and a
card that expires or releases it, which are three or four cards; bundles need a transaction with
three cards so that one is neither first nor last; a claim needs a rival before or after it, and a
third card to move the epoch on. Pages of two entries and an account with three give a second page,
and with two a full last one, after which an empty one is asked for; two blocks are enough for one
before a parse and one during it, or between two accounts. The coins are such that change is 0, just
enough for an output, more, and too little. Epochs of 30 blocks leave two blocks over in the division by 28,
and make the security period its minimum of two units. Six transactions are signal, lock and
donation of two donors, or of one donor with its reserve in the next round. (1, 3, 3) is the one
division up to 3 that loses a unit at 28 digits. 3 digits and 11 bits stand for 15 and 53, since TLC's
integers have 32 bits. A third is rounded down by all of them. Four roundings, each by half a unit of the
last digit at most, add up to a part of 2 * 10^(1 - digits): less than a unit of a reward of 6 with 3
digits, and of rewards below 5 * 10^13 with 15.

### The properties

- `Conservation`, `CountedOnce`: the checksum of DeckState, and that a card listed twice counts once,
  whatever its type: each balance is what the different cards bring and take that were not refused
  when first read, and what is burned is what the different burns say.
- `LocksBacked`, `UnlockBacked`: a holder's locks never exceed its balance; inside the unlock loop the excess
  is what is still to unlock, due to locks that match the payment. Locks that only a burn can use
  are left out, see section 5.
- `ImplementsTokenLedger`: the refinement. Lazy expiry, the sort in place, the walk from the last index
  while deleting and the cleanup are not visible.
- `RewardedOnce`, `NotBeforeTheEnd`, `InChainOrder`, `TransfersKept`: what comes out of the DT parser, whatever
  bundles and repetitions went in.
- `TotalReward`: the rewards of a proposal add up to its exact part of the epoch's reward, or to less than
  one unit more.
- `ImplementsClaimsLedger` (AT and DT parser): the refinement. Bundles, repeated claims, two lists of what
  was claimed, growing chains and later parses are not visible.
- `BundlesFound`: the generator's position, shared by all transactions, finds each bundle once.
- `WeightsAreTokens`: nobody's votes weigh less than nothing, and all together no more than the tokens
  issued, less at most what was burned: three ways out of an epoch hand each card to `update_voters` once.
- `ClaimedOnce`, `IssuedAsEntitled`, `ClaimsAreDue`, `HonestClaims`: over all parses, bundles and orders of
  confirmation; the last one says that others' wrong claims do not spoil a right one.
- `NoHangingCards`: a later parse only adds to the end of what an earlier one found.
- `ModesCombine`, `Subsequence`: the chained parsers leave what each mode alone would allow in the whole
  list; order and identity of cards are kept.
- `FoundOnce`: pages are counted from the newest entry, so entries move from page to page; still each
  transaction that was confirmed when the parse began is read, and none twice.
- `PredecessorsRead`: `init_parser` reads its accounts while the chain grows, but in the one order in which
  it never has a donation without its lock, a lock without its signal, or a card without its donation.
- `LaterParsesKeepAll`: what one parse has read, the next one that ends reads too, although entries have moved
  to other pages, whatever the block times are.
- `LaterParsesAppend`: with block times that increase, a later parse adds to the end of a proposal's lists
  what was mined since, unless a block came between two pages of the earlier one.
- `AskedIsRead`: amounts and reservations come back from the outputs as they were asked for.
- `CoinsKept`: what is not in the outputs is the fee, and less than a least output of change.
- `ParseEnds`: the loop over pages ends.
- `OnePeriodPerBlock`, `RoundsInEpochs`, `LockedUntilPhaseTwo`, `PhaseOneKept`: the schedule of a proposal, at
  every block and over all later parses.
- `WithinRequest`, `OneStatePerDonor`, `ReserveFirst`, `SlotsKept`: slots over eight rounds and between parses.

### Fairness

In TrackedTxs the parser is one thread that goes on as long as the node answers:
`WF_vars(Parse)`; wallets and blocks are not fair, nor is `Begin`, since nobody has to parse. `ParseEnds` holds
as the list stops to grow, which `MaxTxs` stands for; an account that always grows by a page between two
calls would be read for ever. In DeckDiscovery each thread of the pool runs on (`WF_vars(Worker(w))`) and the
consumer takes all decks (`WF_vars(Yield)`); its run checks safety only, as do the other modules.

## 4. The proofs

tlapm checks all of it with Z3, Zenon and LS4. The assumptions are the named `ASSUME`s of the modules.

**Sums.** A sum of `f` over `S` is the number of pairs of an element x and a unit in `1 .. f[x]`. The facts about
sums (type, adding and removing an index, union, subset, comparison, grouping by a key in `SumByKey`) then
follow from those about cardinality. A recursive definition would have needed induction.

**Sublists.** What a condition leaves of a list are the elements at a set of positions (`Only`); the n-th of
them is at the position up to which there are n. That they are all there, each once and in order
(`OnlyLists`), is a matter of cardinality again (`EachHasPlace`).

**Bundles.** The last card of a bundle is defined as a least counterexample, so that `BundleEnds` (all cards up to
it belong to it, the next one does not) needs no induction. In a list whose transactions are contiguous,
which the chain's are, a bundle is all that is left of a transaction (`BundleOfTransaction`). The generator
that both parsers get their cards from remembers one position for all transactions (`Remembers`); it is
enough, since whoever is at the first card of a transaction finds all of it, and behind the first card
nothing (`BundleFound`, `RemembersNext`).

**DeckState.** `TypeCorrect` (no number is negative), `SupplyConserved` (`Conservation`), `LockedTokensAreThere`
(`LocksBacked`) and `UnlockingIsCovered` (`UnlockBacked`). `LocksBacked` alone is not inductive: in the unlock loop
tokens have left and locks have not. The invariant is `TypeOK /\ LocksBacked /\ UnlockBacked`; `UnlockBacked` bounds
the excess by the rest of the payment and says that the locks which do not match are backed without it.
A transfer with no spendable rest enters the loop with this (`TransferBacked`, from `_check_locks`), each turn
keeps it (`WholeBacked`, `PartBacked`), and when it ends the excess is 0 or nothing matching is left
(`EndBacked`). `RepeatedCardsCountOnce` (`CountedOnce`) compares balances and `burned` with `flow` and `burnt`, which only first
readings change. It needs `ReadOnce`: the card that may be listed once more was read at this height, and
its cid is in the set that will be asked, unless the walk has ended.

**DeckState implements TokenLedger.** `DeckStateImplementsLedger` is the refinement: the initial state maps to the
ledger's, and each step to one of it or to a stutter. The invariant (`RefInv`) is the types, `ReadOnce` and
`WalkOK`: heights and lock times stay within the ledger's, and no release is under way outside the unlock
loop. The mapped claims of a release under way are those that the ledger will have after all of it, so
the step that enters the loop is the ledger's payment, and each turn of the loop a stutter: what one lock
loses and what is still to take go down together. Lock lists map to sums per account, receiver and end,
and `SumByKey` shows that what the code withholds is what the ledger does.

**ATParser.** `TypeCorrect`, `OneTransactionClaims` (`ClaimedOnce`), `ValidClaimsAreDue` (`ClaimsAreDue`) and
`DonationsAreIssuedOnce` (`IssuedAsEntitled`). The duplicate check is by tuple and the bundle check by txid, so
the invariant relates the two lists: each valid issue's tuple is used (`UsedCovers`), each valid bundle has
a valid issue (`BundlesSeen`), and cards of one transaction have one sender and one donation (`ChainSound`,
`CardsSound`, kept as the chain grows). `AllDue` says that valid cards are due by what is confirmed now; it
stays true since a block of a donation never changes (`DueStays`). While a bundle is under way a donation
has been issued in part, so `IssuedAsEntitled` is not inductive: `AddsUp` adds the cards still to come of
bundles already found valid, and says that both together are the entitlement or nothing.

A second invariant, `ResultInv`, ties the lists of a parse to the chain. `Valid` says of a card in the chain
whether it is valid without any walk: an issue is good if it would be valid as the first one, where the
first card of a transaction stands for all of it; the first good issue of a claim opens it (`Opens`); it is
valid, and if it is the first card so is the rest of its transaction. `WalkSound` says that the lists so
far are what this gives for the cards so far, and `ParseReturnsTheValid` that a parse returns exactly those
cards of the chain, in order. What is good depends on `check_donation`, which reads the live chain; but a
donation of a later block is too late for a card already there, so good and valid are for ever
(`JudgedForEver`, `ValidForEver`). Therefore a later parse lists the same cards and perhaps more at the end:
`NoCardHangs` (`NoHangingCards`), a fact about two parses that follows from an invariant of each
(`ListsContinue`). And since the cards of an honest claim are good, only an earlier honest claim of the
same donation can keep it from being opened: `HonestClaimsSucceed` (`HonestClaims`).

`ATParserImplementsLedger` (`ImplementsClaimsLedger`): the end of a parse settles the donations that it is the first to
list a claim of (`ReturnSettles`). Those settled before stay as they were (`ClaimsKept`), as the later list
continues the earlier one and `IssuedAsEntitled` holds of both. A block lets its donations fall due
(`BlockFallsDue`); everything else is a stutter.

**DTParser.** Two invariants, proved together, for all chains, cards and epochs, with or without `force_continue`.
A card is appended in two places, as part of a valid bundle or because `check_card` accepts it. That it is
not appended in both holds because the claim of a valid bundle has been used (`BundlesSound`), which needs
the cards of a transaction to agree in sender and claim (`CardsSound`). A part of a bundle is not compared
with the end of its proposal; it is due as the bundle's first card was (`Due`), and stays due since a share,
once given, and the end of an approved proposal never change (`SharesKept`, `EpochsSound`), although `epoch_init`
may run twice for an epoch. From this follow `ClaimsWait` (`NotBeforeTheEnd`) and `ValidCardsInOrder` (`InChainOrder`).
The second invariant, `Inv2`, is about the walk:

- `WalkSound`: the loop's epoch does not get past the next card's, and what is left when the loop ends is from after
  the end epoch; with `TransfersSound` this is `NoTransferLost` (`TransfersKept`), whichever of the three places
  closes an epoch.
- `GeneratorSound`: after an issue the generator's position is the last card of its transaction. This is what
  makes one position enough for all transactions, `EveryBundleFound` (`BundlesFound`).
- `UsedSound`, `SendersSound`: a used claim has its shares and is by who may make it.
- `AddsUp`: what a sender was issued for a claim, and what is still to come of a valid bundle, is the reward
  if the claim is used and 0 if not. At the end nothing is to come: `ClaimsPaidOnce` (`RewardedOnce`).

`DTParserImplementsLedger` (`ImplementsClaimsLedger`): shares, once given, stay (`SharesKept`), so rewards fall due and
do not change; and a claim is settled by the card that uses its tuple, with `AddsUp` saying that all
which is issued for it, now or later in its bundle, is the reward (`AcceptedSettles`).

`VotersWeighTokens` (`WeightsAreTokens`) follows the weights through `update_voters`, card by card, a recursion over a
list. What it gives is known only step by step, so `StepByStep` and `RecursionExists` of CollectionsTheorems
stand in for induction: a recursion over positions has a solution, and what holds of the least position
and is kept holds of all. A card that is passed over can only leave tokens where they were
(`TakenWeighs`, `StepFits`), and each valid card reaches `update_voters` in one epoch (`VotersFit`). There is no
condition: transfers may have several cards and receivers.

**IssueModes.** `ModesHoldTogether` (`ModesCombine`) and `CardsStayInOrder` (`Subsequence`), for all
decks, sets of modes and lists. The invariant says, while the modes are gone through, that the cards
left are a part of the list in its order (`Mirrors`), and for a deck without a parser that they are the
ones which the modes so far allow in the whole list (`Left`). Each mode then is a lemma. The one that
takes more is ONCE (`OnceLeaves`): it looks for the first issue among what is left, which is the first
of the list, since no mode drops that one. That the loop ends early on an empty list makes no
difference, as more modes allow less (`LeftNothing`).

**ProposalRounds.** `StatesAreTyped` (`TypeOK`), `RoundsFit`, `LockFits`, `OnePeriodAtATime`
(`OnePeriodPerBlock`) and `PhaseOneStays`, for every epoch length from 28 blocks up. The arithmetic is
in `PhaseOneFits` and `PhaseTwoFits`: phase 2, the longer one, takes 24 of the epoch's 28 units and a
security period of one unit, or of two blocks where that is more. The invariant says that every state is
faithful to what the proposal's first transaction gave it (`OwnState`): same start, phase 1 and time
lock, and the schedule as long as it is not moved by an approved modification with another number of
epochs. The periods of a schedule are a list in which each begins at the block after the end of the one
before, so a block after the start is in exactly one of them.

**Donations.** For all numbers of transactions, donors and amounts. `SlotsAreNumbers` (`TypeOK`), `RewardsAreRequested`
(`WithinRequest`) and `ReservesAreServed` (`ReserveFirst`) come from one invariant, `SlotInv` (`SlotsAreKept`). Its heart
are the accounts: the available amount of a round is what the request and the effective slots of the
rounds before leave, and slots given in a round sum up to no more (`RawSlotBounds`: a share, rounded down, and
minus a unit if the division is lossy, is within the amount shared). `WithinRequest` itself compares sums over
states, which the accounts bound round by round. The other parts say what the lists hold in the middle of
a parse: which kind of transaction, from which round, judged or still to be judged, given a state or
still to be given one. `DonorsAreCountedOnce` (`OneStatePerDonor`) needs that everyone who will be given a state has
already used up its address (`ClaimedOnce`), also between the two validations of a priority round.

**TrackedTxs.** `TransactionsFoundOnce` (`FoundOnce`), `ParsesAreClosed` (`PredecessorsRead`), `ReadersReadWhatWasAsked`
(`AskedIsRead`) and `NoCoinIsLost` (`CoinsKept`), for all funds, arguments, fees, page lengths and bounds. The invariant has
two halves. `ChainInv` is about what wallets and node have made: every transaction is what its arguments
give with the coins it spends (`Made`), is in the list of its account, after older ones (`Listed`), and in at most
one block, after its inputs and, if it is a donation, after its proposal (`Mined`). `ParseInv` is about the parse: what it
holds is confirmed, typed as the account asks, and read once (`Holds`). The parse wants what was known when it
began, and the predecessors of whatever it has found; what it wants of the account it is at, it has found
already or finds on a page to come (`Covered`), and of an account that is done it has left out nothing (`Thorough`).
Pages are counted from the newest entry, so `Covered` speaks of the entries up to a position from the end, and
a longer list only moves that position up (`GrowthKeepsParse`). That the order of accounts is right shows in
`LastPageKeeps`: a predecessor found only now is confirmed and in an account still to come. What `RequestsAssumption`
asks of `Funds` and `Requests` is their type, and each theorem has the model's own `Spec`, without fairness.

`LaterParsesKeep` (`LaterParsesKeepAll`) compares two parses, for any block times and with accounts that were torn.
`Remembered` says that what the parse before has read is confirmed, of the right kind and format, refers to a
proposal it has read, and is known to this one from its beginning; it is kept since a confirmed
transaction stays where it is. What is known, the parse finds (`Thorough`).

`TrackedFee` and `CardFee` add up the outputs, part by part (`OutputsAdd`); the positions that readers rely on are
in `TrackedOutputsAre`.

**Only model-checked.**

- Liveness under fairness: `ParseEnds`.
- `TotalReward`: that the rounding of quotients and of a float adds up to less than a unit is a fact about
  powers of ten and two, for requests and rewards that are small beside them.
- `LaterParsesAppend`: the order of what is read. It needs block times that increase (`Lag = 0`), which neither
  the code nor the network asks for, so the theorem is about what holds without them.
- `SlotsKept`: that a later parse gives the same slots is a fact about two runs over a chain and its
  extension. For `NoHangingCards` it was enough to describe the result of one parse without its walk; the
  slots of a round depend on all states of the rounds before, so such a description is recursive.

## 5. What the code does not keep

Four runs show that the code does something other than what its comments say:

- **dtparser_skipped** (`VotesCounted`): `epoch_initialized` stays true when `epoch_postprocess` moves to the next
  epoch (at/dt_parser.py:83). If two consecutive epochs have valid cards, the second one is never
  initialised; votes of the proposals that start or end in it are not counted.
- **discovery_race** (`OwnAttributes`): two threads decode into one message object (at/protobuf_utils.py:27) and read
  it afterwards; a deck can get the attributes of another one.
- **rounds_modified** (`ModifiedRoundsInEpochs`): `modify` computes the rounds of phase 2 from another end epoch
  than the one it sets next (at/dt_states.py:158); the rounds of a modified proposal lie after the
  epoch in which its reward is shared out.
- **donations_raised** (`NeverRaised`): `get_indirect_successors` reads `donor_address` of donations on which it was not
  set yet (at/dt_entities.py:78). A donor that does not release its lock, beside one that does, makes
  the whole parse end with an AttributeError, which `validate_card_issue_modes` takes for a deck
  without a parser.

The modules state more such properties that no run of `PROJECT.json` checks. To see one fail, put it
in the place of the configuration's properties:

| Property | Configuration | What happens |
|---|---|---|
| `AllLocksBacked` | DeckState_ledger | a burn to an issuer that is also lock address leaves the lock on tokens that are gone (protocol.py:677) |
| `OtherLocksBacked` | DeckState_types | a lock type of 6 or more withholds nothing (protocol.py:737) |
| `EveryDeckHasState` | DeckState_types | a lock to an address of a kind that is not implemented makes `calc_state` raise on a later card of its holder (hash_encoding.py:14) |
| `OneDistribution` | DTParser_claims with `Chains <- MCVoteChains` | `process_cardless_epochs` begins with an epoch that was initialised already (at/dt_parser.py:74 and 109); proposals that end together are then given shares of different wholes |
| `BundlesWhole` | DTParser_claims | a later card of an invalid bundle is valid if its own amount is the reward (at/dt_parser.py:87) |
| `TotalReward` | DTParser_claims with `Proposers <- MCTwoInputs` | claims are told apart by sender, and a proposal paid from two addresses has two (at/dt_parser_state.py:407) |
| `CurrentWeights` | DTParser_skipped with `Chains <- MCLateChains` | votes are counted with voters' weights from before the SDP weight changed (at/dt_parser_state.py:253) |
| `SdpSchedule` | DTParser_claims | weights multiply from period to period (at/dt_parser_state.py:252) |
| `CoveredBundlesCount` (PROPERTY) | DTParser_claims with `Txs <- MCTwoReceivers` | each card of a bundled transfer is compared with the whole bundle again (at/dt_parser_utils.py:182) |
| `FullClaims` | ATParser_claims with `Txs <- MCZeroTxs` | a claim of 0 units is valid and uses up the donation (at/at_parser.py:167) |
| `EveryClaimValidated` | IssueModes_modes | a transfer of the issuer, typed as an issue without a donation, makes the parser fail and the fallback keep all claims (protocol.py:555) |
| `EveryClaimValidated` | the same with `Decks <- CustomDeck`, `Txs <- TransferTxs` | so does a first card without data (protocol.py:551) |
| `OneIssueTransaction`, `MonoIsOne` | IssueModes_modes | ONCE keeps one card of the issue's several; MONO keeps every amount (card_parsers.py:35, 59) |
| `NeverFails` | IssueModes_modes | a ONCE deck without an issue, or one transaction with other decimals, ends the search (card_parsers.py:35, pautils.py:329) |
| `ApprovedTermsStand` (PROPERTY) | ProposalRounds_schedule | a modification mined after the approval changes amount and end (at/dt_parser_utils.py:96) |
| `DonationsUsedOnce` | Donations_rounds with `ReqAmount = 4` | the list of successors has transactions where txids are looked for; one donation fills two states (at/dt_states.py:519) |
| `PaidToProposer`, `ProposersDoNotDonate`, `PriorityEarned` | Donations_rounds with `Txs <- MCStrayTxs` | a donation's receiver is never compared (at/dt_entities.py:188); the priority rounds do not look for the proposer's address (at/dt_states.py:275); a lock that ends too early still gives priority (at/dt_states.py:348) |
| `NoGaps` | TrackedTxs_parse | a block between two pages: the younger of two transactions was passed over as unconfirmed, the older one on the next page is read (at/dt_parser_utils.py:27); slots depend on both |
| `ReadInChainOrder`, `LaterParsesAppend` | TrackedTxs_parse with `Lag = 1` | two blocks of the same time: their transactions are sorted by their position in the block alone (at/dt_parser_utils.py:59) |
| `ReservedAsAsked` | TrackedTxs_parse with `Requests <- MCChangeLocks` | the change of a lock without reservation is in output 3 and read as a reservation (at/dt_entities.py:144) |
| `AllHaveFormat` | TrackedTxs_parse with `Requests <- MCVotes` | a vote without change has two outputs, which its constructor refuses (at/ttx_base.py:45): the vote is not counted |
| `BadDataSkipped` | TrackedTxs_parse | data that do not decode leave `metadata` unset, and the next line reads it: an AttributeError instead of the InvalidTrackedTransactionError that is caught (at/ttx_base.py:72); one such transaction ends every parse of the deck |
| `AllCardsListed` | TrackedTxs_parse with `Requests <- MCManyCards`, `MaxBlocks = 6` | only the newest page of cards is asked for, so of more than 999 entries the oldest cards, the first issues, are not seen (\_\_main\_\_.py:176) |

`CurrentWeights` is a PROPERTY too; `AllLocksBacked` is on the module MCDeckState or its refinement. Where
the code breaks a property only for some inputs, the runs check it for the others: `LocksBacked` leaves
out the locks a burn can use, `RoundsInEpochs` the proposals that are moved, `TotalReward` runs with proposals
of one input; `AskedIsRead` leaves out change where no reservation was asked for, and `LaterParsesAppend` is
checked with block times that increase and leaves out accounts in which a block came between two pages.

## 6. What is not modelled

- Encodings: hashes, addresses, scripts, protobuf, metadata. Where an outcome matters (a lock type
  without an address, data that do not decode) it is modelled as an outcome.
- Reorganisations of the chain. Cards and donations that were confirmed stay.
- `force_dstates` and debug output, which recompute or print; `find_deck_spawns` without production P2TH.
- Donations: one proposal, transactions with one input, amounts above 0, blocks only by the half of a
  round they are in. The rewards of states are in DTParser, in which a donation is a donor and the reward
  that Rewards computes from its slot.
- DTParser: the locks of the valid cards, which `update_voters` does not look at either; DeckState has them.
- DTParser: of the voters of an epoch only the last vote of each; block heights only by epoch.
- The constructors' checks of scripts, redeem scripts and the fields of metadata. A number of outputs
  too small and data that do not decode are in TrackedTxs.
- TrackedTxs: nodes that do not report `blocktime` or `blockindex`. For them `get_marked_txes` looks the block
  up by `blockhash`, a variable that is only set where `blocktime` is missing, too (at/dt_parser_utils.py:48).
  The range of blocks that `get_marked_txes` can be given, and no caller gives. Modifications of proposals.
  A list that changes between the two calls of `find_card_bundles`.
- `deck_spawn` (the outputs of `card_transfer` without receivers), signing, the size limit of 1 kB, and
  `TransactionDraft` (at/mutable_transactions.py), which nothing in the repository uses.
- voting.py: every operation raises a NameError or AttributeError before it does anything.
- The rest of transactions.py and of the providers, kutil.py, networks.py and generated classes: no state,
  or plain I/O.
- The order in which the pool of `find_all_valid_decks` yields: it is the executor's `map` that keeps it.
- A network whose epochs are shorter than 28 blocks: the round unit is 0 and rounds are empty.

## 7. The plan

Written so far, in this order: DeckState with TokenLedger and proofs, since every wallet relies on it;
Bundles, Voters, DTParser and ATParser, which decide what is issued; IssueModes, through which all
cards come; DeckDiscovery; ProposalRounds and its proofs; Donations; Assembly and TrackedTxs; DTParserProofs;
the refinement of TokenLedger as a theorem; theorems about bundles, rewards and Donations, and about what
parses return; Rewards; ClaimsLedger with its refinements by both parsers; theorems about voters and
about what a later parse reads.

Left, most important first:

1. The rewards of donation states within Donations, with `set_reward` and proposals that share an
   epoch, and `force_dstates`.
2. `find_all_valid_cards`, the parser and DeckState composed: one chain, two parses, balances that only
   change by what was mined in between.
3. A bound on what rounding adds to the rewards of a proposal, as a theorem about Rewards.
