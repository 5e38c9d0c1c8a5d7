----------------------------- MODULE TrackedTxs -----------------------------
(***************************************************************************)
(* Tracked transactions from end to end: wallets build them (Assembly), a  *)
(* node lists and blocks confirm them, and a parse of the deck reads them: *)
(* get_parser_state lists the cards, then ParserState.init_parser reads    *)
(* the proposals, donations, locks, signals and votes, one P2TH account    *)
(* after the other, each page by page with get_marked_txes.  The list and  *)
(* the chain grow between any two calls of the node.                       *)
(*                                                                         *)
(* Transactions are numbered in the order in which the node has seen them; *)
(* the first one is the wallets' money.  What a node does is external: it  *)
(* takes a transaction whose inputs are unspent, and mines it after the    *)
(* ones it spends from.                                                    *)
(***************************************************************************)
EXTENDS Assembly, Sublists, Functions

CONSTANTS
  Funds,       \* the outputs of the first transaction
  Requests,    \* arguments with which wallets call create_unsigned_tx and card_transfer
  PageSize,    \* entries that listtransactions returns at most (999)
  Own,         \* the wallets of the node: it lists what they send once as sent, once as received
  Lag,         \* how far the time of a block may stay behind one unit more than the last one
  MaxTxs,      \* bound: transactions
  MaxBlocks    \* bound: blocks

ASSUME PagesAssumption == PageSize \in Nat \ {0}
ASSUME RequestsAssumption ==
  /\ Funds \in Seq(Outputs)
  /\ Requests \subseteq TrackedRequests \cup CardRequests

(* Mutant: the accounts are read in the order in which a donor uses them. *)
Bug_Accounts == <<"card", "proposal", "signalling", "locking", "donation", "voting">>

(* The accounts in the order in which a parse reads them.                  *)
Accounts == <<"card", "proposal", "donation", "locking", "signalling", "voting">>
Kinds == {Accounts[i] : i \in DOMAIN Accounts}
Over == Len(Accounts) + 1
Raised == Over + 1

VARIABLES
  txs,      \* the transactions
  listed,   \* the node's list for the P2TH account of each kind, oldest first
  blocks,   \* the chain: per block its time and its transactions in their order
  stage,    \* the account the parse is at; 0 before the first parse, Over or Raised after one
  start,    \* get_marked_txes: entries already read of this account
  found,    \* get_marked_txes: tx_tuple_list, as the set it is made
  read,     \* what the parse has read of each account
  known,    \* history: what was confirmed when the parse began
  torn,     \* history: accounts in which a block came between two pages
  last,     \* history: what the parse before has read
  gaps      \* history: the torn accounts of the parse before

chain == <<txs, listed, blocks>>
parser == <<stage, start, found, read, known, torn, last, gaps>>
vars == <<chain, parser>>

Empty == [k \in Kinds |-> <<>>]

Init ==
  /\ txs = <<[kind |-> "funds", refers |-> 0, ins |-> {}, outs |-> Funds]>>
  /\ listed = Empty
  /\ blocks = <<[time |-> 1, txs |-> <<1>>]>>
  /\ stage = 0 /\ start = 0 /\ found = {} /\ read = Empty
  /\ known = {} /\ torn = {} /\ last = Empty /\ gaps = {}

-----------------------------------------------------------------------------
(* The chain, as the node's calls show it                                  *)

Height(t) == IF \E b \in DOMAIN blocks : t \in Range(blocks[b].txs)
               THEN CHOOSE b \in DOMAIN blocks : t \in Range(blocks[b].txs)
               ELSE 0
Confirmed == {t \in DOMAIN txs : Height(t) > 0}
Pending == DOMAIN txs \ Confirmed
Blockindex(t) == CHOOSE i \in DOMAIN blocks[Height(t)].txs : blocks[Height(t)].txs[i] = t
Blocktime(t) == blocks[Height(t)].time

Coin(t, n) ==
  [tx |-> t, vout |-> n, value |-> txs[t].outs[n].value, height |-> Height(t)]
Spent(t, n) == \E u \in DOMAIN txs : [tx |-> t, vout |-> n] \in txs[u].ins
Unspent == {c \in UNION {{<<t, n>> : n \in DOMAIN txs[t].outs} : t \in DOMAIN txs} :
              ~Spent(c[1], c[2])}

(* listunspent of an address, with at least one confirmation.              *)
CoinsOf(address) ==
  {Coin(c[1], c[2]) : c \in {d \in Unspent :
     /\ Height(d[1]) > 0
     /\ txs[d[1]].outs[d[2]].script = "p2pkh" /\ txs[d[1]].outs[d[2]].to = address}}

(* The output that the caller names with input_txid and input_vout: here   *)
(* output 2 of one of the wallet's transactions, confirmed or not.         *)
NamedCoins(r) ==
  {Coin(c[1], c[2]) : c \in {d \in Unspent :
     txs[d[1]].kind = r.spends /\ d[2] = 3 /\ txs[d[1]].outs[3].to = r.from}}

-----------------------------------------------------------------------------
(* Wallets                                                                 *)

(* The entries of the transaction in the node's list.                      *)
Entries(t, from) == IF from \in Own THEN <<t, t>> ELSE <<t>>

Submit(tx) ==
  /\ txs' = Append(txs, tx)
  /\ listed' = [listed EXCEPT ![tx.kind] = @ \o Entries(Len(txs) + 1, tx.asked.from)]
  /\ UNCHANGED <<blocks, parser>>

Places(coins) == {[tx |-> c.tx, vout |-> c.vout] : c \in coins}
OfKind(k) == {t \in DOMAIN txs : txs[t].kind = k}

(* A donation without an address goes to the proposer, if the proposal is  *)
(* confirmed.                                                              *)
Addressed(r, p) == IF r.kind = "donation" THEN [r EXCEPT !.to = txs[p].asked.from] ELSE r

(* create_unsigned_tx, with inputs named or selected, then sent.           *)
SendTracked ==
  /\ Len(txs) < MaxTxs
  /\ \E s \in {q \in Requests : q.kind \in Tracked} :
     \E p \in IF s.kind = "proposal" THEN {0} ELSE OfKind("proposal") :
       /\ s.kind = "donation" => Height(p) > 0
       /\ LET r == Addressed(s, p) IN
          \E coins \in IF r.spends # "any" THEN {{c} : c \in NamedCoins(r)}
                       ELSE Selections(CoinsOf(r.from), Complete(r)) :
            /\ Enough(r, Value(coins))
            /\ Submit([kind |-> r.kind, refers |-> p, ins |-> Places(coins),
                       outs |-> TrackedOutputs(r, Value(coins)), asked |-> r])

(* card_transfer with a claim for a donation, sent.                        *)
SendCard ==
  /\ Len(txs) < MaxTxs
  /\ \E r \in {q \in Requests : q.kind = "card"} : \E d \in OfKind("donation") :
     \E coins \in Selections(CoinsOf(r.from), TxFee + P2thFee + (1 + Len(r.receivers)) * DataFee) :
       /\ CardRest(r, Value(coins)) >= 0
       /\ Submit([kind |-> "card", refers |-> d, ins |-> Places(coins),
                  outs |-> CardOutputs(r, Value(coins)), asked |-> r])

Orders(S) == Bijection(1 .. Cardinality(S), S)

(* A block confirms some of the pending transactions.                      *)
Mine ==
  /\ Len(blocks) < MaxBlocks
  /\ \E S \in SUBSET Pending \ {{}} : \E order \in Orders(S), lag \in 0 .. Lag :
       /\ \A i \in DOMAIN order : \A c \in txs[order[i]].ins :
            Height(c.tx) > 0 \/ \E j \in 1 .. i - 1 : order[j] = c.tx
       /\ blocks' = Append(blocks, [time |-> blocks[Len(blocks)].time + 1 - lag, txs |-> order])
  /\ torn' = IF start > 0 THEN torn \cup {Accounts[stage]} ELSE torn
  /\ UNCHANGED <<txs, listed, stage, start, found, read, known, last, gaps>>

-----------------------------------------------------------------------------
(* The parse                                                               *)

Begin ==
  /\ stage \in {0, Over, Raised}
  /\ stage' = 1 /\ start' = 0 /\ found' = {}
  /\ read' = Empty /\ known' = Confirmed /\ torn' = {}
  /\ IF stage = Raised THEN UNCHANGED <<last, gaps>>
     ELSE last' = read /\ gaps' = torn
  /\ UNCHANGED chain

Account == Accounts[stage]

(* listtransactions(account, many, since): leaves the newest entries out,  *)
(* and returns at most PageSize of the rest.                               *)
Page(list, since) ==
  LET to == Len(list) - since
      from == to - PageSize + 1
  IN SubSeq(list, IF from > 1 THEN from ELSE 1, to)

(* find_card_bundles: the newest page only, without the unconfirmed        *)
(* transactions; one with two entries is there twice.  The list and the    *)
(* transactions come from two calls of the node, which are one step here.  *)
ListCards ==
  /\ stage = 1
  /\ LET page == Page(listed["card"], 0) IN
     read' = [read EXCEPT !["card"] = Only(page, {i \in DOMAIN page : page[i] \in Confirmed})]
  /\ stage' = 2
  /\ UNCHANGED <<chain, start, found, known, torn, last, gaps>>

Tuple(t) == [tx |-> t, time |-> Blocktime(t), seq |-> Blockindex(t)]
InPage == Page(listed[Account], start)
FoundNow == found \cup {Tuple(t) : t \in Range(InPage) \cap Confirmed}

(* Mutant: one entry is left out between two pages. *)
Bug_NextPage ==
  /\ stage \in 2 .. Over - 1 /\ Len(InPage) = PageSize
  /\ found' = FoundNow
  /\ start' = start + PageSize + 1
  /\ UNCHANGED <<chain, stage, read, known, torn, last, gaps>>

(* Mutant: the same page is asked for again. *)
Bug_SamePage ==
  /\ stage \in 2 .. Over - 1 /\ Len(InPage) = PageSize
  /\ found' = FoundNow
  /\ UNCHANGED <<chain, stage, start, read, known, torn, last, gaps>>

(* get_marked_txes: one more page, and others to come ...                  *)
NextPage ==
  /\ stage \in 2 .. Over - 1 /\ Len(InPage) = PageSize
  /\ found' = FoundNow
  /\ start' = start + PageSize
  /\ UNCHANGED <<chain, stage, read, known, torn, last, gaps>>

(* Mutant: the position in the block is no part of the key. *)
Bug_Sortings(tuples) ==
  {s \in Orders(tuples) : \A i, j \in DOMAIN s : i < j => s[i].time <= s[j].time}

(* With data that cannot be decoded a transaction gets no metadata, which  *)
(* the constructor then reads: an AttributeError that ends the parse.  One *)
(* with too few outputs has been refused before.                           *)
Undecodable ==
  {t \in DOMAIN txs :
     txs[t].kind \in Tracked /\ HasFormat(txs[t].outs) /\ ~txs[t].asked.decodes}
PageFails ==
  /\ stage \in 2 .. Over - 1 /\ Len(InPage) < PageSize
  /\ \E tuple \in FoundNow : tuple.tx \in Undecodable
  /\ stage' = Raised /\ start' = 0 /\ found' = {}
  /\ read' = Empty /\ known' = {} /\ torn' = {}
  /\ UNCHANGED <<chain, last, gaps>>

(* The sort by time and position in the block; it decides nothing between  *)
(* equal ones.                                                             *)
Sortings(tuples) ==
  {s \in Orders(tuples) : \A i, j \in DOMAIN s :
     i < j => \/ s[i].time < s[j].time
              \/ s[i].time = s[j].time /\ s[i].seq <= s[j].seq}

(* The constructors refuse a transaction with less than three outputs; a   *)
(* transaction without a known proposal is skipped.                        *)
Accepts(t) ==
  /\ HasFormat(txs[t].outs)
  /\ txs[t].kind # "proposal" => txs[t].refers \in Range(read["proposal"])

(* ... or the last one, after which the account's transactions are sorted  *)
(* and read by get_proposal_states or get_tracked_txes.                    *)
LastPage ==
  /\ stage \in 2 .. Over - 1 /\ Len(InPage) < PageSize
  /\ \A tuple \in FoundNow : tuple.tx \notin Undecodable
  /\ \E s \in Sortings(FoundNow) :
       read' = [read EXCEPT ![Account] =
                  Only([i \in DOMAIN s |-> s[i].tx], {i \in DOMAIN s : Accepts(s[i].tx)})]
  /\ stage' = stage + 1 /\ start' = 0 /\ found' = {}
  /\ UNCHANGED <<chain, known, torn, last, gaps>>

Parse == ListCards \/ NextPage \/ LastPage \/ PageFails
Next == SendTracked \/ SendCard \/ Mine \/ Begin \/ Parse

Spec == Init /\ [][Next]_vars /\ WF_vars(Parse)

-----------------------------------------------------------------------------
Finished == stage = Over
Times(list, t) == Cardinality({i \in DOMAIN list : list[i] = t})

(* "As listtransactions may lead to duplicates, we filter them out with    *)
(* set" (dt_parser_utils.py:15): a tracked transaction that was confirmed, *)
(* and its proposal with it, when the parse began is read exactly once,    *)
(* and one that is confirmed later at most once, although entries move     *)
(* from page to page while the list grows.                                 *)
Readable(t) == t \in known /\ HasFormat(txs[t].outs)
FoundOnce ==
  Finished => \A t \in DOMAIN txs : txs[t].kind \in Tracked =>
    /\ Times(read[txs[t].kind], t) <= 1
    /\ Readable(t) /\ (txs[t].refers = 0 \/ Readable(txs[t].refers))
         => Times(read[txs[t].kind], t) = 1

(* init_parser is no snapshot, but it reads the accounts backwards: with a *)
(* donation, the lock it was paid from is read, with a lock the signal,    *)
(* and with a card the donation that was confirmed before it, if its       *)
(* proposal can be read.  The chain may grow at any moment of the parse.   *)
PredecessorsRead ==
  Finished =>
    /\ \A k \in {"donation", "locking"} : \A t \in Range(read[k]) : \A c \in txs[t].ins :
         txs[c.tx].kind \in {"locking", "signalling"} /\ txs[c.tx].refers = txs[t].refers
           => c.tx \in Range(read[txs[c.tx].kind])
    /\ \A t \in Range(read["card"]) :
         LET d == txs[t].refers IN
         Height(d) \in 1 .. Height(t) /\ HasFormat(txs[txs[d].refers].outs)
           => d \in Range(read["donation"])

(* The transactions of a proposal that a parse has read.                   *)
OfProposal(list, p) == Only(list, {i \in DOMAIN list : txs[list[i]].refers = p})

(* Donation states are computed from the lists of a proposal in their      *)
(* order.  If block times increase, a later parse only adds to the end of  *)
(* what an earlier one has found, unless a block came between its pages.   *)
LaterParsesAppend ==
  Finished => \A k \in Tracked \ gaps : \A p \in 0 .. Len(txs) :
    LET before == OfProposal(last[k], p)
        now == OfProposal(read[k], p)
    IN Len(before) <= Len(now) /\ SubSeq(now, 1, Len(before)) = before

(* A donor who has seen its transaction counted can rely on it: what a     *)
(* parse has read, the next one that comes to its end reads too, though    *)
(* each starts from nothing, entries have moved to other pages, blocks     *)
(* come at any moment and their times may fall.                            *)
LaterParsesKeepAll ==
  Finished => \A k \in Tracked : Range(last[k]) \subseteq Range(read[k])

(* A reader of the outputs finds what the sender asked for: the amount,    *)
(* and the reservation ("Reserved amount, if existing, is in output 3",    *)
(* dt_entities.py:113), unless it asked for none and got change.           *)
ChangeOf(t) == Len(txs[t].outs) > Len(Heading(txs[t].kind) \o ValueOutput(txs[t].asked)
                                       \o ReserveOutput(txs[t].asked))
AskedIsRead ==
  Finished => \A k \in Tracked : \A t \in Range(read[k]) :
    LET r == txs[t].asked IN
    /\ k \in Paying => ReadAmount(k, txs[t].outs) = r.amount
    /\ k \in {"locking", "donation"} /\ (r.reserved # None \/ ~ChangeOf(t))
         => ReadReserve(k, txs[t].outs) = r.reserved

(* No coin is lost: what a wallet has put into a transaction and does not  *)
(* find in its outputs is the fee, with change too small for an output;    *)
(* and no output is negative.                                              *)
FeeOf(t) ==
  Sum(txs[t].ins, [c \in txs[t].ins |-> txs[c.tx].outs[c.vout].value])
    - Sum(DOMAIN txs[t].outs, [n \in DOMAIN txs[t].outs |-> txs[t].outs[n].value])
CoinsKept ==
  \A t \in DOMAIN txs \ {1} :
    /\ FeeOf(t) \in TxFee .. TxFee + P2thFee - 1
    /\ \A n \in DOMAIN txs[t].outs : txs[t].outs[n].value >= 0

(* get_marked_txes leaves its loop: once begun, a parse comes to an end,   *)
(* if the list does not grow for ever.                                     *)
ParseEnds == stage \in 1 .. Over - 1 ~> stage \in {Over, Raised}

-----------------------------------------------------------------------------
(* Statements of the code's comments that it does not keep, and the        *)
(* conditions of the properties above left out.                            *)

(* The order of confirmed transactions in the chain.                       *)
Before(t, u) ==
  /\ {t, u} \subseteq Confirmed
  /\ \/ Height(t) < Height(u)
     \/ Height(t) = Height(u) /\ Blockindex(t) < Blockindex(u)

(* The sorting is to be "like we sort cards", by block and position        *)
(* (dt_parser_utils.py:58), but is by the time of the block.               *)
ReadInChainOrder ==
  Finished => \A k \in Tracked : \A i, j \in DOMAIN read[k] :
    i < j => Before(read[k][i], read[k][j])

(* An account is read whole: a parse does not find a transaction and miss  *)
(* one that is before it in the chain, which would get its slot later.     *)
NoGaps ==
  Finished => \A k \in Tracked : \A t \in Range(read[k]) : \A u \in OfKind(k) :
    txs[u].refers = txs[t].refers /\ Before(u, t) => u \in Range(read[k])

(* "Reserved amount, if existing, is in output 3" (dt_entities.py:113):    *)
(* what is in output 3 may also be change.                                 *)
ReservedAsAsked ==
  Finished => \A k \in {"locking", "donation"} : \A t \in Range(read[k]) :
    ReadReserve(k, txs[t].outs) = txs[t].asked.reserved

(* "Transaction without correct datastring" is an                          *)
(* InvalidTrackedTransactionError (ttx_base.py:126), and such transactions *)
(* are left out: a parse comes to its result whatever anyone has sent.     *)
BadDataSkipped == stage # Raised

(* Every transaction that create_unsigned_tx makes is one its reader       *)
(* accepts.                                                                *)
AllHaveFormat == \A t \in DOMAIN txs : txs[t].kind \in Tracked => HasFormat(txs[t].outs)

(* "get all <deck> card bundles" (get_card_bundles).                       *)
AllCardsListed ==
  Finished => \A t \in known : txs[t].kind = "card" => t \in Range(read["card"])

=============================================================================
