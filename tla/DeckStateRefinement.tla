------------------------ MODULE DeckStateRefinement -------------------------
(***************************************************************************)
(* DeckState implements TokenLedger: class DeckState of protocol.py gives  *)
(* every list of cards the balances and claims an account ledger with      *)
(* immediate expiry and immediate release would give.                      *)
(***************************************************************************)
EXTENDS DeckState

Targets == Addr \cup {NoAddress}

(* Removing expired locks late makes no difference, so the ledger's height *)
(* is the block of the last card, or the cleanup height at the end.        *)
LedgerHeight ==
  IF pc = "done" /\ CleanupHeight > height THEN CleanupHeight ELSE height

Heights == 1 .. MaxBlock \cup {CleanupHeight}

(* The locks that count, summed up; a type above 5 withholds nothing. *)
LockedFor(L, a, g, t) ==
  {n \in DOMAIN L :
     /\ L[n].holder = a /\ L[n].locktime = t
     /\ L[n].lockhash_type \in 0 .. 5 /\ LockAddress(L[n]) = g}

ClaimsOf(L) ==
  [a \in Addr |-> [g \in Targets |-> [t \in LockTimes |->
     Sum(LockedFor(L, a, g, t), LockAmounts(L))]]]

LedgerBalance == [a \in Addr |-> Balance(balances, a)]

(* The ledger without the release that is under way, for its operators. *)
Present == INSTANCE TokenLedger WITH
  bal <- LedgerBalance, claims <- ClaimsOf(locks), height <- LedgerHeight

(* In the middle of _unlock_amount the rest is still to be released; no    *)
(* rest is left when nothing is being unlocked.                            *)
LedgerClaims ==
  Present!Standing(
    Present!Release(ClaimsOf(locks), unlocking.sender, unlocking.receiver,
                    unlocking.rest),
    LedgerHeight)

Ledger == INSTANCE TokenLedger WITH
  bal <- LedgerBalance, claims <- LedgerClaims, height <- LedgerHeight

(* Every step of calc_state is a step of the account ledger or invisible   *)
(* to it (calc_state, _process, _check_locks, _unlock_amount and           *)
(* _cleanup_locks of protocol.py).                                         *)
ImplementsTokenLedger == Ledger!Spec

=============================================================================
