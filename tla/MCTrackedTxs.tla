---------------------------- MODULE MCTrackedTxs ----------------------------
(***************************************************************************)
(* TrackedTxs with a proposer and a donor, who signals, locks and donates, *)
(* and claims a card for it; transactions with a reservation, with change, *)
(* with too little left for change, and exact ones.                        *)
(***************************************************************************)
EXTENDS TrackedTxs

Coins(owner, value) == Output(value, "p2pkh", owner)

MCFunds == <<Coins("proposer", 6), Coins("donor", 23), Coins("other", 7)>>

Request(kind, from, to, amount, reserved, spends) ==
  [kind |-> kind, from |-> from, to |-> to, amount |-> amount, reserved |-> reserved,
   spends |-> spends, decodes |-> TRUE]
Undecoded(r) == [r EXCEPT !.decodes = FALSE]

Proposals == {Request("proposal", "proposer", "", 0, None, "any")}
Signals == {Request("signalling", "donor", "donor", 12, None, "any"),
            Request("signalling", "other", "other", 3, None, "any")}
Stray == {Undecoded(Request("signalling", "other", "other", 3, None, "any"))}
Locks == {Request("locking", "donor", "donor", 6, 2, "signalling")}
Donations == {Request("donation", "donor", "", 1, None, "locking")}
Cards == {[kind |-> "card", from |-> "donor", receivers |-> <<"donor">>]}

MCRequests == Proposals \cup Signals \cup Stray \cup Locks \cup Donations \cup Cards

(* A lock without reservation that leaves change; votes without change;    *)
(* claims for one donation without a lock.                                 *)
MCChangeLocks ==
  Proposals \cup Signals \cup {Request("locking", "donor", "donor", 6, None, "signalling")}
MCManyCards == Proposals \cup Cards \cup {Request("donation", "donor", "", 3, None, "any")}
MCVotes == Proposals \cup {Request("signalling", "donor", "donor", 4, None, "any"),
                         Request("voting", "donor", "", 0, None, "signalling")}

=============================================================================
