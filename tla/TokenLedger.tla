---------------------------- MODULE TokenLedger -----------------------------
(***************************************************************************)
(* What DeckState promises: an account ledger with claims.                 *)
(*                                                                         *)
(* claims[a][g][t] is the amount of a's tokens that up to and including    *)
(* block t can only go to g.  Each operation happens at once, at a block   *)
(* height, and a claim is gone the moment its block has passed: the lists, *)
(* the lazy removal of expired locks and the loops of DeckState are not    *)
(* visible here.                                                           *)
(***************************************************************************)
EXTENDS Integers, FiniteSets, Sums

CONSTANTS Addr, Targets, Amounts, LockTimes,   \* as in DeckState
          Heights                              \* blocks at which something happens

VARIABLES bal, claims, height

ledgerVars == <<bal, claims, height>>

Claims == [Addr -> [Targets -> [LockTimes -> Nat]]]

NoClaims == [a \in Addr |-> [g \in Targets |-> [t \in LockTimes |-> 0]]]

(* The claims that block h leaves standing. *)
Standing(C, h) ==
  [a \in Addr |-> [g \in Targets |-> [t \in LockTimes |->
     IF t < h THEN 0 ELSE C[a][g][t]]]]

(* What s can send to r: its tokens less those claimed for someone else. *)
Claimed(C, s, g) == Total(C[s][g])
Spendable(C, s, r) ==
  bal[s] - Total([g \in Targets \ {r} |-> Claimed(C, s, g)])

AddClaim(C, a, g, t, v) == [C EXCEPT ![a][g][t] = @ + v]

(* A payment of v to the address the tokens were claimed for uses up the   *)
(* claims, those that end first before the others.                         *)
UsedUp(f, v, t) ==
  LET before == Sum({u \in DOMAIN f : u < t}, f)
  IN  IF v <= before THEN 0 ELSE IF v - before < f[t] THEN v - before ELSE f[t]

Release(C, s, r, v) ==
  [C EXCEPT ![s][r] = [t \in LockTimes |-> @[t] - UsedUp(@, v, t)]]

Init ==
  /\ bal = [a \in Addr |-> 0]
  /\ claims = NoClaims
  /\ height = 0

(* Time passes; a card that is not covered does no more than that. *)
Pass(h) ==
  /\ h > height /\ height' = h
  /\ claims' = Standing(claims, h)
  /\ UNCHANGED bal

Issue(r, v, h) ==
  /\ h >= height /\ height' = h
  /\ bal' = [bal EXCEPT ![r] = @ + v]
  /\ claims' = Standing(claims, h)

(* A payment to the issuer destroys tokens and releases no claim. *)
Burn(s, issuer, v, h) ==
  /\ h >= height /\ height' = h
  /\ bal' = [bal EXCEPT ![s] = @ - v]
  /\ Spendable(Standing(claims, h), s, issuer) >= v
  /\ claims' = Standing(claims, h)

(* A payment; the tokens may arrive claimed for some g until a block t. *)
Pay(s, r, v, h) ==
  /\ h >= height /\ height' = h
  /\ bal' = [[bal EXCEPT ![s] = @ - v] EXCEPT ![r] = @ + v]
  /\ Spendable(Standing(claims, h), s, r) >= v
  /\ \E C \in {Standing(claims, h)} \cup
             {AddClaim(Standing(claims, h), r, g, t, v) :
                g \in Targets, t \in LockTimes} :
       claims' = Standing(Release(C, s, r, v), h)

Next ==
  \E h \in Heights :
    \/ Pass(h)
    \/ \E r \in Addr, v \in Amounts : Issue(r, v, h)
    \/ \E s, r \in Addr, v \in Amounts : Burn(s, r, v, h) \/ Pay(s, r, v, h)

Spec == Init /\ [][Next]_ledgerVars

=============================================================================
