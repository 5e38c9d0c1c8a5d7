---------------------------- MODULE ClaimsLedger ----------------------------
(***************************************************************************)
(* What the parsers of AT and DT decks promise together: tokens are issued *)
(* against claims.  What a claim is worth is known once it falls due, and  *)
(* stays.  A claim can be settled when it is due, and once only: in full,  *)
(* or for nothing, if its owner asked for nothing.  Bundles, repeated      *)
(* claims, the lists of the parsers and the order in which they read the   *)
(* chain are not visible here.                                             *)
(***************************************************************************)
EXTENDS Integers

CONSTANT Claims

VARIABLES
  due,        \* what each claim is worth, or NotDue
  settled,    \* the claims that have been made
  issued      \* the tokens issued for each of them

ledgerVars == <<due, settled, issued>>

NotDue == -1

Init ==
  /\ due = [c \in Claims |-> NotDue]
  /\ settled = {}
  /\ issued = [c \in Claims |-> 0]

(* Some claims fall due. *)
FallDue ==
  /\ due' \in [Claims -> Nat \cup {NotDue}]
  /\ \A c \in Claims : due[c] # NotDue => due'[c] = due[c]
  /\ UNCHANGED <<settled, issued>>

(* The claims D are settled, those in F for nothing. *)
Settle(D, F) ==
  /\ settled' = settled \cup D
  /\ \A c \in D : due[c] # NotDue
  /\ issued' = [c \in Claims |-> IF c \in D \ F THEN due[c] ELSE issued[c]]
  /\ UNCHANGED due

Next ==
  \/ FallDue
  \/ \E D \in SUBSET (Claims \ settled) : \E F \in SUBSET D : Settle(D, F)

Spec == Init /\ [][Next]_ledgerVars

=============================================================================
