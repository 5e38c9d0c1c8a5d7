---------------------------- MODULE MCIssueModes ----------------------------
(***************************************************************************)
(* IssueModes with an issuer and two holders, and decks of two decimals,   *)
(* for which int(29 / 100 * 100) = 28.                                     *)
(***************************************************************************)
EXTENDS IssueModes

CONSTANTS iss, a, b

Tx(s, rs, data) ==
  [sender |-> s, receivers |-> rs, data |-> data, decimals |-> TRUE,
   amounts |-> [i \in DOMAIN rs |-> IF i = 1 THEN 1 ELSE 29]]

(* Decks without a parser of their own, among them one with AT data whose  *)
(* mode is not CUSTOM alone.                                               *)
PlainDecks == {[modes |-> m, at |-> FALSE] : m \in SUBSET SupportedModes}
                \cup {[modes |-> {CUSTOM, MULTI}, at |-> TRUE]}
CustomDeck == {[modes |-> {CUSTOM}, at |-> TRUE]}
AllDecks == PlainDecks \cup CustomDeck

(* Issues, one of them partly to the issuer, a burn and transfers. *)
PlainTxs ==
  {Tx(iss, <<a, b>>, "none"), Tx(iss, <<iss, b>>, "bad"), Tx(a, <<b>>, "valid"),
   Tx(a, <<b, iss>>, "other")}

(* Claims and transfers of those who are not the issuer. *)
ClaimTxs ==
  {Tx(a, <<a, b>>, "valid"), Tx(b, <<iss>>, "invalid"), Tx(a, <<b>>, "other"),
   [Tx(a, <<b>>, "valid") EXCEPT !.decimals = FALSE]}

AllTxs == PlainTxs \cup ClaimTxs

(* A transfer without data, among claims. *)
TransferTxs == {Tx(a, <<b>>, "none"), Tx(b, <<b>>, "invalid"), Tx(a, <<a>>, "valid")}

=============================================================================
