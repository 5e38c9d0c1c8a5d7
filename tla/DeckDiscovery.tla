--------------------------- MODULE DeckDiscovery ----------------------------
(***************************************************************************)
(* __main__.find_all_valid_decks: the deck spawn transactions are parsed   *)
(* by a pool of two threads and yielded in their order.  The data of AT    *)
(* and DT decks is decoded into one message object that all threads share  *)
(* (protobuf_utils.MESSAGES["deck"]), and copied from there in a second    *)
(* step.  Threads may change places between the two; each is atomic.       *)
(***************************************************************************)
EXTENDS Integers, Sequences, FiniteSets

CONSTANTS
  Workers,   \* threads of the pool
  Spawns,    \* bound: how many deck spawn transactions there are
  Kinds      \* the asset_specific_data there may be, besides the following

NotADeck == "not a deck"      \* deck_parser returns None
Plain == "plain"              \* no data, or not CUSTOM: nothing is decoded
Undecodable == "undecodable"  \* ParseFromString raises DecodeError
NoData == "no data"           \* a message without fields

VARIABLES
  data,      \* the asset_specific_data of each spawn
  next,      \* the pool's queue: the next spawn to be taken
  working,   \* the spawn each thread parses, 0 if none
  parsed,    \* whether it has called ParseFromString
  message,   \* what MESSAGES["deck"] holds
  result,    \* the attributes of each parsed spawn; NoResult before
  yielded    \* the spawns yielded as decks

vars == <<data, next, working, parsed, message, result, yielded>>

NoResult == "no result"
All == 1 .. Spawns

Init ==
  /\ data \in [All -> Kinds \cup {NotADeck, Plain, Undecodable}]
  /\ next = 1
  /\ working = [w \in Workers |-> 0] /\ parsed = [w \in Workers |-> FALSE]
  /\ message = NoData
  /\ result = [k \in All |-> NoResult]
  /\ yielded = <<>>

Take(w) ==
  /\ working[w] = 0 /\ next <= Spawns
  /\ working' = [working EXCEPT ![w] = next]
  /\ next' = next + 1
  /\ UNCHANGED <<data, parsed, message, result, yielded>>

Job(w) == working[w]
Finish(w, attributes) ==
  /\ result' = [result EXCEPT ![Job(w)] = attributes]
  /\ working' = [working EXCEPT ![w] = 0]
  /\ parsed' = [parsed EXCEPT ![w] = FALSE]
  /\ UNCHANGED <<data, next, yielded>>

(* deck_parser for what is not a deck or has no data to decode.            *)
ParseOther(w) ==
  /\ Job(w) # 0 /\ data[Job(w)] \in {NotADeck, Plain}
  /\ Finish(w, data[Job(w)]) /\ UNCHANGED message

(* parse_protobuf: ParseFromString clears the message, and fails ...       *)
ParseFails(w) ==
  /\ Job(w) # 0 /\ data[Job(w)] = Undecodable
  /\ message' = NoData
  /\ Finish(w, NoData)

(* ... or fills it ...                                                     *)
Parse(w) ==
  /\ Job(w) # 0 /\ ~parsed[w] /\ data[Job(w)] \in Kinds
  /\ message' = data[Job(w)]
  /\ parsed' = [parsed EXCEPT ![w] = TRUE]
  /\ UNCHANGED <<data, next, working, result, yielded>>

(* ... and protobuf_to_dict copies what is in it now.                      *)
Copy(w) ==
  /\ Job(w) # 0 /\ parsed[w]
  /\ Finish(w, message) /\ UNCHANGED message

(* th.map: results come in the order of the spawns, None is left out.      *)
Before(k) == {j \in 1 .. k - 1 : result[j] # NotADeck}
Ready == {k \in All : /\ \A j \in 1 .. k : result[j] # NoResult
                      /\ Len(yielded) = Cardinality(Before(k))}

Yield == \E k \in Ready :
  /\ result[k] # NotADeck
  /\ yielded' = Append(yielded, k)
  /\ UNCHANGED <<data, next, working, parsed, message, result>>

Worker(w) == Take(w) \/ ParseOther(w) \/ ParseFails(w) \/ Parse(w) \/ Copy(w)
Next == Yield \/ \E w \in Workers : Worker(w)

Fairness == WF_vars(Yield) /\ \A w \in Workers : WF_vars(Worker(w))
Spec == Init /\ [][Next]_vars /\ Fairness

-----------------------------------------------------------------------------
(* "initialize_custom_deck_attributes" gives a deck the attributes of its  *)
(* own data, whatever other decks are parsed at the same time.             *)
OwnAttributes ==
  \A k \in All : result[k] # NoResult =>
    result[k] = IF data[k] = Undecodable THEN NoData ELSE data[k]

=============================================================================
