------------------------------ MODULE Baggage ------------------------------
(***************************************************************************)
(* The baggage of a context (opentelemetry/src/baggage.rs): a map from     *)
(* names to values with metadata, with a limit on the number of its pairs  *)
(* and one on their total length, which is kept in a counter.  A pair is   *)
(* its length here; a baggage built from an iterator is one insertion      *)
(* after another.                                                          *)
(*                                                                         *)
(* A definition marked as a slip is not part of the model: it is a wrong   *)
(* form of the definition after it, which the properties must reject.      *)
(***************************************************************************)
EXTENDS Integers, FiniteSets, FiniteSetsExt

CONSTANTS
    Names, InvalidNames,   \* names, and those of them with a character not allowed
    PairLengths,           \* length of name, value and metadata together
    MaxKeyValuePairs,      \* MAX_KEY_VALUE_PAIRS: 64 in the code
    MaxLenOfAllPairs       \* MAX_LEN_OF_ALL_PAIRS: 8192 in the code

ASSUME BaggageAssumption ==
    /\ InvalidNames \subseteq Names /\ PairLengths \subseteq Nat \ {0}
    /\ MaxKeyValuePairs \in Nat /\ MaxLenOfAllPairs \in Nat

VARIABLES
    pairs,          \* inner: the length of each pair, by name
    kvContentLen    \* kv_content_len

baggageVars == <<pairs, kvContentLen>>

BaggageInit == pairs = [n \in {} |-> 0] /\ kvContentLen = 0

(* Slip: what the new value adds to a replaced one is not counted. *)
LengthForgotten(name, length) ==
    IF name \in DOMAIN pairs THEN kvContentLen ELSE kvContentLen + length
NewContentLen(name, length) ==
    kvContentLen + length - (IF name \in DOMAIN pairs THEN pairs[name] ELSE 0)

(* A name that is there was valid and takes no new place. *)
Refused(name, length) ==
    \/ name \notin DOMAIN pairs
       /\ (name \in InvalidNames \/ Cardinality(DOMAIN pairs) = MaxKeyValuePairs)
    \/ NewContentLen(name, length) > MaxLenOfAllPairs

(* insert_with_metadata *)
BaggageInsert(name, length) ==
    IF Refused(name, length) THEN UNCHANGED baggageVars
    ELSE /\ pairs' = [n \in DOMAIN pairs \cup {name} |-> IF n = name THEN length ELSE pairs[n]]
         /\ kvContentLen' = NewContentLen(name, length)

(* remove *)
BaggageRemove(name) ==
    /\ name \in DOMAIN pairs
    /\ pairs' = [n \in DOMAIN pairs \ {name} |-> pairs[n]]
    /\ UNCHANGED kvContentLen

BaggageNext ==
    \/ \E name \in Names, length \in PairLengths : BaggageInsert(name, length)
    \/ \E name \in Names : BaggageRemove(name)

(* with_cleared_baggage starts from an empty one again. *)
BaggageSpec == BaggageInit /\ [][BaggageNext]_baggageVars

-----------------------------------------------------------------------------
ContentLength == MapThenSumSet(LAMBDA n : pairs[n], DOMAIN pairs)

(* "Maximum number of name/value pairs: 64. Maximum total length of all     *)
(* name/value pairs: 8192." hold whatever is inserted, replaced or removed, *)
(* and the counter never falls below what is there, so that taking a        *)
(* replaced pair from it does not wrap.                                     *)
BaggageWithinLimits ==
    /\ DOMAIN pairs \subseteq Names \ InvalidNames
    /\ Cardinality(DOMAIN pairs) <= MaxKeyValuePairs
    /\ ContentLength <= MaxLenOfAllPairs
    /\ ContentLength <= kvContentLen
=============================================================================
