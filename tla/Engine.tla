------------------------------- MODULE Engine -------------------------------
(***************************************************************************)
(* What the engine as a whole promises: a catalogue of schemas that lasts, *)
(* and in each schema that had no data when the process started a          *)
(* dictionary that lasts as long as the process.  The index of a schema is *)
(* not rebuilt: the next process finds no key until it is put again, and   *)
(* what a get answers for it then may be any value that was ever put to    *)
(* the same schema, or no value at all, or it may end the process; but     *)
(* never another schema's.                                                 *)
(***************************************************************************)
EXTENDS Catalogue

CONSTANTS
  Keys,     \* the keys
  Values,   \* the values
  Fits,     \* the <<key, value>> pairs small enough to be stored
  None,     \* the answer of a get that finds no key
  Unknown,  \* a key that is there, in a schema that had data before
  Garbage   \* the answer of a get that is no value

VARIABLES
  latest,   \* what each schema has for each key
  past,     \* the values ever put to each schema
  before,   \* those that were put before the process started
  answer    \* what the last get answered: <<schema, key, value>>

data == <<latest, past, before>>

engine_vars == <<vars, data, answer>>

EngineInit ==
  /\ Init
  /\ latest = [n \in Names |-> [k \in Keys |-> None]]
  /\ past = [n \in Names |-> {}]
  /\ before = past
  /\ answer = <<>>

(* A process ends or starts. *)
Forget ==
  /\ latest' = [n \in Names |-> [k \in Keys |-> None]]
  /\ before' = past
  /\ answer' = <<>>
  /\ UNCHANGED past

Put(n, k, v) ==
  /\ Fetch(n)
  /\ IF <<k, v>> \notin Fits THEN UNCHANGED data
     ELSE /\ latest' = [latest EXCEPT ![n][k] = IF before[n] = {} THEN v ELSE Unknown]
          /\ past' = [past EXCEPT ![n] = @ \cup {v}]
          /\ UNCHANGED before
  /\ UNCHANGED answer

Get(n, k) ==
  /\ Fetch(n)
  /\ \/ latest[n][k] # Unknown /\ answer' = <<n, k, latest[n][k]>>
     \/ latest[n][k] = Unknown /\ \E v \in past[n] \cup {Garbage} : answer' = <<n, k, v>>
  /\ UNCHANGED data

EngineNext ==
  \/ (Open \/ Killed) /\ Forget
  \/ \E n \in Names :
       \/ (FetchMissing(n) \/ Drop(n)) /\ Forget
       \/ DelKey(n) /\ IF up' THEN UNCHANGED <<data, answer>> ELSE Forget
       \/ (Create(n) \/ Fetch(n)) /\ UNCHANGED <<data, answer>>
       \/ \E k \in Keys : Get(n, k) \/ \E v \in Values : Put(n, k, v)

EngineSpec == EngineInit /\ [][EngineNext]_engine_vars
=============================================================================
