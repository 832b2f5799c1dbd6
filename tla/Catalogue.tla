----------------------------- MODULE Catalogue ------------------------------
(***************************************************************************)
(* What the catalogue of schemas keeps: a schema that was created is there *)
(* from then on, whether or not the process is killed and started again,   *)
(* and a fetch of its name finds it and no other.                          *)
(*                                                                         *)
(* A call may take the process down, and every fetch of a missing schema,  *)
(* every drop and some dels do: the catalogue is what lasts through that.  *)
(* The callers expect less, bitcask.c:64 and 76 a NULL for a missing one.  *)
(***************************************************************************)
CONSTANTS Names  \* the names of schemas

VARIABLES
  created,  \* the schemas created so far
  up,       \* is the process running?
  reply     \* the last call and its result, or how it crashed

vars == <<created, up, reply>>

Init == created = {} /\ up = FALSE /\ reply = <<>>

Open == ~up /\ up' = TRUE /\ reply' = <<>> /\ UNCHANGED created

Killed == up' = FALSE /\ reply' = <<>> /\ UNCHANGED created

Crashes(op, n) == up' = FALSE /\ reply' = <<"crash", op, n>> /\ UNCHANGED created

Create(n) ==
  /\ up
  /\ created' = created \cup {n}
  /\ reply' = <<"create", n, IF n \in created THEN "-1" ELSE "0">>
  /\ UNCHANGED up

Fetch(n) ==
  /\ up
  /\ n \in created
  /\ reply' = <<"fetch", n, n>>
  /\ UNCHANGED <<created, up>>

FetchMissing(n) == up /\ n \notin created /\ Crashes("fetch", n)

Drop(n) == up /\ Crashes("drop", n)

DelKey(n) ==
  /\ up
  /\ \/ reply' = <<"del", n, "-1">> /\ UNCHANGED <<created, up>>
     \/ n \in created /\ Crashes("del", n)

Next ==
  \/ Open
  \/ Killed
  \/ \E n \in Names :
       Create(n) \/ Fetch(n) \/ FetchMissing(n) \/ Drop(n) \/ DelKey(n)

Spec == Init /\ [][Next]_vars
=============================================================================
