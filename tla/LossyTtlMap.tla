---------------------------- MODULE LossyTtlMap -----------------------------
(***************************************************************************)
(* What a cache with expiry promises whoever reads it, and all it promises *)
(* of what it answers: a read may miss at any time, for any reason; when   *)
(* it answers with a value, that is the last value put under the key, it   *)
(* was not removed since, and it was put no more than Ttl ago.             *)
(***************************************************************************)
EXTENDS Naturals

CONSTANTS Keys, Values, Ttl, Miss

VARIABLES
  written,  \* what a map that loses nothing would hold: the last put of a key
  reply,    \* the answer to the last read
  now

mapVars == <<written, reply, now>>

Absent == [present |-> FALSE]
Last(v) == [present |-> TRUE, value |-> v, at |-> now]

Init ==
  /\ written = [k \in Keys |-> Absent]
  /\ reply = Miss
  /\ now = 0

Put(k, v) ==
  /\ written' = [written EXCEPT ![k] = Last(v)]
  /\ UNCHANGED <<reply, now>>

Remove(k) ==
  /\ written' = [written EXCEPT ![k] = Absent]
  /\ UNCHANGED <<reply, now>>

Fresh(k) == written[k].present /\ now - written[k].at <= Ttl

Read(k) ==
  /\ \/ reply' = Miss
     \/ Fresh(k) /\ reply' = [key |-> k, value |-> written[k].value]
  /\ UNCHANGED <<written, now>>

Tick == now' = now + 1 /\ UNCHANGED <<written, reply>>

Next ==
  \/ \E k \in Keys : Remove(k) \/ Read(k) \/ \E v \in Values : Put(k, v)
  \/ Tick

Spec == Init /\ [][Next]_mapVars
=============================================================================
