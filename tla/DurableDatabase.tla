--------------------------- MODULE DurableDatabase ----------------------------
(***************************************************************************)
(* What the storage engine promises about durability, without a disk:      *)
(* transactions become durable one at a time and whole, those that no log  *)
(* record redoes (COPY FROM) when a checkpoint ends, several of them at    *)
(* once; a commit that was acknowledged is durable; one that was refused   *)
(* never becomes so; and what is durable stays.  Crashes and recovery are  *)
(* not visible here: they are steps that change nothing.                   *)
(***************************************************************************)
CONSTANTS Txns, Copies

VARIABLES
    durable,   \* the transactions recovery brings back
    acked,     \* commits whose client was told they succeeded
    refused    \* commits whose client was told they were rolled back

vars == <<durable, acked, refused>>

Init == durable = {} /\ acked = {} /\ refused = {}

Persist(t) ==
    /\ t \notin durable \union refused
    /\ durable' = durable \union {t}
    /\ UNCHANGED <<acked, refused>>

PersistCopies(C) ==
    /\ C \intersect refused = {}
    /\ durable' = durable \union C
    /\ UNCHANGED <<acked, refused>>

Acknowledge(t) ==
    /\ t \in durable
    /\ acked' = acked \union {t}
    /\ UNCHANGED <<durable, refused>>

Refuse(t) ==
    /\ t \notin durable
    /\ refused' = refused \union {t}
    /\ UNCHANGED <<durable, acked>>

Next ==
    \/ \E t \in Txns : Persist(t) \/ Acknowledge(t) \/ Refuse(t)
    \/ \E C \in SUBSET Copies : PersistCopies(C)

Spec == Init /\ [][Next]_vars
===============================================================================
