------------------------------ MODULE SharedLog -----------------------------
(***************************************************************************)
(* What synchronisation promises, without engines, outboxes and cursors:   *)
(* one log that only grows, by records that occur once; replicas that are  *)
(* growing prefixes of it; and batches a node holds to be confirmed only   *)
(* when its own replica has them, and from then on forever.                *)
(***************************************************************************)
EXTENDS Sequences, SequencesExt

CONSTANT Nodes

VARIABLES log,        \* the records, each with an id
          replica,    \* replica[n]: what node n holds of the log
          confirmed   \* confirmed[n]: sets of records n knows to be accepted

vars == <<log, replica, confirmed>>

Once(records) ==
  \A i, j \in DOMAIN records : records[i].id = records[j].id => i = j

Init ==
  /\ Once(log)
  /\ \A n \in Nodes : IsPrefix(replica[n], log)
  /\ confirmed = [n \in Nodes |-> {}]

Grow ==
  /\ IsPrefix(log, log') /\ log' # log
  /\ Once(log')
  /\ UNCHANGED <<replica, confirmed>>

Learn(n) ==
  /\ replica' = [replica EXCEPT ![n] = replica'[n]]
  /\ IsPrefix(replica[n], replica'[n])
  /\ IsPrefix(replica'[n], log)
  /\ UNCHANGED <<log, confirmed>>

Confirm(n) ==
  \E batch \in confirmed'[n] :
    /\ batch # {} /\ batch \subseteq ToSet(replica[n])
    /\ confirmed' = [confirmed EXCEPT ![n] = @ \cup {batch}]
    /\ UNCHANGED <<log, replica>>

Next == Grow \/ \E n \in Nodes : Learn(n) \/ Confirm(n)

Spec == Init /\ [][Next]_vars
=============================================================================
