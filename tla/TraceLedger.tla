----------------------------- MODULE TraceLedger -----------------------------
(***************************************************************************)
(* The execution trace: an append-only file of records, each written once  *)
(* per external key.  Every append first removes what a writer that died   *)
(* has left after the last newline; it does so by writing the whole file   *)
(* again in place, so a process that dies in it shortens the ledger.       *)
(***************************************************************************)
EXTENDS Integers, SequencesExt

CONSTANTS
  RoomEvents,  \* what a Matrix room may be seen to hold
  Observations \* bound on the numbers of observations

VARIABLES
  ledger,      \* the complete records, and whether something follows them
  shortened    \* a process died while it removed a tail

ledgerVars == <<ledger, shortened>>

NoRecords == [records |-> <<>>, tail |-> FALSE]
-----------------------------------------------------------------------------
(* A record: the invocation and the type name its source event; the time is *)
(* left out of the comparison of two roots only.                            *)
RecordId(r) == IF r.type = "root" THEN <<r.trace>> ELSE <<r.trace, r.inv, r.type>>
ExternalKey(r) == <<r.inv, r.type>>

EqualInvocationRoot(x, r) ==
  x.type = "root" /\ r.type = "root" /\ [x EXCEPT !.at = r.at] = r

\* Mutant: a step is the same whatever came of it.
SameStep(x, r) == [x EXCEPT !.body = r.body, !.at = r.at] = r

SameRecord(x, r) == x = r \/ EqualInvocationRoot(x, r)

\* The first record with the key or the id of r decides: r is that record, or it
\* is refused.  A record that matches none is added.
AppendIdempotent(records, r) ==
  LET hits == {k \in DOMAIN records :
                 ExternalKey(records[k]) = ExternalKey(r) \/ RecordId(records[k]) = RecordId(r)}
      first == CHOOSE k \in hits : \A j \in hits : k <= j
  IN  IF hits = {} THEN [ok |-> TRUE, records |-> Append(records, r)]
      ELSE [ok |-> SameRecord(records[first], r), records |-> records]

RootOf(records, inv) ==
  CHOOSE x \in ToSet(records) : x.inv = inv /\ x.type = "root"

Observed(records) == {x \in ToSet(records) : x.type = "matrix"}

LastObservation(records) == Max({0} \cup {x.body : x \in Observed(records)})

\* Observations of a room are numbered without gaps and never back.
ValidObservation(records, r) ==
  /\ r.body \in {LastObservation(records), LastObservation(records) + 1} \ {0}
  /\ \A x \in Observed(records) : x.body = r.body => x.inv = r.inv

\* What removeTruncatedTail leaves of the records when it is done.
WithoutTail(records) == records
-----------------------------------------------------------------------------
LedgerInit == ledger = NoRecords /\ shortened = FALSE

\* An append under the lock, of one record or of a root and a record.
Appended(result) ==
  /\ ledger' = [records |-> result.records, tail |-> FALSE]
  /\ UNCHANGED shortened

Stored == IF ledger.tail THEN WithoutTail(ledger.records) ELSE ledger.records

NormalizeMatrix(event, number) ==
  LET r == [inv |-> event, type |-> "matrix", trace |-> event, body |-> number, at |-> 0]
      result == AppendIdempotent(Stored, r)
      valid == result.records = Stored \/ ValidObservation(Stored, r)
  IN  Appended(IF valid THEN result ELSE [result EXCEPT !.records = Stored])

\* The process dies while it writes a line after `records`.
TornWrite(records) ==
  /\ ledger' = [records |-> records, tail |-> TRUE]
  /\ UNCHANGED shortened

\* It dies while it writes the file again without the tail.
TornRepair ==
  /\ ledger.tail
  /\ \E n \in 0..Len(ledger.records), tail \in BOOLEAN :
       ledger' = [records |-> SubSeq(ledger.records, 1, n), tail |-> tail]
  /\ shortened' = TRUE

LedgerNext ==
  \/ \E event \in RoomEvents, number \in 1..Observations : NormalizeMatrix(event, number)
  \/ TornRepair
=============================================================================
