----------------------------- MODULE EventStore -----------------------------
(***************************************************************************)
(* eventstore.Store: a log of one JSON line per event, chained by hashes.  *)
(* Every operation runs under the file lock, so it is one step; what an    *)
(* operation leaves behind when it fails or its process dies in the middle *)
(* is a step of its own.  A single event is appended in place, a batch by  *)
(* replacing the file.                                                     *)
(***************************************************************************)
EXTENDS Integers, SequencesExt

CONSTANTS
  Writers,    \* the processes that share the log
  Contents,   \* the events they append, without their chain fields
  Batches,    \* the batches of them
  Chains,     \* the histories Team Core may have accepted
  MaxEvents,  \* bound on the events of a behaviour
  Unread      \* what a process that has just started knows of the log

\* Events are handed over in sequences.
ASSUME HistoriesAssumption ==
  \A s \in Batches \cup Chains : s \in Seq(ToSet(s))

VARIABLES
  file,       \* the complete lines, and how the file ends
  length,     \* per writer, the number of events it last read
  answered,   \* every event an operation has returned as stored
  torn        \* a single append has failed in the middle

storeVars == <<file, length, answered, torn>>

\* The file ends after a newline ("line"), in a complete event whose newline is missing
\* ("open": the scanner still reads it), or in something that is not one event.
Readable == file.end # "garbled"
History == file.events
Known(id) == \E k \in DOMAIN History : History[k].id = id
StoredAs(id) == CHOOSE e \in ToSet(History) : e.id = id
-----------------------------------------------------------------------------
(* The chain fields.  A hash covers all that precedes it. *)
Digest(e) == Append(e.previous, <<e.sequence, e.id, e.content>>)

LastHash(history) == IF history = <<>> THEN <<>> ELSE Last(history).hash

Chained(history, c) ==
  [id |-> c.id, content |-> c.content, sequence |-> Len(history) + 1,
   previous |-> LastHash(history),
   hash |-> Append(LastHash(history), <<Len(history) + 1, c.id, c.content>>)]

\* The events of a batch follow each other: the hash of the k-th covers the history
\* and the first k of them.
ChainedBatch(history, batch) ==
  LET n == Len(history)
      Hash(k) == LastHash(history) \o [i \in 1..k |-> <<n + i, batch[i].id, batch[i].content>>]
  IN  [k \in 1..Len(batch) |->
         [id |-> batch[k].id, content |-> batch[k].content, sequence |-> n + k,
          previous |-> Hash(k - 1), hash |-> Hash(k)]]

VerifyEvent(e, preceding) ==
  /\ e.sequence = Len(preceding) + 1
  /\ e.previous = LastHash(preceding)
  /\ e.hash = Digest(e)

\* Lines written at the end of the file: the first of them lands on an open line.
Written(f, events) ==
  IF f.end = "open" THEN [f EXCEPT !.end = "garbled"]
  ELSE [events |-> f.events \o events, end |-> "line"]

\* What an append that fails leaves: nothing, a piece of the line, all of it but the
\* newline, or all of it when the flush to the disk fails.
TornAppend(f, e) ==
  {f, [f EXCEPT !.end = "garbled"], Written(f, <<e>>)} \cup
  (IF f.end = "line" THEN {[events |-> Append(f.events, e), end |-> "open"]} ELSE {})

\* Mutant: the batch is written into the file itself.
TornInPlace(f, events) == {f, Written(f, events), [f EXCEPT !.end = "garbled"]}

\* What a replacement that fails leaves: the temporary file is renamed or it is not.
TornReplacement(f, events) == {f, Written(f, events)}

Room(n) == Len(History) + n <= MaxEvents
-----------------------------------------------------------------------------
StoreInit ==
  /\ file = [events |-> <<>>, end |-> "line"]
  /\ length = [w \in Writers |-> Unread]
  /\ answered = {}
  /\ torn = FALSE

ReadAll(w) ==
  /\ Readable
  /\ length' = [length EXCEPT ![w] = Len(History)]
  /\ UNCHANGED <<file, answered, torn>>

Reply(events) ==
  /\ answered' = answered \cup events
  /\ UNCHANGED <<length, torn>>

\* An event stored before is returned as it was, if its content is the same.
AnswerStored(c) ==
  /\ Known(c.id) /\ StoredAs(c.id).content = c.content
  /\ Reply({StoredAs(c.id)})
  /\ UNCHANGED file

WriteEvent(c) ==
  /\ ~Known(c.id) /\ Room(1)
  /\ file' = Written(file, <<Chained(History, c)>>)
  /\ Reply({Chained(History, c)})

AppendEvent(c) == Readable /\ (AnswerStored(c) \/ WriteEvent(c))

AppendEventIfUnchanged(w, c) ==
  /\ Readable /\ length[w] = Len(History)
  /\ AnswerStored(c) \/ WriteEvent(c)

FailedAppend(w, c) ==
  /\ Readable /\ ~Known(c.id) /\ Room(1)
  /\ file' \in TornAppend(file, Chained(History, c))
  /\ torn' = TRUE
  /\ length' = [length EXCEPT ![w] = Unread]
  /\ UNCHANGED answered

DistinctIds(batch) ==
  \A i, j \in DOMAIN batch : batch[i].id = batch[j].id => i = j

\* Mutant: only the first event of the batch is looked up.
FirstNotStored(batch) == ~Known(batch[1].id)

NoneStored(batch) == \A k \in DOMAIN batch : ~Known(batch[k].id)

WriteBatch(w, batch) ==
  LET new == ChainedBatch(History, batch)
  IN  /\ length[w] = Len(History) /\ Room(Len(batch))
      /\ DistinctIds(batch) /\ NoneStored(batch)
      /\ file' = Written(file, new)
      /\ Reply(ToSet(new))

AppendBatch(w, batch) == Readable /\ WriteBatch(w, batch)

\* A batch that is stored as a whole is answered as it was stored; one stored in
\* part, or with another content, is refused.
AppendBatchIdempotent(w, batch) ==
  /\ Readable
  /\ \/ /\ \A k \in DOMAIN batch :
             Known(batch[k].id) /\ StoredAs(batch[k].id).content = batch[k].content
        /\ Reply({StoredAs(batch[k].id) : k \in DOMAIN batch})
        /\ UNCHANGED file
     \/ WriteBatch(w, batch)

FailedBatch(w, batch) ==
  /\ Readable /\ length[w] = Len(History) /\ Room(Len(batch))
  /\ DistinctIds(batch) /\ NoneStored(batch)
  /\ file' \in TornReplacement(file, ChainedBatch(History, batch))
  /\ length' = [length EXCEPT ![w] = Unread]
  /\ UNCHANGED <<answered, torn>>

\* A replica takes a piece of the accepted history, whose sequence numbers follow
\* each other: what the replica has must be the same, what it has not must continue
\* its chain under ids of its own.
NewEvents(piece) == SubSeq(piece, Len(History) + 2 - piece[1].sequence, Len(piece))

Continues(piece) ==
  /\ piece[1].sequence \in 1..(Len(History) + 1)
  /\ \A k \in DOMAIN piece :
       /\ piece[k].sequence = piece[1].sequence + k - 1
       /\ piece[k].sequence <= Len(History) => History[piece[k].sequence] = piece[k]
  /\ LET new == NewEvents(piece)
     IN  /\ DistinctIds(new)
         /\ \A k \in DOMAIN new :
              /\ ~Known(new[k].id)
              /\ VerifyEvent(new[k], History \o SubSeq(new, 1, k - 1))

ImportAcceptedBatch(w, piece) ==
  LET new == NewEvents(piece)
  IN  /\ Readable /\ Continues(piece) /\ Room(Len(new))
      /\ file' = IF new = <<>> THEN file ELSE Written(file, new)
      /\ Reply(ToSet(piece))

FailedImport(w, piece) ==
  LET new == NewEvents(piece)
  IN  /\ Readable /\ Continues(piece) /\ Room(Len(new)) /\ new # <<>>
      /\ file' \in TornReplacement(file, new)
      /\ length' = [length EXCEPT ![w] = Unread]
      /\ UNCHANGED <<answered, torn>>

Pieces == UNION {{SubSeq(c, i, j) : i \in 1..Len(c), j \in 1..Len(c)} : c \in Chains} \ {<<>>}

StoreNext ==
  \E w \in Writers :
    \/ ReadAll(w)
    \/ \E c \in Contents :
         AppendEvent(c) \/ AppendEventIfUnchanged(w, c) \/ FailedAppend(w, c)
    \/ \E b \in Batches :
         AppendBatch(w, b) \/ AppendBatchIdempotent(w, b) \/ FailedBatch(w, b)
    \/ \E piece \in Pieces : ImportAcceptedBatch(w, piece) \/ FailedImport(w, piece)

StoreSpec == StoreInit /\ [][StoreNext]_storeVars
-----------------------------------------------------------------------------
\* What an operation has answered as stored is in every history read later, at the
\* place it was answered with, and no event is answered twice with another place:
\* Team Core's answers to a retried push, and the receipts of the clients, carry
\* these chain fields.
AnswersStay ==
  /\ \A a, b \in answered : a.id = b.id => a = b
  /\ Readable => \A a \in answered :
       a.sequence <= Len(History) /\ History[a.sequence] = a

\* A batch can never be what makes the history unreadable or leaves an open end:
\* only a single append that failed before can.  (After such an append the next
\* write, of either kind, may be answered as stored and end the history.)
OnlyTornAppendsSpoil == file.end # "line" => torn
=============================================================================
