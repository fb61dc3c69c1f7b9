----------------------------- MODULE LocalCore -----------------------------
(***************************************************************************)
(* The life of the local Core of a project: three lock files, and core.json *)
(* that tells the other commands where it serves.  A core is found by its  *)
(* control key, here the number it was made with.  A lock is released when *)
(* its holder ends, core.json is not.                                      *)
(***************************************************************************)
EXTENDS Integers, FiniteSets

CONSTANTS
  Processes,  \* the commands that run at a time, and the goroutines of Ensure
  MaxKeys     \* bound on the cores of a behaviour

NoKey == 0
Nobody == "nobody"

ASSUME ProcessesAssumption == Nobody \notin Processes

VARIABLES
  metadata,   \* the key in core.json, or NoKey
  launching,  \* the holder of core-open.lock
  starting,   \* the holder of core-start.lock
  core,       \* the holder of core.lock
  process,    \* what each process does
  keys,       \* the number of keys made
  doubted,    \* the cores that were serving when a check or a request failed
  stopped,    \* the cores that have received a stop
  adrift      \* a goroutine went on after its Ensure had returned

coreVars == <<metadata, launching, starting, core, process, keys, doubted, stopped, adrift>>
lockVars == <<launching, starting, core>>
ghostVars == <<doubted, stopped, adrift>>

Ended == [phase |-> "ended", op |-> "none", key |-> NoKey, parent |-> Nobody]
Begun(op, phase, parent) == [phase |-> phase, op |-> op, key |-> NoKey, parent |-> parent]

CoreInit ==
  /\ metadata = NoKey
  /\ launching = Nobody /\ starting = Nobody /\ core = Nobody
  /\ process = [p \in Processes |-> Ended]
  /\ keys = 0 /\ doubted = {} /\ stopped = {} /\ adrift = FALSE
-----------------------------------------------------------------------------
In(p, phase) == process[p].phase = phase
Op(p) == process[p].op
Moves(p, next) == process' = [process EXCEPT ![p] = next]
MovesTo(p, phase) == Moves(p, [process[p] EXCEPT !.phase = phase])

Unlocked(lock, p) == IF lock = p THEN Nobody ELSE lock
ReleaseAll(p) ==
  launching' = Unlocked(launching, p) /\ starting' = Unlocked(starting, p) /\ core' = Unlocked(core, p)

\* The command is over: what it holds is unlocked.
Over(p) == Moves(p, Ended) /\ ReleaseAll(p)

Serving(key) == \E p \in Processes : In(p, "serving") /\ process[p].key = key

\* A check of a core that serves may fail; the plain check of Ensure may be answered by
\* whatever listens on the port of a core that is gone.
Check(p, key, healthy) ==
  /\ healthy => Serving(key) \/ Op(p) = "ensure"
  /\ doubted' = IF Serving(key) /\ ~healthy THEN doubted \cup {key} ELSE doubted
  /\ UNCHANGED <<stopped, adrift>>
-----------------------------------------------------------------------------
Begin(p, op) ==
  /\ In(p, "ended")
  /\ Moves(p, Begun(op, IF op = "open" THEN "launch" ELSE "start", Nobody))
  /\ UNCHANGED <<metadata, lockVars, keys, ghostVars>>

TakeLaunchLock(p) ==
  /\ In(p, "launch") /\ launching = Nobody
  /\ launching' = p
  /\ MovesTo(p, "look")
  /\ UNCHANGED <<metadata, starting, core, keys, ghostVars>>

TakeStartupLock(p) ==
  /\ In(p, "start") /\ starting = Nobody
  /\ starting' = p
  /\ MovesTo(p, IF Op(p) = "cleanup" THEN "compare" ELSE "look")
  /\ UNCHANGED <<metadata, launching, core, keys, ghostVars>>

\* What follows when there is no core.json, or it was removed.
Onwards(p) ==
  CASE Op(p) = "serve" -> MovesTo(p, "core") /\ UNCHANGED lockVars
    [] Op(p) \in {"ensure", "open"} -> MovesTo(p, "spawn") /\ UNCHANGED lockVars
    [] OTHER -> Over(p)

\* core.json is read and the core it names is checked.
Look(p) ==
  /\ In(p, "look")
  /\ \/ metadata = NoKey /\ Onwards(p) /\ UNCHANGED ghostVars
     \/ /\ metadata # NoKey
        /\ \E healthy \in BOOLEAN :
             /\ Check(p, metadata, healthy)
             /\ \/ healthy /\ Op(p) # "stop" /\ Over(p)
                \/ /\ healthy /\ Op(p) = "stop"
                   /\ Moves(p, [process[p] EXCEPT !.phase = "post", !.key = metadata])
                   /\ UNCHANGED lockVars
                \/ ~healthy /\ Op(p) = "open" /\ Onwards(p)
                \/ /\ ~healthy /\ Op(p) # "open"
                   /\ Moves(p, [process[p] EXCEPT !.phase = "compare", !.key = metadata])
                   /\ UNCHANGED lockVars
  /\ UNCHANGED <<metadata, keys>>

\* The stop is received, or not; either way core.json is removed, but for a caller
\* whose own time is over.
PostStop(p) ==
  /\ In(p, "post")
  /\ \/ Serving(process[p].key) /\ stopped' = stopped \cup {process[p].key} /\ UNCHANGED doubted
     \/ doubted' = doubted \cup {process[p].key} /\ UNCHANGED stopped
  /\ \/ MovesTo(p, "compare") /\ UNCHANGED lockVars
     \/ Over(p)
  /\ UNCHANGED <<metadata, keys, adrift>>

\* Mutant: any core.json is removed.
Present(p) == metadata # NoKey

\* removeMetadataIfOwned: core.json is read again, and removed if it has the key.
Owned(p) == metadata = process[p].key

CompareKey(p) ==
  /\ In(p, "compare")
  /\ IF Owned(p) THEN MovesTo(p, "remove") /\ UNCHANGED lockVars ELSE Onwards(p)
  /\ UNCHANGED <<metadata, keys, ghostVars>>

RemoveMetadata(p) ==
  /\ In(p, "remove")
  /\ metadata' = NoKey
  /\ Onwards(p)
  /\ UNCHANGED <<keys, ghostVars>>

\* The startup lock is kept while a core waits for the one before it to end.
TakeProjectLock(p) ==
  /\ In(p, "core") /\ core = Nobody
  /\ core' = p
  /\ MovesTo(p, "publish")
  /\ UNCHANGED <<metadata, launching, starting, keys, ghostVars>>

WriteMetadata(p) ==
  /\ In(p, "publish") /\ keys < MaxKeys
  /\ keys' = keys + 1 /\ metadata' = keys + 1
  /\ Moves(p, [process[p] EXCEPT !.phase = "serving", !.key = keys + 1])
  /\ starting' = Unlocked(starting, p)
  /\ UNCHANGED <<launching, core, ghostVars>>

\* A stop has come, the context is done, or serving fails: the project lock is given up
\* before core.json is removed.
Shutdown(p) ==
  /\ In(p, "serving")
  /\ core' = Nobody
  /\ Moves(p, [process[p] EXCEPT !.phase = "start", !.op = "cleanup"])
  /\ UNCHANGED <<metadata, launching, starting, keys, ghostVars>>

\* Ensure starts a goroutine under its own lock, open a process that takes it itself.
Spawn(p) ==
  /\ In(p, "spawn")
  /\ \E q \in Processes :
       /\ In(q, "ended")
       /\ process' = [process EXCEPT
            ![p].phase = "wait",
            ![q] = IF Op(p) = "ensure" THEN Begun("serve", "look", p)
                                       ELSE Begun("serve", "start", Nobody)]
  /\ UNCHANGED <<metadata, lockVars, keys, ghostVars>>

Pending(p) ==
  \E q \in Processes : process[q].parent = p /\ process[q].phase \notin {"ended", "serving", "start"}

\* It waits for a healthy core, and not for ever.
Waited(p) ==
  /\ In(p, "wait")
  /\ Over(p)
  /\ adrift' = (adrift \/ Pending(p))
  /\ UNCHANGED <<metadata, keys, doubted, stopped>>

\* A command whose time is over while it waits for a lock, and a core that cannot listen.
GivesUp(p) ==
  /\ process[p].phase \in {"launch", "start", "core", "publish"} /\ Op(p) # "cleanup"
  /\ Over(p)
  /\ UNCHANGED <<metadata, keys, ghostVars>>

\* A process is killed, and its goroutine with it.
Dies(p) ==
  LET gone == {p} \cup {q \in Processes : process[q].parent = p}
      Left(lock) == IF lock \in gone THEN Nobody ELSE lock
  IN  /\ ~In(p, "ended")
      /\ process' = [q \in Processes |-> IF q \in gone THEN Ended ELSE process[q]]
      /\ launching' = Left(launching) /\ starting' = Left(starting) /\ core' = Left(core)
      /\ UNCHANGED <<metadata, keys, ghostVars>>

CoreNext ==
  \E p \in Processes :
    \/ \E op \in {"serve", "ensure", "open", "stop"} : Begin(p, op)
    \/ TakeLaunchLock(p) \/ TakeStartupLock(p) \/ Look(p) \/ PostStop(p) \/ CompareKey(p)
    \/ RemoveMetadata(p) \/ TakeProjectLock(p) \/ WriteMetadata(p) \/ Shutdown(p)
    \/ Spawn(p) \/ Waited(p) \/ GivesUp(p) \/ Dies(p)

CoreSpec == CoreInit /\ [][CoreNext]_coreVars
-----------------------------------------------------------------------------
\* One core serves at a time, and core.json names it, so that every command finds it:
\* no core that ends or starts removes what another has written, unless a check or a
\* stop of the serving core failed, it was told to stop, or an Ensure has returned
\* before its goroutine had started to serve.
CoreIsKnown ==
  /\ \A p, q \in Processes : In(p, "serving") /\ In(q, "serving") => p = q
  /\ ~adrift => \A p \in Processes :
       In(p, "serving") /\ process[p].key \notin doubted \cup stopped =>
         metadata = process[p].key
=============================================================================
