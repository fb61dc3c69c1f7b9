--------------------------- MODULE CommandsProofs ---------------------------
(***************************************************************************)
(* For any callers of Team Core, any requests, conflicts and decisions: an *)
(* event is accepted once, a retry gets the same answer, a batch that was  *)
(* set aside stays out, only a batch whose base has moved can make the     *)
(* accepted log irreducible, and where it replays every event was          *)
(* authorized where it landed.                                             *)
(*                                                                         *)
(* The first part reasons about what replaying a history gives: the fold   *)
(* that Reduce is has one state after each event (a trace), and what holds *)
(* of the first and is kept by Apply holds of the last.                    *)
(***************************************************************************)
EXTENDS TeamCommands, TeamCoreProofs

\* Induction on the numbers up to m, for a set of them.
LEMMA UpTo ==
  ASSUME NEW m \in Nat, NEW N, 0 \in N, \A n \in 0..m - 1 : n \in N => n + 1 \in N
  PROVE  \A n \in 0..m : n \in N
<1>. DEFINE S == {n \in 0..m : n \notin N}
<1>1. ASSUME S # {} PROVE FALSE
  <2>1. S \subseteq Nat
    OBVIOUS
  <2>2. PICK x \in S : \A y \in S : x <= y
    BY <1>1, <2>1, LeastExists
  <2>. HIDE DEF S
  <2>3. x \in 0..m /\ x \notin N
    BY <2>2 DEF S
  <2>4. x - 1 \in 0..m - 1
    BY <2>3
  <2>5. x - 1 \in N
    BY <2>2, <2>3, <2>4 DEF S
  <2>6. QED
    BY <2>3, <2>4, <2>5
<1>2. QED
  BY <1>1

\* The states that a history leaves, one after the other.
IsTrace(f, s, h, m) == f = [n \in 0..m |-> IF n = 0 THEN s ELSE Apply(f[n - 1], h[n])]

LEMMA TraceExists ==
  ASSUME NEW s, NEW h, NEW m \in Nat
  PROVE  \E f : IsTrace(f, s, h, m)
<1>. DEFINE N == {n \in 0..m : \E f : IsTrace(f, s, h, n)}
<1>1. 0 \in N
  <2>. DEFINE f == [n \in 0..0 |-> s]
  <2>1. f = [n \in 0..0 |-> IF n = 0 THEN s ELSE Apply(f[n - 1], h[n])]
    OBVIOUS
  <2>2. IsTrace(f, s, h, 0)
    BY <2>1 DEF IsTrace
  <2>3. QED
    BY <2>2
<1>2. ASSUME NEW n \in 0..m - 1, n \in N
      PROVE  n + 1 \in N
  <2>1. PICK f : IsTrace(f, s, h, n)
    BY <1>2
  <2>. DEFINE g == [i \in 0..n + 1 |-> IF i <= n THEN f[i] ELSE Apply(f[n], h[n + 1])]
  <2>2. \A i \in 0..n : f[i] = IF i = 0 THEN s ELSE Apply(f[i - 1], h[i])
    BY <2>1 DEF IsTrace
  <2>3. \A i \in 0..n + 1 : g[i] = IF i = 0 THEN s ELSE Apply(g[i - 1], h[i])
    <3>1. TAKE i \in 0..n + 1
    <3>2. CASE i <= n
      BY <2>2, <3>2
    <3>3. CASE i = n + 1
      BY <3>3
    <3>4. QED
      BY <3>2, <3>3
  <2>4. g = [i \in 0..n + 1 |-> g[i]]
    OBVIOUS
  <2>. HIDE DEF g
  <2>5. IsTrace(g, s, h, n + 1)
    BY <2>3, <2>4 DEF IsTrace
  <2>6. QED
    BY <2>5
<1>. HIDE DEF N
<1>3. m \in N
  BY <1>1, <1>2, UpTo
<1>4. QED
  BY <1>3 DEF N

LEMMA ReplayIsTrace ==
  ASSUME NEW s, NEW h, IsSequence(h)
  PROVE  \E f : IsTrace(f, s, h, Len(h)) /\ Replay(s, h) = f[Len(h)]
<1>. DEFINE Chosen(r, n) == CHOOSE t \in {Apply(x, h[n]) : x \in {r}} : TRUE
            f == CHOOSE f : f = [n \in 0..Len(h) |-> IF n = 0 THEN s
                     ELSE CHOOSE t \in {Apply(r, h[n]) : r \in {f[n - 1]}} : TRUE]
<1>1. Replay(s, h) = f[Len(h)]
  BY DEF Replay, Fold
<1>2. \A r, n : Chosen(r, n) = Apply(r, h[n])
  OBVIOUS
<1>3. Len(h) \in Nat
  BY SequenceDomain
<1>4. PICK g : IsTrace(g, s, h, Len(h))
  BY <1>3, TraceExists
<1>5. g = [n \in 0..Len(h) |-> IF n = 0 THEN s ELSE Chosen(g[n - 1], n)]
  <2>. HIDE DEF Chosen
  <2>1. QED
    BY <1>2, <1>4, Zenon DEF IsTrace
<1>6. f = [n \in 0..Len(h) |-> IF n = 0 THEN s ELSE Chosen(f[n - 1], n)]
  BY <1>5, Zenon
<1>7. IsTrace(f, s, h, Len(h))
  <2>. HIDE DEF Chosen, f
  <2>1. QED
    BY <1>2, <1>6, Zenon DEF IsTrace
<1>. HIDE DEF f
<1>8. QED
  BY <1>1, <1>7

\* The same, step by step.
Runs(f, s, h, m) == f[0] = s /\ \A n \in 0..m - 1 : f[n + 1] = Apply(f[n], h[n + 1])

LEMMA TraceRuns ==
  ASSUME NEW f, NEW s, NEW h, NEW m \in Nat, IsTrace(f, s, h, m)
  PROVE  Runs(f, s, h, m)
<1>1. \A n \in 0..m : f[n] = IF n = 0 THEN s ELSE Apply(f[n - 1], h[n])
  BY DEF IsTrace
<1>2. f[0] = s
  BY <1>1
<1>3. \A n \in 0..m - 1 : n + 1 \in 0..m /\ (n + 1) - 1 = n /\ n + 1 # 0
  OBVIOUS
<1>4. QED
  BY <1>1, <1>2, <1>3 DEF Runs

LEMMA ReplayRuns ==
  ASSUME NEW s, NEW h, IsSequence(h)
  PROVE  \E f : Runs(f, s, h, Len(h)) /\ Replay(s, h) = f[Len(h)]
<1>1. PICK f : IsTrace(f, s, h, Len(h)) /\ Replay(s, h) = f[Len(h)]
  BY ReplayIsTrace
<1>2. Runs(f, s, h, Len(h))
  BY <1>1, TraceRuns, SequenceDomain
<1>3. QED
  BY <1>1, <1>2

\* Two runs over the same events end in the same state.
SameUpTo(h, k, m) == \A n \in 1..m : h[n] = k[n]

LEMMA RunIsUnique ==
  ASSUME NEW f, NEW g, NEW s, NEW h, NEW k, NEW m \in Nat,
         Runs(f, s, h, m), Runs(g, s, k, m), SameUpTo(h, k, m)
  PROVE  f[m] = g[m]
<1>. DEFINE N == {n \in 0..m : f[n] = g[n]}
<1>1. 0 \in N
  BY DEF Runs
<1>2. ASSUME NEW n \in 0..m - 1, n \in N PROVE n + 1 \in N
  <2>1. n + 1 \in 1..m /\ n + 1 \in 0..m
    OBVIOUS
  <2>2. f[n + 1] = Apply(f[n], h[n + 1]) /\ g[n + 1] = Apply(g[n], k[n + 1])
    BY DEF Runs
  <2>3. QED
    BY <1>2, <2>1, <2>2 DEF SameUpTo
<1>. HIDE DEF N
<1>3. m \in N
  BY <1>1, <1>2, UpTo
<1>4. QED
  BY <1>3 DEF N

LEMMA ReplayEmpty ==
  ASSUME NEW s
  PROVE  Replay(s, <<>>) = s
<1>1. IsSequence(<<>>) /\ Len(<<>>) = 0
  BY EmptyIsSequence
<1>2. PICK f : Runs(f, s, <<>>, Len(<<>>)) /\ Replay(s, <<>>) = f[Len(<<>>)]
  BY <1>1, ReplayRuns
<1>3. QED
  BY <1>1, <1>2 DEF Runs

LEMMA ReplayConcat ==
  ASSUME NEW s, NEW h, NEW new, IsSequence(h), IsSequence(new)
  PROVE  Replay(s, h \o new) = Replay(Replay(s, h), new)
<1>. DEFINE m == Len(h)
            l == Len(new)
            all == h \o new
<1>1. /\ m \in Nat /\ l \in Nat /\ IsSequence(all) /\ Len(all) = m + l
      /\ \A i \in 1..m + l : all[i] = IF i <= m THEN h[i] ELSE new[i - m]
  BY ConcatSequence, SequenceDomain
<1>. HIDE DEF m, l, all
<1>2. PICK f : Runs(f, s, all, m + l) /\ Replay(s, all) = f[m + l]
  <2>1. PICK f : Runs(f, s, all, Len(all)) /\ Replay(s, all) = f[Len(all)]
    BY <1>1, ReplayRuns
  <2>2. QED
    BY <1>1, <2>1
<1>3. PICK g : Runs(g, s, h, m) /\ Replay(s, h) = g[m]
  BY ReplayRuns DEF m
<1>4. PICK k : Runs(k, g[m], new, l) /\ Replay(g[m], new) = k[l]
  BY ReplayRuns DEF l
<1>5. f[m] = g[m]
  <2>1. SameUpTo(all, h, m)
    BY <1>1 DEF SameUpTo
  <2>2. Runs(f, s, all, m)
    BY <1>1, <1>2 DEF Runs
  <2>3. QED
    BY <1>1, <1>3, <2>1, <2>2, RunIsUnique
<1>. DEFINE q == [n \in 0..l |-> f[m + n]]
            tail == [n \in 1..l |-> all[m + n]]
<1>6. q[0] = g[m] /\ q[l] = f[m + l]
  BY <1>1, <1>5
<1>7. \A n \in 0..l - 1 : q[n + 1] = Apply(q[n], tail[n + 1])
  <2>. TAKE n \in 0..l - 1
  <2>1. /\ m + n \in 0..m + l - 1 /\ (m + n) + 1 = m + (n + 1) /\ n + 1 \in 1..l /\ n + 1 \in 0..l
        /\ n \in 0..l
    BY <1>1
  <2>. DEFINE i == m + n
  <2>2. i \in 0..m + l - 1
    BY <2>1
  <2>. HIDE DEF i
  <2>. DEFINE top == m + l
  <2>. HIDE DEF top
  <2>3. f[i + 1] = Apply(f[i], all[i + 1])
    <3>1. Runs(f, s, all, top) /\ i \in 0..top - 1 /\ top \in Nat
      BY <1>1, <1>2, <2>2 DEF top
    <3>2. QED
      BY <3>1 DEF Runs
  <2>4. QED
    BY <2>1, <2>3 DEF i
<1>8. SameUpTo(tail, new, l)
  <2>1. ASSUME NEW n \in 1..l PROVE tail[n] = new[n]
    <3>1. m + n \in 1..m + l /\ ~(m + n <= m) /\ (m + n) - m = n
      BY <1>1
    <3>2. QED
      BY <1>1, <3>1
  <2>2. QED
    BY <2>1, Zenon DEF SameUpTo
<1>. HIDE DEF q, tail
<1>9. Runs(q, g[m], tail, l)
  BY <1>6, <1>7 DEF Runs
<1>10. q[l] = k[l]
  BY <1>1, <1>4, <1>8, <1>9, RunIsUnique
<1>11. QED
  BY <1>2, <1>3, <1>4, <1>6, <1>10 DEF all

LEMMA ReplayOne ==
  ASSUME NEW s, NEW e
  PROVE  Replay(s, <<e>>) = Apply(s, e)
<1>. DEFINE h == <<e>>
<1>1. IsSequence(h) /\ Len(h) = 1 /\ h[1] = e
  <2>1. h \in Seq({e})
    OBVIOUS
  <2>2. QED
    BY <2>1, MemberIsSequence
<1>. HIDE DEF h
<1>2. PICK f : Runs(f, s, h, Len(h)) /\ Replay(s, h) = f[Len(h)]
  BY <1>1, ReplayRuns
<1>3. f[0] = s /\ f[0 + 1] = Apply(f[0], h[0 + 1])
  BY <1>1, <1>2 DEF Runs
<1>4. QED
  BY <1>1, <1>2, <1>3 DEF h
-----------------------------------------------------------------------------
(***************************************************************************)
(* What one event does to the state of a project.                          *)
(***************************************************************************)
IsLease(l) ==
  /\ l = [status |-> l.status, subject |-> l.subject, task |-> l.task,
          scope |-> l.scope, until |-> l.until]
  /\ l.task \in Tasks \cup {None}

IsTask(t) == t = [status |-> t.status, goal |-> t.goal, runner |-> t.runner]

IsConflict(c) ==
  c = [id |-> c.id, code |-> c.code, batch |-> c.batch,
       local |-> c.local, scope |-> c.scope, open |-> c.open]

IsState(s) ==
  /\ s = [ok |-> s.ok, ids |-> s.ids, goal |-> s.goal, change |-> s.change,
          lease |-> s.lease, task |-> s.task, conflicts |-> s.conflicts]
  /\ s.ok \in BOOLEAN /\ s.goal \in Nat
  /\ s.lease = [l \in Leases |-> s.lease[l]] /\ \A l \in Leases : IsLease(s.lease[l])
  /\ s.task = [t \in Tasks |-> s.task[t]] /\ \A t \in Tasks : IsTask(s.task[t])
  /\ \A c \in s.conflicts : IsConflict(c)

LEMMA InitialState == IsState(Uninitialized)
<1>. DEFINE lease == [l \in Leases |-> [status |-> "none", subject |-> None, task |-> None,
                                        scope |-> {}, until |-> 0]]
            task == [t \in Tasks |-> [status |-> "none", goal |-> 0, runner |-> None]]
            yes == TRUE
<1>1. /\ lease = [l \in Leases |-> lease[l]] /\ task = [t \in Tasks |-> task[t]]
      /\ \A l \in Leases : IsLease(lease[l])
      /\ \A t \in Tasks : IsTask(task[t])
  BY DEF IsLease, IsTask
<1>2. yes \in BOOLEAN
  OBVIOUS
<1>3. Uninitialized = [ok |-> yes, ids |-> {}, goal |-> 0,
                       change |-> [c \in Changes |-> [status |-> "none", base |-> 0]],
                       lease |-> lease, task |-> task, conflicts |-> {}]
  BY DEF Uninitialized
<1>. HIDE DEF lease, task, yes
<1>4. QED
  BY <1>1, <1>2, <1>3 DEF IsState

\* What the applied event of a type leaves of a state: its shape and its goal.
After(s, next) ==
  /\ IsState(next) /\ s.goal <= next.goal
  /\ next.ok = s.ok /\ next.ids = s.ids

\* A state that differs in its goal, changes and conflicts only.
LEMMA TasksKept ==
  ASSUME NEW s, IsState(s), NEW goal \in Nat, s.goal <= goal, NEW change, NEW lease, NEW conflicts,
         lease = [l \in Leases |-> lease[l]], \A l \in Leases : IsLease(lease[l]),
         \A c \in conflicts : IsConflict(c)
  PROVE  After(s, [ok |-> s.ok, ids |-> s.ids, goal |-> goal, change |-> change,
                   lease |-> lease, task |-> s.task, conflicts |-> conflicts])
  BY DEF After, IsState

LEMMA GoalChangeAfter ==
  ASSUME NEW s, IsState(s), NEW e, e.type \in GoalChanges
  PROVE  After(s, ApplyGoalChange(s, e)) /\ ApplyGoalChange(s, e).conflicts = s.conflicts
<1>. DEFINE R(goal, change, lease) ==
              [ok |-> s.ok, ids |-> s.ids, goal |-> goal, change |-> change,
               lease |-> lease, task |-> s.task, conflicts |-> s.conflicts]
<1>1. s = R(s.goal, s.change, s.lease) /\ s.goal \in Nat /\ s.goal + 1 \in Nat
  BY DEF IsState
<1>2. \A goal \in Nat : \A change, lease :
        s.goal <= goal /\ lease = [l \in Leases |-> lease[l]] /\ (\A l \in Leases : IsLease(lease[l]))
        => After(s, R(goal, change, lease)) /\ R(goal, change, lease).conflicts = s.conflicts
  BY TasksKept DEF IsState
<1>. DEFINE stale == MarkOlderBindingsStale(s.lease)
<1>3. stale = [l \in Leases |-> stale[l]] /\ \A l \in Leases : IsLease(stale[l])
  <2>1. stale = [l \in Leases |-> IF s.lease[l].status = "active"
                                  THEN [s.lease[l] EXCEPT !.status = "stale"] ELSE s.lease[l]]
    BY DEF MarkOlderBindingsStale, IsState
  <2>2. \A l \in Leases : IsLease(s.lease[l]) => IsLease([s.lease[l] EXCEPT !.status = "stale"])
    BY DEF IsLease
  <2>3. QED
    BY <2>1, <2>2 DEF IsState
<1>4. CASE e.type = "goal.change.proposed"
  <2>. DEFINE change == [s.change EXCEPT ![e.on] = [status |-> "proposed", base |-> s.goal]]
  <2>1. ApplyGoalChange(s, e) = [s EXCEPT !.change = change]
    BY <1>4 DEF ApplyGoalChange
  <2>. HIDE DEF change
  <2>2. ApplyGoalChange(s, e) = R(s.goal, change, s.lease)
    BY <1>1, <2>1
  <2>. HIDE DEF R
  <2>3. QED
    BY <1>1, <1>2, <2>2 DEF IsState
<1>5. CASE e.type = "goal.change.approved"
  <2>. DEFINE change == [s.change EXCEPT ![e.on].status = "approved"]
  <2>1. ApplyGoalChange(s, e) = [s EXCEPT !.change = change, !.goal = s.goal + 1, !.lease = stale]
    BY <1>5 DEF ApplyGoalChange
  <2>. HIDE DEF change, stale
  <2>2. ApplyGoalChange(s, e) = R(s.goal + 1, change, stale)
    BY <1>1, <2>1
  <2>. HIDE DEF R
  <2>3. s.goal <= s.goal + 1
    BY <1>1
  <2>4. QED
    BY <1>1, <1>2, <1>3, <2>2, <2>3
<1>6. CASE e.type = "goal.change.rejected"
  <2>. DEFINE change == [s.change EXCEPT ![e.on].status = "rejected"]
  <2>1. ApplyGoalChange(s, e) = [s EXCEPT !.change = change]
    BY <1>6 DEF ApplyGoalChange
  <2>. HIDE DEF change
  <2>2. ApplyGoalChange(s, e) = R(s.goal, change, s.lease)
    BY <1>1, <2>1
  <2>. HIDE DEF R
  <2>3. QED
    BY <1>1, <1>2, <2>2 DEF IsState
<1>7. QED
  BY <1>4, <1>5, <1>6 DEF GoalChanges

LEMMA LeaseAfter ==
  ASSUME NEW s, IsState(s), NEW e, e.task \in Tasks \cup {None},
         e.type \in LeaseUpdates \cup {"lease.issued"}
  PROVE  LET next == IF e.type = "lease.issued" THEN IssueLease(s, e) ELSE UpdateLease(s, e)
         IN  After(s, next) /\ next.conflicts = s.conflicts
<1>. DEFINE R(lease) ==
              [ok |-> s.ok, ids |-> s.ids, goal |-> s.goal, change |-> s.change,
               lease |-> lease, task |-> s.task, conflicts |-> s.conflicts]
            With(l) == [s.lease EXCEPT ![e.on] = l]
<1>1. s = R(s.lease) /\ s.goal \in Nat /\ s.goal <= s.goal
  BY DEF IsState
<1>2. \A lease : lease = [l \in Leases |-> lease[l]] /\ (\A l \in Leases : IsLease(lease[l]))
                 => After(s, R(lease)) /\ R(lease).conflicts = s.conflicts
  BY <1>1, TasksKept DEF IsState
<1>3. ASSUME NEW l, e.on \in Leases => IsLease(l)
      PROVE  After(s, R(With(l))) /\ R(With(l)).conflicts = s.conflicts
  <2>. DEFINE lease == With(l)
  <2>1. lease = [k \in Leases |-> lease[k]] /\ \A k \in Leases : IsLease(lease[k])
    BY <1>3 DEF IsState
  <2>. HIDE DEF lease, R
  <2>2. After(s, R(lease)) /\ R(lease).conflicts = s.conflicts
    BY <1>2, <2>1
  <2>3. QED
    BY <2>2 DEF lease
<1>4. \A l : [s EXCEPT !.lease = With(l)] = R(With(l))
  <2>. HIDE DEF With
  <2>1. QED
    BY <1>1
<1>. DEFINE old == s.lease[e.on]
<1>5. e.on \in Leases => IsLease(old)
  BY DEF IsState
<1>6. CASE e.type = "lease.issued"
  <2>. DEFINE l == [status |-> "active", subject |-> e.subject, task |-> e.task,
                    scope |-> e.scope, until |-> e.until]
  <2>1. IssueLease(s, e) = [s EXCEPT !.lease = With(l)]
    BY DEF IssueLease
  <2>2. IsLease(l)
    BY DEF IsLease
  <2>. HIDE DEF l, With, R
  <2>3. QED
    BY <1>3, <1>4, <1>6, <2>1, <2>2
<1>7. CASE e.type = "lease.renewed"
  <2>. DEFINE l == [old EXCEPT !.until = e.until]
  <2>1. UpdateLease(s, e) = [s EXCEPT !.lease = With(l)]
    BY <1>7 DEF UpdateLease
  <2>2. e.on \in Leases => IsLease(l)
    BY <1>5 DEF IsLease
  <2>. HIDE DEF l, With, R
  <2>3. QED
    BY <1>3, <1>4, <1>7, <2>1, <2>2
<1>8. CASE e.type = "lease.released"
  <2>. DEFINE l == [old EXCEPT !.status = "released"]
  <2>1. UpdateLease(s, e) = [s EXCEPT !.lease = With(l)]
    BY <1>8 DEF UpdateLease
  <2>2. e.on \in Leases => IsLease(l)
    BY <1>5 DEF IsLease
  <2>. HIDE DEF l, With, R
  <2>3. QED
    BY <1>3, <1>4, <1>8, <2>1, <2>2
<1>9. CASE e.type = "lease.revoked"
  <2>. DEFINE l == [old EXCEPT !.status = "revoked"]
  <2>1. UpdateLease(s, e) = [s EXCEPT !.lease = With(l)]
    BY <1>9 DEF UpdateLease
  <2>2. e.on \in Leases => IsLease(l)
    BY <1>5 DEF IsLease
  <2>. HIDE DEF l, With, R
  <2>3. QED
    BY <1>3, <1>4, <1>9, <2>1, <2>2
<1>10. QED
  BY <1>6, <1>7, <1>8, <1>9 DEF LeaseUpdates

LEMMA TaskAfter ==
  ASSUME NEW s, IsState(s), NEW e, e.type \in DOMAIN TaskMove
  PROVE  After(s, MoveTask(s, e)) /\ MoveTask(s, e).conflicts = s.conflicts
<1>. DEFINE old == s.task[e.on]
            new == [status |-> TaskMove[e.type][2],
                    goal   |-> IF e.type = "requirement.planned" THEN s.goal ELSE old.goal,
                    runner |-> IF e.type = "run.started" THEN e.actor ELSE old.runner]
            task == [s.task EXCEPT ![e.on] = new]
<1>1. MoveTask(s, e) = [s EXCEPT !.task = task]
  BY DEF MoveTask
<1>2. IsTask(new)
  BY DEF IsTask
<1>. HIDE DEF new
<1>3. /\ task = [t \in Tasks |-> task[t]]
      /\ \A t \in Tasks : IsTask(task[t]) /\ (t # e.on => task[t] = s.task[t])
  BY <1>2 DEF IsState
<1>. HIDE DEF task
<1>4. MoveTask(s, e) = [ok |-> s.ok, ids |-> s.ids, goal |-> s.goal, change |-> s.change,
                        lease |-> s.lease, task |-> task, conflicts |-> s.conflicts]
  BY <1>1 DEF IsState
<1>5. QED
  BY <1>3, <1>4 DEF After, IsState

LEMMA ConflictAfter ==
  ASSUME NEW s, IsState(s), NEW e
  PROVE  /\ After(s, OpenTheConflict(s, e)) /\ After(s, ResolveTheConflict(s, e))
         /\ OpenTheConflict(s, e).conflicts = s.conflicts \cup
              {[id |-> e.id, code |-> e.code, batch |-> e.on,
                local |-> e.local, scope |-> e.scope, open |-> TRUE]}
         /\ ResolveTheConflict(s, e).conflicts =
              {IF c.id = e.on THEN [c EXCEPT !.open = FALSE] ELSE c : c \in s.conflicts}
<1>. DEFINE R(conflicts) ==
              [ok |-> s.ok, ids |-> s.ids, goal |-> s.goal, change |-> s.change,
               lease |-> s.lease, task |-> s.task, conflicts |-> conflicts]
            opened == s.conflicts \cup
              {[id |-> e.id, code |-> e.code, batch |-> e.on,
                local |-> e.local, scope |-> e.scope, open |-> TRUE]}
            resolved == {IF c.id = e.on THEN [c EXCEPT !.open = FALSE] ELSE c : c \in s.conflicts}
<1>1. \A conflicts : (\A c \in conflicts : IsConflict(c))
                     => After(s, R(conflicts)) /\ R(conflicts).conflicts = conflicts
  BY TasksKept DEF IsState
<1>2. \A c \in opened : IsConflict(c)
  <2>1. IsConflict([id |-> e.id, code |-> e.code, batch |-> e.on,
                    local |-> e.local, scope |-> e.scope, open |-> TRUE])
    BY DEF IsConflict
  <2>2. QED
    BY <2>1 DEF IsState
<1>3. \A c \in resolved : IsConflict(c)
  <2>. DEFINE no == FALSE
  <2>1. ASSUME NEW c, IsConflict(c) PROVE IsConflict([c EXCEPT !.open = no])
    <3>. HIDE DEF no
    <3>1. [c EXCEPT !.open = no] = [id |-> c.id, code |-> c.code, batch |-> c.batch,
                                    local |-> c.local, scope |-> c.scope, open |-> no]
      BY <2>1 DEF IsConflict
    <3>2. QED
      BY <3>1 DEF IsConflict
  <2>2. QED
    BY <2>1 DEF IsState
<1>4. /\ OpenTheConflict(s, e) = [s EXCEPT !.conflicts = opened]
      /\ ResolveTheConflict(s, e) = [s EXCEPT !.conflicts = resolved]
  BY DEF OpenTheConflict, ResolveTheConflict
<1>. HIDE DEF opened, resolved
<1>5. OpenTheConflict(s, e) = R(opened) /\ ResolveTheConflict(s, e) = R(resolved)
  BY <1>4 DEF IsState
<1>. HIDE DEF R
<1>6. QED
  BY <1>1, <1>2, <1>3, <1>5 DEF opened, resolved

(***************************************************************************)
(* An event either applies, and then was admitted, or leaves everything    *)
(* but ok as it was.                                                       *)
(***************************************************************************)
\* The events callers submit, and those of the seed.
Plain(e) == e.type \notin ConflictTypes /\ e.task \in Tasks \cup {None}

Opened(c, e) ==
  c = [id |-> e.id, code |-> e.code, batch |-> e.on,
       local |-> e.local, scope |-> e.scope, open |-> TRUE]

\* Where a conflict of the next state comes from.
ConflictFrom(s, e, c) ==
  \/ c \in s.conflicts /\ (e.type = "conflict.resolved" => c.id # e.on)
  \/ e.type = "conflict.opened" /\ Opened(c, e)
  \/ e.type = "conflict.resolved" /\ \E d \in s.conflicts : c = [d EXCEPT !.open = FALSE]

Applied(s, e, next) ==
  /\ IsState(next) /\ s.goal <= next.goal
  /\ next.ids \subseteq s.ids \cup {e.id}
  /\ next.ok <=> s.ok /\ Admits(s, e)
  /\ next.ok => next.goal > 0
  /\ e.type \notin ConflictTypes => next.conflicts = s.conflicts
  /\ next.ok => \A c \in next.conflicts : ConflictFrom(s, e, c)
  /\ ~next.ok => next.conflicts = s.conflicts

LEMMA ApplyEffect ==
  ASSUME NEW s, IsState(s), NEW e, e.task \in Tasks \cup {None}
  PROVE  Applied(s, e, Apply(s, e))
<1>1. CASE ~(s.ok /\ Admits(s, e))
  <2>. DEFINE no == FALSE
              next == [ok |-> no, ids |-> s.ids, goal |-> s.goal, change |-> s.change,
                       lease |-> s.lease, task |-> s.task, conflicts |-> s.conflicts]
  <2>1. Apply(s, e) = next
    BY <1>1 DEF Apply, IsState
  <2>2. no \in BOOLEAN /\ ~no
    OBVIOUS
  <2>. HIDE DEF no
  <2>3. IsState(next)
    BY <2>2 DEF IsState
  <2>4. Applied(s, e, next)
    BY <1>1, <2>2, <2>3 DEF Applied, IsState
  <2>. HIDE DEF next
  <2>5. QED
    BY <2>1, <2>4
<1>2. CASE s.ok /\ Admits(s, e)
  <2>. DEFINE mid == ApplyType(s, e)
              ids == mid.ids \cup {e.id}
              next == [ok |-> mid.ok, ids |-> ids, goal |-> mid.goal, change |-> mid.change,
                       lease |-> mid.lease, task |-> mid.task, conflicts |-> mid.conflicts]
  <2>1. /\ After(s, mid) /\ (e.type \notin ConflictTypes => mid.conflicts = s.conflicts)
        /\ \A c \in mid.conflicts : ConflictFrom(s, e, c)
        /\ mid.goal > 0
    <3>1. CASE e.type = "project.initialized"
      <4>. DEFINE goal == 1
      <4>1. mid = [s EXCEPT !.goal = goal]
        BY <3>1 DEF ApplyType, GoalChanges, LeaseUpdates, TaskMove
      <4>2. goal \in Nat /\ s.goal <= goal /\ goal > 0
        BY <1>2, <3>1 DEF Admits
      <4>. HIDE DEF goal
      <4>3. mid = [ok |-> s.ok, ids |-> s.ids, goal |-> goal, change |-> s.change,
                   lease |-> s.lease, task |-> s.task, conflicts |-> s.conflicts]
        BY <4>1 DEF IsState
      <4>. HIDE DEF mid
      <4>4. After(s, mid) /\ mid.conflicts = s.conflicts /\ mid.goal = goal
        BY <4>2, <4>3, TasksKept DEF IsState
      <4>5. QED
        BY <3>1, <4>2, <4>4 DEF ConflictFrom
    <3>2. ASSUME e.type # "project.initialized"
          PROVE  /\ s.goal > 0
                 /\ AdmitsType(s, e)
      BY <1>2, <3>2 DEF Admits
    <3>3. ASSUME After(s, mid), e.type # "project.initialized" PROVE mid.goal > 0
      BY <3>2, <3>3 DEF After, IsState
    <3>4. CASE e.type \in GoalChanges
      <4>1. mid = ApplyGoalChange(s, e) /\ e.type # "project.initialized" /\ e.type \notin ConflictTypes
        BY <3>4 DEF ApplyType, GoalChanges, LeaseUpdates, ConflictTypes, TaskMove
      <4>. HIDE DEF mid
      <4>2. QED
        BY <3>3, <3>4, <4>1, GoalChangeAfter DEF ConflictFrom, ConflictTypes
    <3>5. CASE e.type \in LeaseUpdates \cup {"lease.issued"}
      <4>1. /\ mid = IF e.type = "lease.issued" THEN IssueLease(s, e) ELSE UpdateLease(s, e)
            /\ e.type # "project.initialized" /\ e.type \notin ConflictTypes
        BY <3>5 DEF ApplyType, GoalChanges, LeaseUpdates, ConflictTypes, TaskMove
      <4>. HIDE DEF mid
      <4>2. QED
        BY <3>3, <3>5, <4>1, LeaseAfter DEF ConflictFrom, ConflictTypes
    <3>6. CASE e.type \in DOMAIN TaskMove
      <4>1. mid = MoveTask(s, e) /\ e.type # "project.initialized" /\ e.type \notin ConflictTypes
        BY <3>6 DEF ApplyType, GoalChanges, LeaseUpdates, ConflictTypes, TaskMove
      <4>. HIDE DEF mid
      <4>2. QED
        BY <3>3, <3>6, <4>1, TaskAfter DEF ConflictFrom, ConflictTypes
    <3>7. CASE e.type = "conflict.opened"
      <4>1. mid = OpenTheConflict(s, e) /\ e.type # "project.initialized" /\ e.type \in ConflictTypes
        BY <3>7 DEF ApplyType, GoalChanges, LeaseUpdates, ConflictTypes, TaskMove
      <4>. HIDE DEF mid
      <4>2. QED
        BY <3>3, <3>7, <4>1, ConflictAfter DEF ConflictFrom, Opened
    <3>8. CASE e.type = "conflict.resolved"
      <4>1. mid = ResolveTheConflict(s, e) /\ e.type # "project.initialized" /\ e.type \in ConflictTypes
        BY <3>8 DEF ApplyType, GoalChanges, LeaseUpdates, ConflictTypes, TaskMove
      <4>. HIDE DEF mid
      <4>2. After(s, mid) /\ mid.goal > 0
        BY <3>3, <4>1, ConflictAfter
      <4>3. mid.conflicts =
              {IF c.id = e.on THEN [c EXCEPT !.open = FALSE] ELSE c : c \in s.conflicts}
        BY <4>1, ConflictAfter
      <4>4. \A c \in mid.conflicts : ConflictFrom(s, e, c)
        BY <3>8, <4>3 DEF ConflictFrom
      <4>5. QED
        BY <4>1, <4>2, <4>4
    <3>9. QED
      BY <3>2, <3>1, <3>4, <3>5, <3>6, <3>7, <3>8 DEF AdmitsType
  <2>2. Apply(s, e) = [mid EXCEPT !.ids = mid.ids \cup {e.id}]
    BY <1>2 DEF Apply
  <2>. HIDE DEF mid
  <2>3. IsState(mid) /\ Apply(s, e) = next
    BY <2>1, <2>2 DEF After, IsState
  <2>4. IsState(next)
    BY <2>3 DEF IsState
  <2>5. Applied(s, e, next)
    BY <1>2, <2>1, <2>4 DEF Applied, After
  <2>. HIDE DEF next
  <2>6. QED
    BY <2>3, <2>5
<1>3. QED
  BY <1>1, <1>2

\* A history of plain events.
Replayed(s, h, m, next) ==
  /\ IsState(next) /\ s.goal <= next.goal
  /\ next.ids \subseteq s.ids \cup {h[i].id : i \in 1..m}
  /\ next.ok => s.ok /\ (m > 0 => next.goal > 0)
  /\ next.conflicts = s.conflicts

LEMMA RunEffect ==
  ASSUME NEW f, NEW s, NEW h, NEW m \in Nat, Runs(f, s, h, m),
         IsState(s), \A i \in 1..m : Plain(h[i])
  PROVE  \A n \in 0..m : Replayed(s, h, n, f[n])
<1>. DEFINE N == {n \in 0..m : Replayed(s, h, n, f[n])}
<1>1. 0 \in N
  <2>1. f[0] = s /\ s.goal <= s.goal
    BY DEF Runs, IsState
  <2>2. QED
    BY <2>1 DEF Replayed
<1>2. ASSUME NEW n \in 0..m - 1, n \in N PROVE n + 1 \in N
  <2>1. n + 1 \in 1..m /\ n + 1 \in 0..m /\ n \in Nat /\ n + 1 > 0
    OBVIOUS
  <2>2. f[n + 1] = Apply(f[n], h[n + 1])
    BY DEF Runs
  <2>3. Replayed(s, h, n, f[n]) /\ Plain(h[n + 1])
    BY <1>2, <2>1
  <2>. DEFINE mid == f[n]
              next == f[n + 1]
              e == h[n + 1]
  <2>4. Applied(mid, e, next) /\ e.type \notin ConflictTypes
    BY <2>2, <2>3, ApplyEffect DEF Replayed, Plain
  <2>5. mid.goal \in Nat /\ next.goal \in Nat /\ s.goal \in Nat
    BY <2>3, <2>4 DEF Replayed, Applied, IsState
  <2>6. {h[i].id : i \in 1..n} \subseteq {h[i].id : i \in 1..n + 1}
        /\ e.id \in {h[i].id : i \in 1..n + 1}
    BY <2>1
  <2>7. next.ids \subseteq s.ids \cup {h[i].id : i \in 1..n + 1}
    BY <2>3, <2>4, <2>6, Zenon DEF Replayed, Applied
  <2>. HIDE DEF mid, next, e
  <2>8. Replayed(s, h, n + 1, next)
    <3>1. s.goal <= next.goal
      BY <2>3, <2>4, <2>5 DEF Replayed, Applied, mid
    <3>2. next.ok => s.ok /\ next.goal > 0
      BY <2>3, <2>4 DEF Replayed, Applied, mid
    <3>3. IsState(next) /\ next.conflicts = s.conflicts
      BY <2>3, <2>4 DEF Replayed, Applied, mid
    <3>4. QED
      BY <2>7, <3>1, <3>2, <3>3 DEF Replayed
  <2>9. QED
    BY <2>1, <2>8 DEF next
<1>. HIDE DEF N
<1>3. \A n \in 0..m : n \in N
  BY <1>1, <1>2, UpTo
<1>4. QED
  BY <1>3 DEF N

LEMMA ReplayEffect ==
  ASSUME NEW s, IsState(s), NEW h, IsSequence(h), \A i \in 1..Len(h) : Plain(h[i])
  PROVE  Replayed(s, h, Len(h), Replay(s, h))
<1>1. PICK f : Runs(f, s, h, Len(h)) /\ Replay(s, h) = f[Len(h)]
  BY ReplayRuns
<1>2. Len(h) \in Nat
  BY SequenceDomain
<1>3. \A n \in 0..Len(h) : Replayed(s, h, n, f[n])
  BY <1>1, <1>2, RunEffect
<1>4. QED
  BY <1>1, <1>2, <1>3

(***************************************************************************)
(* A batch that the preview lets through on a state applies to that state. *)
(***************************************************************************)
PreviewRuns(f, s, h, m) ==
  /\ f[0] = [state |-> s, code |-> "valid"]
  /\ \A n \in 0..m - 1 : f[n + 1] = Preview(f[n], h[n + 1])

IsPreviewTrace(f, s, h, m) ==
  f = [n \in 0..m |-> IF n = 0 THEN [state |-> s, code |-> "valid"]
                      ELSE Preview(f[n - 1], h[n])]

LEMMA PreviewTraceExists ==
  ASSUME NEW s, NEW h, NEW m \in Nat
  PROVE  \E f : IsPreviewTrace(f, s, h, m)
<1>. DEFINE first == [state |-> s, code |-> "valid"]
            N == {n \in 0..m : \E f : IsPreviewTrace(f, s, h, n)}
<1>1. 0 \in N
  <2>. DEFINE f == [n \in 0..0 |-> first]
  <2>1. f = [n \in 0..0 |-> IF n = 0 THEN first ELSE Preview(f[n - 1], h[n])]
    OBVIOUS
  <2>2. IsPreviewTrace(f, s, h, 0)
    BY <2>1 DEF IsPreviewTrace
  <2>3. QED
    BY <2>2
<1>2. ASSUME NEW n \in 0..m - 1, n \in N
      PROVE  n + 1 \in N
  <2>1. PICK f : IsPreviewTrace(f, s, h, n)
    BY <1>2
  <2>. DEFINE g == [i \in 0..n + 1 |-> IF i <= n THEN f[i] ELSE Preview(f[n], h[n + 1])]
  <2>. HIDE DEF first
  <2>2. \A i \in 0..n : f[i] = IF i = 0 THEN first ELSE Preview(f[i - 1], h[i])
    BY <2>1 DEF IsPreviewTrace, first
  <2>3. \A i \in 0..n + 1 : g[i] = IF i = 0 THEN first ELSE Preview(g[i - 1], h[i])
    <3>1. TAKE i \in 0..n + 1
    <3>2. CASE i <= n
      BY <2>2, <3>2
    <3>3. CASE i = n + 1
      BY <3>3
    <3>4. QED
      BY <3>2, <3>3
  <2>4. g = [i \in 0..n + 1 |-> g[i]]
    OBVIOUS
  <2>. HIDE DEF g
  <2>5. IsPreviewTrace(g, s, h, n + 1)
    BY <2>3, <2>4 DEF IsPreviewTrace, first
  <2>6. QED
    BY <2>5
<1>. HIDE DEF N
<1>3. m \in N
  BY <1>1, <1>2, UpTo
<1>4. QED
  BY <1>3 DEF N

LEMMA PreviewIsRun ==
  ASSUME NEW s, NEW h, IsSequence(h)
  PROVE  \E f : PreviewRuns(f, s, h, Len(h)) /\ PreviewCode(s, h) = f[Len(h)].code
<1>. DEFINE first == [state |-> s, code |-> "valid"]
            Chosen(r, n) == CHOOSE t \in {Preview(x, h[n]) : x \in {r}} : TRUE
            f == CHOOSE f : f = [n \in 0..Len(h) |-> IF n = 0 THEN first
                     ELSE CHOOSE t \in {Preview(r, h[n]) : r \in {f[n - 1]}} : TRUE]
<1>1. PreviewCode(s, h) = f[Len(h)].code
  BY DEF PreviewCode, Fold
<1>2. \A r, n : Chosen(r, n) = Preview(r, h[n])
  OBVIOUS
<1>3. Len(h) \in Nat
  BY SequenceDomain
<1>4. PICK g : IsPreviewTrace(g, s, h, Len(h))
  BY <1>3, PreviewTraceExists
<1>5. g = [n \in 0..Len(h) |-> IF n = 0 THEN first ELSE Chosen(g[n - 1], n)]
  <2>. HIDE DEF Chosen
  <2>1. QED
    BY <1>2, <1>4, Zenon DEF IsPreviewTrace
<1>6. f = [n \in 0..Len(h) |-> IF n = 0 THEN first ELSE Chosen(f[n - 1], n)]
  BY <1>5, Zenon
<1>7. IsPreviewTrace(f, s, h, Len(h))
  <2>. HIDE DEF Chosen, f
  <2>1. QED
    BY <1>2, <1>6, Zenon DEF IsPreviewTrace
<1>. HIDE DEF f
<1>8. PreviewRuns(f, s, h, Len(h))
  <2>. DEFINE m == Len(h)
  <2>. HIDE DEF first, m
  <2>1. \A n \in 0..m : f[n] = IF n = 0 THEN first ELSE Preview(f[n - 1], h[n])
    BY <1>7 DEF IsPreviewTrace, first, m
  <2>2. m \in Nat
    BY <1>3 DEF m
  <2>3. f[0] = first
    BY <2>1, <2>2
  <2>4. \A n \in 0..m - 1 : n + 1 \in 0..m /\ (n + 1) - 1 = n /\ n + 1 # 0
    BY <2>2
  <2>5. PreviewRuns(f, s, h, m)
    BY <2>1, <2>3, <2>4 DEF PreviewRuns, first
  <2>6. QED
    BY <2>5 DEF m
<1>9. QED
  BY <1>1, <1>8

LEMMA PreviewReplays ==
  ASSUME NEW s, IsState(s), s.ok, NEW h, IsSequence(h), \A i \in 1..Len(h) : Plain(h[i]),
         PreviewCode(s, h) = "valid"
  PROVE  Replay(s, h).ok
<1>. DEFINE m == Len(h)
<1>1. m \in Nat
  BY SequenceDomain
<1>2. PICK f : PreviewRuns(f, s, h, m) /\ PreviewCode(s, h) = f[m].code
  BY PreviewIsRun
<1>3. PICK g : Runs(g, s, h, m) /\ Replay(s, h) = g[m]
  BY ReplayRuns
<1>. HIDE DEF m
<1>4. \A n \in 0..m : IsState(g[n])
  BY <1>1, <1>3, RunEffect DEF Replayed, m
<1>. DEFINE Agrees(n) == /\ f[n] = [state |-> f[n].state, code |-> f[n].code]
                         /\ f[n].code = "valid" => f[n].state = g[n] /\ g[n].ok
            N == {n \in 0..m : Agrees(n)}
<1>5. 0 \in N
  BY <1>1, <1>2, <1>3 DEF PreviewRuns, Runs
<1>6. ASSUME NEW n \in 0..m - 1, n \in N PROVE n + 1 \in N
  <2>. DEFINE acc == f[n]
              e == h[n + 1]
  <2>1. f[n + 1] = Preview(acc, e) /\ g[n + 1] = Apply(g[n], e)
    BY <1>1, <1>2, <1>3 DEF PreviewRuns, Runs
  <2>2. n + 1 \in 0..m /\ n \in 0..m /\ n + 1 \in 1..m
    BY <1>1
  <2>3. Agrees(n) /\ IsState(g[n]) /\ Plain(e)
    BY <1>4, <1>6, <2>2 DEF m
  <2>4. \/ Preview(acc, e) = acc /\ acc.code # "valid"
        \/ \E code : code # "valid" /\ Preview(acc, e) = [acc EXCEPT !.code = code]
        \/ /\ acc.code = "valid" /\ Admits(acc.state, e)
           /\ Preview(acc, e) = [acc EXCEPT !.state = Apply(acc.state, e)]
    BY DEF Preview
  <2>5. Agrees(n + 1)
    <3>1. CASE Preview(acc, e) = acc /\ acc.code # "valid"
      BY <2>1, <2>3, <3>1
    <3>2. CASE \E code : code # "valid" /\ Preview(acc, e) = [acc EXCEPT !.code = code]
      <4>1. PICK code : code # "valid" /\ Preview(acc, e) = [acc EXCEPT !.code = code]
        BY <3>2
      <4>2. f[n + 1] = [state |-> acc.state, code |-> code]
        BY <2>1, <2>3, <4>1
      <4>3. QED
        BY <4>1, <4>2
    <3>3. CASE /\ acc.code = "valid" /\ Admits(acc.state, e)
               /\ Preview(acc, e) = [acc EXCEPT !.state = Apply(acc.state, e)]
      <4>1. f[n + 1] = [state |-> g[n + 1], code |-> acc.code]
        BY <2>1, <2>3, <3>3
      <4>2. Applied(g[n], e, g[n + 1])
        BY <2>1, <2>3, ApplyEffect DEF Plain
      <4>3. g[n + 1].ok
        BY <2>3, <3>3, <4>2 DEF Applied
      <4>4. QED
        BY <4>1, <4>3
    <3>4. QED
      BY <2>4, <3>1, <3>2, <3>3
  <2>. HIDE DEF Agrees
  <2>6. QED
    BY <2>2, <2>5
<1>7. \A n \in 0..m - 1 : n \in N => n + 1 \in N
  BY <1>6
<1>. HIDE DEF N
<1>8. \A n \in 0..m : n \in N
  BY <1>1, <1>5, <1>7, UpTo, Zenon
<1>9. m \in N
  BY <1>1, <1>8
<1>10. QED
  BY <1>2, <1>3, <1>9 DEF N
-----------------------------------------------------------------------------
(***************************************************************************)
(* The log.  made is the batches that were built, by request.  An event is *)
(* of the seed, of the service, which names it after its place, or of a    *)
(* batch that was built.                                                   *)
(***************************************************************************)
OfService(e, i) == e.id = <<"svc", i>> /\ \E k \in Nat : e.batch = <<"svc", k>>

Made(made, r) == made[r] # None

Origin(log, made, i) ==
  \/ i \in 1..Len(Seed) /\ log[i] = Seed[i]
  \/ OfService(log[i], i)
  \/ \E r \in Requests : /\ Made(made, r)
                         /\ \E k \in 1..Len(made[r].events) : log[i] = made[r].events[k]

Kept(log, made) ==
  /\ IsSequence(log) /\ Distinct(log)
  /\ \A i \in 1..Len(log) : Origin(log, made, i) /\ log[i].actor \in Actors
  /\ \A r \in Requests : Made(made, r) => BatchOf(made[r], r.name) /\ AtOnePlace(made[r], log)

\* What the service appends in its own name.
ServiceEvents(new, m) ==
  /\ IsSequence(new)
  /\ \A k \in 1..Len(new) : OfService(new[k], m + k) /\ new[k].actor \in Actors

LEMMA SeedFacts ==
  /\ IsSequence(Seed) /\ Len(Seed) \in Nat /\ Len(Seed) > 0 /\ DOMAIN Seed = 1..Len(Seed)
  /\ \A i \in 1..Len(Seed) :
       /\ Plain(Seed[i]) /\ Seed[i].actor \in Actors /\ Seed[i].id[1] # "svc"
       /\ \A r \in Requests : Seed[i].batch # <<r.name, 0>> /\ Seed[i].id[1] # r.name
  /\ Distinct(Seed)
<1>1. IsSequence(Seed) /\ Seed # <<>>
  BY SeedAssumption
<1>2. Len(Seed) \in Nat /\ DOMAIN Seed = 1..Len(Seed)
  BY <1>1, SequenceDomain
<1>3. Len(Seed) > 0
  BY <1>1, <1>2, EmptyIsSequence, SequenceEqual
<1>4. \A i \in 1..Len(Seed) : Plain(Seed[i]) /\ Seed[i].actor \in Actors
  BY <1>2, RequestsAssumption DEF Plain
<1>5. \A i \in 1..Len(Seed) :
        /\ Seed[i].id[1] # "svc"
        /\ \A r \in Requests : Seed[i].batch # <<r.name, 0>> /\ Seed[i].id[1] # r.name
  BY <1>2, NamesAssumption
<1>6. Distinct(Seed)
  BY <1>2, NamesAssumption DEF Distinct
<1>7. QED
  BY <1>1, <1>2, <1>3, <1>4, <1>5, <1>6

\* No other event is taken for one of a request's batch.
LEMMA OthersAreNotOf ==
  ASSUME NEW r \in Requests, NEW b, BatchOf(b, r.name)
  PROVE  /\ \A i \in 1..Len(Seed) : ~IsOf(Seed[i], b)
         /\ \A e, i : OfService(e, i) => ~IsOf(e, b)
         /\ \A q \in Requests : \A c : q # r /\ BatchOf(c, q.name) =>
              \A k \in 1..Len(c.events) : ~IsOf(c.events[k], b)
<1>1. b.id = <<r.name, 0>> /\ \A k \in 1..Len(b.events) : b.events[k].id = <<r.name, k>>
  BY DEF BatchOf
<1>2. r.name # "svc" /\ \A q \in Requests : q # r => q.name # r.name
  BY NamesAssumption
<1>3. \A x, y, k, l : <<x, k>> = <<y, l>> => x = y
  OBVIOUS
<1>4. \A i \in 1..Len(Seed) : ~IsOf(Seed[i], b)
  <2>1. TAKE i \in 1..Len(Seed)
  <2>2. Seed[i].batch # <<r.name, 0>> /\ Seed[i].id[1] # r.name
    BY <2>1, SeedFacts
  <2>3. \A k : <<r.name, k>>[1] = r.name
    OBVIOUS
  <2>4. QED
    BY <1>1, <2>2, <2>3 DEF IsOf
<1>5. \A e, i : OfService(e, i) => ~IsOf(e, b)
  BY <1>1, <1>2, <1>3 DEF OfService, IsOf
<1>6. ASSUME NEW q \in Requests, NEW c, q # r, BatchOf(c, q.name), NEW k \in 1..Len(c.events)
      PROVE  ~IsOf(c.events[k], b)
  <2>1. c.events[k].id = <<q.name, k>> /\ c.events[k].batch = <<q.name, 0>>
    BY <1>6 DEF BatchOf
  <2>2. QED
    BY <1>1, <1>2, <1>3, <1>6, <2>1 DEF IsOf
<1>7. QED
  BY <1>4, <1>5, <1>6

LEMMA KeptAtSeed ==
  ASSUME NEW made, \A r \in Requests : ~Made(made, r)
  PROVE  Kept(Seed, made)
  BY SeedFacts DEF Kept, Origin

LEMMA KeptAfterBuild ==
  ASSUME NEW log, NEW made, made = [r \in Requests |-> made[r]], Kept(log, made),
         NEW r \in Requests, ~Made(made, r), NEW b, BatchOf(b, r.name)
  PROVE  Kept(log, [made EXCEPT ![r] = b])
<1>. DEFINE next == [made EXCEPT ![r] = b]
<1>1. next[r] = b /\ \A q \in Requests : q # r => next[q] = made[q]
  OBVIOUS
<1>2. Absent(b, log)
  <2>1. SUFFICES ASSUME NEW i \in 1..Len(log) PROVE ~IsOf(log[i], b)
    BY DEF Absent
  <2>2. Origin(log, made, i) /\ \A q \in Requests : Made(made, q) => BatchOf(made[q], q.name)
    BY DEF Kept
  <2>3. CASE i \in 1..Len(Seed) /\ log[i] = Seed[i]
    BY <2>3, OthersAreNotOf
  <2>4. CASE OfService(log[i], i)
    BY <2>4, OthersAreNotOf
  <2>5. CASE \E q \in Requests : /\ Made(made, q)
                                 /\ \E k \in 1..Len(made[q].events) : log[i] = made[q].events[k]
    <3>1. PICK q \in Requests, k \in Nat : /\ Made(made, q) /\ k \in 1..Len(made[q].events)
                                            /\ log[i] = made[q].events[k]
      BY <2>5
    <3>2. q # r /\ BatchOf(made[q], q.name)
      BY <2>2, <3>1
    <3>3. QED
      BY <3>1, <3>2, OthersAreNotOf
  <2>6. QED
    BY <2>2, <2>3, <2>4, <2>5 DEF Origin
<1>. HIDE DEF next
<1>3. ASSUME NEW i \in 1..Len(log) PROVE Origin(log, next, i)
  <2>1. Origin(log, made, i)
    BY DEF Kept
  <2>2. \A q \in Requests : Made(made, q) => Made(next, q) /\ next[q] = made[q]
    BY <1>1 DEF Made
  <2>3. QED
    BY <2>1, <2>2 DEF Origin
<1>4. ASSUME NEW q \in Requests, Made(next, q)
      PROVE  BatchOf(next[q], q.name) /\ AtOnePlace(next[q], log)
  BY <1>1, <1>2, <1>4 DEF Kept, Made, AtOnePlace
<1>5. QED
  BY <1>3, <1>4 DEF Kept, next

LEMMA KeptAfterService ==
  ASSUME NEW log, NEW made, Kept(log, made), NEW new, ServiceEvents(new, Len(log))
  PROVE  /\ Kept(log \o new, made)
         /\ \A r \in Requests : Made(made, r) => \A k \in 1..Len(new) : ~IsOf(new[k], made[r])
<1>. DEFINE m == Len(log)
            grown == log \o new
<1>1. /\ m \in Nat /\ Len(new) \in Nat /\ IsSequence(grown) /\ Len(grown) = m + Len(new)
      /\ \A i \in 1..m + Len(new) : grown[i] = IF i <= m THEN log[i] ELSE new[i - m]
  BY ConcatSequence, SequenceDomain DEF Kept, ServiceEvents
<1>. HIDE DEF grown
<1>2. \A r \in Requests : Made(made, r) => \A k \in 1..Len(new) : ~IsOf(new[k], made[r])
  BY OthersAreNotOf DEF Kept, ServiceEvents
<1>3. ASSUME NEW i \in 1..Len(grown)
      PROVE  \/ i \in 1..m /\ grown[i] = log[i]
             \/ /\ i > m /\ OfService(grown[i], i) /\ grown[i].actor \in Actors
  <2>1. CASE i <= m
    BY <1>1, <2>1
  <2>2. CASE ~(i <= m)
    <3>1. i - m \in 1..Len(new) /\ m + (i - m) = i /\ grown[i] = new[i - m]
      BY <1>1, <2>2
    <3>2. QED
      BY <1>1, <2>2, <3>1 DEF ServiceEvents
  <2>3. QED
    BY <2>1, <2>2
<1>4. \A i \in 1..Len(grown) : Origin(grown, made, i) /\ grown[i].actor \in Actors
  BY <1>3 DEF Kept, Origin
<1>5. Distinct(grown)
  <2>1. SUFFICES ASSUME NEW i \in 1..Len(grown), NEW j \in 1..Len(grown),
                        grown[i].id = grown[j].id
                 PROVE  i = j
    BY DEF Distinct
  <2>2. ASSUME NEW n \in 1..m, NEW e, NEW p, p \in Nat, p > m, OfService(e, p) PROVE log[n].id # e.id
    <3>1. e.id = <<"svc", p>>
      BY <2>2 DEF OfService
    <3>2. CASE n \in 1..Len(Seed) /\ log[n] = Seed[n]
      <4>1. log[n].id[1] # "svc" /\ <<"svc", p>>[1] = "svc"
        BY <3>2, SeedFacts
      <4>2. QED
        BY <3>1, <4>1
    <3>3. CASE OfService(log[n], n)
      <4>1. log[n].id = <<"svc", n>> /\ <<"svc", n>>[2] = n /\ <<"svc", p>>[2] = p /\ n # p
        BY <2>2, <3>3 DEF OfService
      <4>2. QED
        BY <3>1, <4>1
    <3>4. CASE \E r \in Requests : /\ Made(made, r)
                                   /\ \E k \in 1..Len(made[r].events) : log[n] = made[r].events[k]
      <4>1. PICK r \in Requests, k \in Nat : /\ Made(made, r) /\ k \in 1..Len(made[r].events)
                                              /\ log[n] = made[r].events[k]
        BY <3>4
      <4>2. log[n].id = <<r.name, k>> /\ <<r.name, k>>[1] = r.name /\ <<"svc", p>>[1] = "svc"
        BY <4>1 DEF Kept, BatchOf
      <4>3. r.name # "svc"
        BY NamesAssumption
      <4>4. QED
        BY <3>1, <4>2, <4>3
    <3>5. QED
      BY <3>2, <3>3, <3>4 DEF Kept, Origin
  <2>3. CASE i \in 1..m /\ grown[i] = log[i]
    <3>1. CASE j \in 1..m /\ grown[j] = log[j]
      BY <2>1, <2>3, <3>1 DEF Kept, Distinct
    <3>2. CASE j > m /\ OfService(grown[j], j)
      BY <1>1, <2>1, <2>2, <2>3, <3>2
    <3>3. QED
      BY <1>3, <3>1, <3>2
  <2>4. CASE i > m /\ OfService(grown[i], i)
    <3>1. CASE j \in 1..m /\ grown[j] = log[j]
      BY <1>1, <2>1, <2>2, <2>4, <3>1
    <3>2. CASE j > m /\ OfService(grown[j], j)
      <4>1. grown[i].id = <<"svc", i>> /\ grown[j].id = <<"svc", j>>
        BY <2>4, <3>2 DEF OfService
      <4>2. <<"svc", i>>[2] = i /\ <<"svc", j>>[2] = j
        OBVIOUS
      <4>3. QED
        BY <2>1, <4>1, <4>2
    <3>3. QED
      BY <1>3, <3>1, <3>2
  <2>5. QED
    BY <1>3, <2>3, <2>4
<1>6. ASSUME NEW r \in Requests, Made(made, r)
      PROVE  BatchOf(made[r], r.name) /\ AtOnePlace(made[r], grown)
  <2>1. BatchOf(made[r], r.name) /\ AtOnePlace(made[r], log) /\ IsSequence(log) /\ IsSequence(new)
    BY <1>6 DEF Kept, ServiceEvents
  <2>2. IsSequence(made[r].events) /\ \A k \in 1..Len(new) : ~IsOf(new[k], made[r])
    BY <1>2, <1>6, <2>1 DEF BatchOf
  <2>3. AtOnePlace(made[r], grown)
    BY <2>1, <2>2, StoredStays DEF grown
  <2>4. QED
    BY <2>1, <2>3
<1>7. Kept(grown, made)
  BY <1>1, <1>4, <1>5, <1>6 DEF Kept
<1>8. QED
  BY <1>2, <1>7 DEF grown

LEMMA KeptAfterBatch ==
  ASSUME NEW log, NEW made, Kept(log, made), NEW r \in Requests, Made(made, r),
         Absent(made[r], log), \A k \in 1..Len(made[r].events) : made[r].events[k].actor \in Actors
  PROVE  /\ Kept(log \o made[r].events, made)
         /\ StoredFrom(made[r], Len(log), log \o made[r].events)
         /\ \A q \in Requests : q # r /\ Made(made, q) =>
              \A k \in 1..Len(made[r].events) : ~IsOf(made[r].events[k], made[q])
<1>. DEFINE b == made[r]
            m == Len(log)
            new == b.events
            grown == log \o new
<1>1. /\ BatchOf(b, r.name) /\ IsSequence(log) /\ IsSequence(new)
      /\ \A k \in 1..Len(new) : new[k].id = <<r.name, k>>
  BY DEF Kept, BatchOf
<1>2. /\ m \in Nat /\ Len(new) \in Nat /\ IsSequence(grown) /\ Len(grown) = m + Len(new)
      /\ \A i \in 1..m + Len(new) : grown[i] = IF i <= m THEN log[i] ELSE new[i - m]
  BY <1>1, ConcatSequence, SequenceDomain
<1>. HIDE DEF grown
<1>3. ASSUME NEW i \in 1..Len(grown)
      PROVE  \/ i \in 1..m /\ grown[i] = log[i]
             \/ i > m /\ i - m \in 1..Len(new) /\ grown[i] = new[i - m]
  BY <1>2
<1>4. \A i \in 1..Len(grown) : Origin(grown, made, i) /\ grown[i].actor \in Actors
  <2>1. TAKE i \in 1..Len(grown)
  <2>2. CASE i \in 1..m /\ grown[i] = log[i]
    BY <2>2 DEF Kept, Origin
  <2>3. CASE i > m /\ i - m \in 1..Len(new) /\ grown[i] = new[i - m]
    BY <2>3 DEF Origin
  <2>4. QED
    BY <1>3, <2>2, <2>3
<1>5. \A n \in 1..m, k \in 1..Len(new) : log[n].id # new[k].id
  BY DEF Absent, IsOf
<1>6. Distinct(grown)
  <2>1. SUFFICES ASSUME NEW i \in 1..Len(grown), NEW j \in 1..Len(grown),
                        grown[i].id = grown[j].id
                 PROVE  i = j
    BY DEF Distinct
  <2>2. CASE i \in 1..m /\ grown[i] = log[i]
    BY <1>3, <1>5, <2>1, <2>2 DEF Kept, Distinct
  <2>3. CASE i > m /\ i - m \in 1..Len(new) /\ grown[i] = new[i - m]
    <3>1. CASE j \in 1..m /\ grown[j] = log[j]
      BY <1>5, <2>1, <2>3, <3>1
    <3>2. CASE j > m /\ j - m \in 1..Len(new) /\ grown[j] = new[j - m]
      <4>1. grown[i].id = <<r.name, i - m>> /\ grown[j].id = <<r.name, j - m>>
        BY <1>1, <2>3, <3>2
      <4>2. <<r.name, i - m>>[2] = i - m /\ <<r.name, j - m>>[2] = j - m
        OBVIOUS
      <4>3. i - m = j - m
        BY <2>1, <4>1, <4>2
      <4>4. QED
        BY <1>2, <4>3
    <3>3. QED
      BY <1>3, <3>1, <3>2
  <2>4. QED
    BY <1>3, <2>2, <2>3
<1>7. StoredFrom(b, m, grown)
  BY <1>1, BatchIsStored DEF grown
<1>8. \A q \in Requests : q # r /\ Made(made, q) =>
        \A k \in 1..Len(new) : ~IsOf(new[k], made[q])
  BY <1>1, OthersAreNotOf DEF Kept
<1>9. ASSUME NEW q \in Requests, Made(made, q)
      PROVE  BatchOf(made[q], q.name) /\ AtOnePlace(made[q], grown)
  <2>1. BatchOf(made[q], q.name) /\ AtOnePlace(made[q], log)
    BY <1>9 DEF Kept
  <2>2. CASE q = r
    BY <1>2, <1>7, <2>1, <2>2 DEF AtOnePlace
  <2>3. CASE q # r
    <3>1. IsSequence(made[q].events) /\ \A k \in 1..Len(new) : ~IsOf(new[k], made[q])
      BY <1>8, <1>9, <2>1, <2>3 DEF BatchOf
    <3>2. AtOnePlace(made[q], grown)
      BY <1>1, <2>1, <3>1, StoredStays DEF grown
    <3>3. QED
      BY <2>1, <3>2
  <2>4. QED
    BY <2>2, <2>3
<1>10. Kept(grown, made)
  BY <1>2, <1>4, <1>6, <1>9 DEF Kept
<1>11. QED
  BY <1>7, <1>8, <1>10 DEF grown
-----------------------------------------------------------------------------
(***************************************************************************)
(* What holds of the log, of the state s it replays to and of the batches  *)
(* that were built, together.                                              *)
(***************************************************************************)
IsEvent(e) ==
  e = [id |-> e.id, batch |-> e.batch, base |-> e.base, goal |-> e.goal, type |-> e.type,
       on |-> e.on, task |-> e.task, scope |-> e.scope, lease |-> e.lease, actor |-> e.actor,
       subject |-> e.subject, until |-> e.until, code |-> e.code, local |-> e.local]

\* A batch, as it was built on the first base events of the log.
Ready(b, log, s) ==
  /\ b.base \in 1..Len(log)
  /\ \A k \in 1..Len(b.events) :
       LET e == b.events[k] IN
       /\ IsEvent(e) /\ Plain(e) /\ e.actor \in Actors
       /\ e.base = b.base /\ e.goal \in Nat /\ e.goal <= s.goal

IsOpening(e)  == e.type = "conflict.opened"
IsDecision(e) == e.type = "conflict.resolved"

\* A cause of a conflict that no later event takes away.
Lasting(events, s) == \E k \in 1..Len(events) : events[k].goal < s.goal

Remembered(e) == e.scope # {} \/ e.code = "stale_goal"

\* The event that opens a conflict is about a batch on an older base, and carries it.
Opening(e, j, s, made) ==
  \E r \in Requests :
    /\ Made(made, r) /\ e.on = made[r].id /\ e.local = made[r].events
    /\ e.scope = Scopes(made[r].events) /\ made[r].base < j
    /\ e.code = "stale_goal" => Lasting(made[r].events, s)

Openings(log, s, made) ==
  \A j \in 1..Len(log) : IsOpening(log[j]) => Opening(log[j], j, s, made)

\* Every conflict of the state was opened by an event, every decision is about one.
About(c, e) ==
  /\ IsOpening(e) /\ c.id = e.id /\ c.batch = e.on
  /\ c.local = e.local /\ c.scope = e.scope /\ c.code = e.code

ConflictsOpened(log, s) ==
  \A c \in s.conflicts : \E j \in 1..Len(log) : About(c, log[j])

DecisionsAbout(log) ==
  \A i \in 1..Len(log) : IsDecision(log[i]) =>
    \E j \in 1..Len(log) : IsOpening(log[j]) /\ log[j].id = log[i].on

OneOpen(s) ==
  \A c, d \in s.conflicts : c.open /\ d.open /\ c.batch = d.batch => c = d

OpenKeptOut(log, s) ==
  \A c \in s.conflicts : c.open => \A i \in 1..Len(log) : log[i].batch # c.batch

\* Open or decided: a batch that conflicted stays out.
ConflictKeptOut(log) ==
  \A j \in 1..Len(log) : IsOpening(log[j]) /\ Remembered(log[j]) =>
    \A k \in 1..Len(log) : log[k].batch # log[j].on

Sound(log, s, made) ==
  /\ IsState(s) /\ s.goal > 0
  /\ s.ids \subseteq {log[i].id : i \in 1..Len(log)}
  /\ \A r \in Requests : Made(made, r) => Ready(made[r], log, s)
  /\ ConflictsOpened(log, s) /\ Openings(log, s, made) /\ DecisionsAbout(log)
  /\ OneOpen(s) /\ OpenKeptOut(log, s) /\ ConflictKeptOut(log)

LEMMA SoundAtSeed ==
  ASSUME NEW made, \A r \in Requests : ~Made(made, r)
  PROVE  Sound(Seed, Reduce(Seed), made)
<1>. DEFINE s == Reduce(Seed)
<1>1. Replayed(Uninitialized, Seed, Len(Seed), s)
  BY InitialState, SeedFacts, ReplayEffect DEF Reduce
<1>2. Uninitialized.ids = {} /\ Uninitialized.conflicts = {}
  BY DEF Uninitialized
<1>3. s.ok
  BY SeedAssumption DEF Reducible
<1>. HIDE DEF s
<1>4. IsState(s) /\ s.goal > 0 /\ s.ids \subseteq {Seed[i].id : i \in 1..Len(Seed)} /\ s.conflicts = {}
  BY <1>1, <1>2, <1>3, SeedFacts DEF Replayed
<1>5. \A i \in 1..Len(Seed) : ~IsOpening(Seed[i]) /\ ~IsDecision(Seed[i])
  BY SeedFacts DEF Plain, ConflictTypes, IsOpening, IsDecision
<1>6. Sound(Seed, s, made)
  BY <1>4, <1>5 DEF Sound, ConflictsOpened, Openings, DecisionsAbout, OneOpen, OpenKeptOut,
                    ConflictKeptOut
<1>7. QED
  BY <1>6 DEF s

LEMMA SoundAfterBuild ==
  ASSUME NEW log, NEW s, NEW made, made = [r \in Requests |-> made[r]], Sound(log, s, made),
         NEW r \in Requests, ~Made(made, r), NEW b, Ready(b, log, s)
  PROVE  Sound(log, s, [made EXCEPT ![r] = b])
<1>. DEFINE next == [made EXCEPT ![r] = b]
<1>0. next[r] = b /\ \A q \in Requests : q # r => next[q] = made[q]
  OBVIOUS
<1>. HIDE DEF next
<1>1. next[r] = b /\ \A q \in Requests : Made(made, q) => Made(next, q) /\ next[q] = made[q]
  BY <1>0 DEF Made
<1>2. \A q \in Requests : Made(next, q) => q = r \/ (Made(made, q) /\ next[q] = made[q])
  BY <1>0 DEF Made
<1>3. Openings(log, s, next)
  <2>1. \A e, j : Opening(e, j, s, made) => Opening(e, j, s, next)
    BY <1>1 DEF Opening
  <2>2. QED
    BY <2>1 DEF Sound, Openings
<1>4. \A q \in Requests : Made(next, q) => Ready(next[q], log, s)
  BY <1>1, <1>2 DEF Sound
<1>5. QED
  BY <1>3, <1>4 DEF Sound, next

\* What stays when the log and the state move on.
Onward(s, next) == IsState(next) /\ s.goal <= next.goal

Follows(grown, log) ==
  /\ Len(log) \in Nat /\ Len(grown) \in Nat /\ Len(log) <= Len(grown)
  /\ \A i \in 1..Len(log) : grown[i] = log[i]

Stays(log, s, made, grown, next) ==
  /\ next.goal > 0
  /\ \A r \in Requests : Made(made, r) => Ready(made[r], grown, next)
  /\ \A j \in 1..Len(log) : IsOpening(grown[j]) => Opening(grown[j], j, next, made)
  /\ \A c : (\E j \in 1..Len(log) : About(c, log[j])) => \E j \in 1..Len(grown) : About(c, grown[j])
  /\ \A i \in 1..Len(log) : IsDecision(grown[i]) =>
       \E j \in 1..Len(grown) : IsOpening(grown[j]) /\ grown[j].id = grown[i].on
  /\ {log[i].id : i \in 1..Len(log)} \subseteq {grown[i].id : i \in 1..Len(grown)}

LEMMA SoundStays ==
  ASSUME NEW log, NEW s, NEW made, Sound(log, s, made), NEW grown, NEW next, Onward(s, next),
         Follows(grown, log)
  PROVE  Stays(log, s, made, grown, next)
<1>. USE DEF Follows
<1>1. s.goal \in Nat /\ next.goal \in Nat /\ s.goal <= next.goal /\ s.goal > 0
  BY DEF Sound, Onward, IsState
<1>2. 1..Len(log) \subseteq 1..Len(grown)
  OBVIOUS
<1>3. \A r \in Requests : Made(made, r) => Ready(made[r], grown, next)
  <2>1. SUFFICES ASSUME NEW r \in Requests, Ready(made[r], log, s)
                 PROVE  Ready(made[r], grown, next)
    BY DEF Sound
  <2>2. \A k \in 1..Len(made[r].events) :
          LET e == made[r].events[k] IN
          /\ IsEvent(e) /\ Plain(e) /\ e.actor \in Actors
          /\ e.base = made[r].base /\ e.goal \in Nat /\ e.goal <= s.goal
    BY <2>1 DEF Ready
  <2>3. \A k \in 1..Len(made[r].events) : made[r].events[k].goal <= next.goal
    BY <1>1, <2>2
  <2>4. made[r].base \in 1..Len(grown)
    BY <1>2, <2>1 DEF Ready
  <2>5. QED
    BY <2>2, <2>3, <2>4 DEF Ready
<1>4. \A r \in Requests : Made(made, r) =>
        \A k \in 1..Len(made[r].events) : made[r].events[k].goal \in Nat
  BY DEF Sound, Ready
<1>5. \A r \in Requests : Made(made, r) /\ Lasting(made[r].events, s) => Lasting(made[r].events, next)
  <2>1. SUFFICES ASSUME NEW r \in Requests, Made(made, r), Lasting(made[r].events, s)
                 PROVE  Lasting(made[r].events, next)
    OBVIOUS
  <2>2. PICK k \in 1..Len(made[r].events) : made[r].events[k].goal < s.goal
    BY <2>1 DEF Lasting
  <2>3. made[r].events[k].goal \in Nat
    BY <1>4, <2>1, <2>2
  <2>4. QED
    BY <1>1, <2>2, <2>3 DEF Lasting, Onward
<1>6. \A e, j : Opening(e, j, s, made) => Opening(e, j, next, made)
  BY <1>5 DEF Opening
<1>7. \A j \in 1..Len(log) : IsOpening(grown[j]) => Opening(grown[j], j, next, made)
  BY <1>6 DEF Sound, Openings
<1>8. \A c : (\E j \in 1..Len(log) : About(c, log[j])) => \E j \in 1..Len(grown) : About(c, grown[j])
  BY <1>2
<1>9. \A i \in 1..Len(log) : IsDecision(grown[i]) =>
        \E j \in 1..Len(grown) : IsOpening(grown[j]) /\ grown[j].id = grown[i].on
  BY <1>2 DEF Sound, DecisionsAbout
<1>10. {log[i].id : i \in 1..Len(log)} \subseteq {grown[i].id : i \in 1..Len(grown)}
  BY <1>2
<1>11. QED
  BY <1>1, <1>3, <1>7, <1>8, <1>9, <1>10 DEF Stays

(***************************************************************************)
(* Detection: a scope or a stale goal that is found once is found again.   *)
(***************************************************************************)
LEMMA ElementsOf ==
  ASSUME NEW events, IsSequence(events)
  PROVE  ToSet(events) = {events[k] : k \in 1..Len(events)}
  BY SequenceDomain DEF ToSet

LEMMA StaleGoalLasts ==
  ASSUME NEW s, IsState(s), NEW b, IsSequence(b.events), NEW log, Ready(b, log, s),
         DetectConflict(s, b) = "stale_goal"
  PROVE  Lasting(b.events, s)
<1>. DEFINE events == b.events
<1>1. ToSet(events) = {events[k] : k \in 1..Len(events)}
  BY ElementsOf
<1>2. \A k \in 1..Len(events) : events[k].goal \in Nat /\ events[k].goal <= s.goal
  BY DEF Ready
<1>3. \E e \in ToSet(events) : e.goal # s.goal
  BY DEF DetectConflict
<1>4. PICK k \in 1..Len(events) : events[k].goal # s.goal
  BY <1>1, <1>3
<1>5. events[k].goal < s.goal
  BY <1>2, <1>4 DEF IsState
<1>6. QED
  BY <1>5 DEF Lasting

LEMMA NamedOnce ==
  ASSUME NEW log, NEW made, Kept(log, made), NEW q \in Requests, NEW r \in Requests,
         Made(made, q), Made(made, r), made[q].id = made[r].id
  PROVE  q = r
<1>1. made[q].id = <<q.name, 0>> /\ made[r].id = <<r.name, 0>>
  BY DEF Kept, BatchOf
<1>2. \A x, y : <<x, 0>> = <<y, 0>> => x = y
  OBVIOUS
<1>3. q.name = r.name
  BY <1>1, <1>2
<1>4. QED
  BY <1>3, NamesAssumption

LEMMA ScopeSince ==
  ASSUME IsSequence(accepted), NEW n \in Nat, NEW j \in 1..Len(accepted), n < j
  PROVE  accepted[j].scope \subseteq Scopes(Since(n))
<1>. DEFINE since == SubSeq(accepted, n + 1, Len(accepted))
            m == Len(accepted)
<1>1. m \in Nat /\ m <= Len(accepted) /\ n + 1 \in Nat \ {0}
  BY SequenceDomain
<1>. HIDE DEF m
<1>2. /\ IsSequence(SubSeq(accepted, n + 1, m))
      /\ Len(SubSeq(accepted, n + 1, m)) = IF n + 1 <= m THEN m - (n + 1) + 1 ELSE 0
      /\ \A i \in 1..(m - (n + 1) + 1) : SubSeq(accepted, n + 1, m)[i] = accepted[n + 1 + i - 1]
  BY <1>1, SubSequence
<1>3. j - n \in 1..(m - (n + 1) + 1) /\ n + 1 + (j - n) - 1 = j /\ n + 1 <= m
      /\ m - (n + 1) + 1 = m - n /\ j - n \in 1..m - n
  BY <1>1 DEF m
<1>4. since = SubSeq(accepted, n + 1, m)
  BY DEF m
<1>. HIDE DEF since
<1>5. since[j - n] = accepted[j] /\ DOMAIN since = 1..m - n
  BY <1>2, <1>3, <1>4, SequenceDomain
<1>6. accepted[j].scope \in {since[i].scope : i \in DOMAIN since}
  BY <1>3, <1>5
<1>7. QED
  BY <1>6 DEF Scopes, Since, since

LEMMA DetectedAgain ==
  ASSUME NEW s, NEW made, Kept(accepted, made), Sound(accepted, s, made),
         NEW r \in Requests, Made(made, r),
         NEW j \in 1..Len(accepted), IsOpening(accepted[j]), Remembered(accepted[j]),
         accepted[j].on = made[r].id
  PROVE  DetectConflict(s, made[r]) # "none"
<1>. DEFINE b == made[r]
            events == b.events
            overlap == Scopes(events) \cap Scopes(Since(b.base))
<1>1. IsSequence(accepted) /\ IsSequence(events)
  BY DEF Kept, BatchOf
<1>2. PICK q \in Requests :
        /\ Made(made, q) /\ accepted[j].on = made[q].id
        /\ accepted[j].scope = Scopes(made[q].events) /\ made[q].base < j
        /\ accepted[j].code = "stale_goal" => Lasting(made[q].events, s)
  BY DEF Sound, Openings, Opening
<1>3. q = r
  BY <1>2, NamedOnce
<1>4. b.base \in Nat /\ \A k \in 1..Len(events) : events[k].goal \in Nat
  BY DEF Sound, Ready
<1>5. ToSet(events) = {events[k] : k \in 1..Len(events)}
  BY <1>1, ElementsOf
<1>6. CASE accepted[j].scope # {}
  <2>1. accepted[j].scope \subseteq Scopes(Since(b.base)) /\ accepted[j].scope = Scopes(events)
    BY <1>1, <1>2, <1>3, <1>4, ScopeSince
  <2>2. overlap # {}
    BY <1>6, <2>1
  <2>. HIDE DEF overlap
  <2>3. QED
    BY <2>2 DEF DetectConflict, overlap
<1>7. CASE Lasting(events, s)
  <2>1. PICK k \in 1..Len(events) : events[k].goal < s.goal
    BY <1>7 DEF Lasting
  <2>2. events[k] \in ToSet(events) /\ events[k].goal \in Nat /\ s.goal \in Nat
    BY <1>4, <1>5, <2>1 DEF Sound, IsState
  <2>3. events[k].goal # s.goal
    BY <2>1, <2>2
  <2>. HIDE DEF events
  <2>4. QED
    BY <2>2, <2>3 DEF DetectConflict, events
<1>8. QED
  BY <1>2, <1>3, <1>6, <1>7 DEF Remembered

(***************************************************************************)
(* The three ways in which the log grows.                                  *)
(***************************************************************************)
LEMMA Grown ==
  ASSUME NEW log, NEW new, IsSequence(log), IsSequence(new)
  PROVE  LET grown == log \o new IN
         /\ Len(log) \in Nat /\ Len(new) \in Nat /\ Len(grown) = Len(log) + Len(new)
         /\ Len(grown) \in Nat /\ Len(log) <= Len(grown)
         /\ \A i \in 1..Len(log) : grown[i] = log[i] /\ i \in 1..Len(grown)
         /\ \A k \in 1..Len(new) : Len(log) + k \in 1..Len(grown) /\ grown[Len(log) + k] = new[k]
         /\ \A i \in 1..Len(grown) : \/ i \in 1..Len(log)
                                     \/ i > Len(log) /\ i - Len(log) \in 1..Len(new)
                                        /\ grown[i] = new[i - Len(log)]
<1>. DEFINE grown == log \o new
            m == Len(log)
            l == Len(new)
<1>1. /\ m \in Nat /\ l \in Nat /\ Len(grown) = m + l
      /\ \A i \in 1..m + l : grown[i] = IF i <= m THEN log[i] ELSE new[i - m]
  BY ConcatSequence, SequenceDomain
<1>. HIDE DEF grown, m, l
<1>2. \A i \in 1..m : grown[i] = log[i] /\ i \in 1..m + l
  BY <1>1
<1>3. ASSUME NEW k \in 1..l PROVE m + k \in 1..m + l /\ grown[m + k] = new[k]
  <2>1. m + k \in 1..m + l /\ ~(m + k <= m) /\ (m + k) - m = k
    BY <1>1
  <2>2. QED
    BY <1>1, <2>1
<1>4. \A i \in 1..m + l : i \in 1..m \/ (i > m /\ i - m \in 1..l /\ grown[i] = new[i - m])
  BY <1>1
<1>5. m + l \in Nat /\ m <= m + l
  BY <1>1
<1>6. QED
  BY <1>1, <1>2, <1>3, <1>4, <1>5 DEF grown, m, l

LEMMA SoundAfterBatch ==
  ASSUME NEW s, NEW made, Kept(accepted, made), Sound(accepted, s, made),
         NEW r \in Requests, Made(made, r), DetectConflict(s, made[r]) = "none",
         ~HasOpenConflict(s, made[r])
  PROVE  /\ Sound(accepted \o made[r].events, Replay(s, made[r].events), made)
         /\ s.goal <= Replay(s, made[r].events).goal
<1>. DEFINE b == made[r]
            new == b.events
            next == Replay(s, new)
            grown == accepted \o new
            m == Len(accepted)
<1>1. /\ IsSequence(accepted) /\ IsSequence(new)
      /\ \A k \in 1..Len(new) : new[k].batch = b.id
  BY DEF Kept, BatchOf
<1>2. \A k \in 1..Len(new) : Plain(new[k]) /\ ~IsOpening(new[k]) /\ ~IsDecision(new[k])
  BY DEF Sound, Ready, Plain, ConflictTypes, IsOpening, IsDecision
<1>3. Replayed(s, new, Len(new), next)
  BY <1>1, <1>2, ReplayEffect DEF Sound
<1>4. Onward(s, next) /\ next.conflicts = s.conflicts
  BY <1>3 DEF Replayed, Onward
<1>5. /\ m \in Nat /\ Len(new) \in Nat /\ Len(grown) \in Nat /\ m <= Len(grown)
      /\ \A i \in 1..m : grown[i] = accepted[i] /\ i \in 1..Len(grown)
      /\ \A k \in 1..Len(new) : m + k \in 1..Len(grown) /\ grown[m + k] = new[k]
      /\ \A i \in 1..Len(grown) : i \in 1..m \/ (i > m /\ i - m \in 1..Len(new) /\ grown[i] = new[i - m])
  BY <1>1, Grown, SMTT(30)
<1>6. ASSUME NEW j \in 1..m, IsOpening(accepted[j]), Remembered(accepted[j])
      PROVE  accepted[j].on # b.id
  BY <1>6, DetectedAgain
<1>7. \A c \in s.conflicts : c.open => c.batch # b.id
  BY DEF HasOpenConflict
<1>. HIDE DEF next, grown, m, new
<1>8. /\ next.goal > 0
      /\ \A q \in Requests : Made(made, q) => Ready(made[q], grown, next)
      /\ \A j \in 1..m : IsOpening(grown[j]) => Opening(grown[j], j, next, made)
      /\ \A c : (\E j \in 1..m : About(c, accepted[j])) => \E j \in 1..Len(grown) : About(c, grown[j])
      /\ \A i \in 1..m : IsDecision(grown[i]) =>
           \E j \in 1..Len(grown) : IsOpening(grown[j]) /\ grown[j].id = grown[i].on
      /\ {accepted[i].id : i \in 1..m} \subseteq {grown[i].id : i \in 1..Len(grown)}
  <2>1. Follows(grown, accepted)
    BY <1>5 DEF Follows, m
  <2>2. Stays(accepted, s, made, grown, next)
    BY <1>4, <2>1, SoundStays
  <2>3. QED
    BY <2>2 DEF Stays, m
<1>9. next.ids \subseteq {grown[i].id : i \in 1..Len(grown)}
  <2>1. {new[k].id : k \in 1..Len(new)} \subseteq {grown[i].id : i \in 1..Len(grown)}
    BY <1>5
  <2>2. QED
    BY <1>3, <1>8, <2>1 DEF Replayed, Sound, m
<1>10. Openings(grown, next, made) /\ DecisionsAbout(grown)
  BY <1>2, <1>5, <1>8 DEF Openings, DecisionsAbout
<1>11. ConflictsOpened(grown, next) /\ OneOpen(next)
  BY <1>4, <1>8 DEF Sound, ConflictsOpened, OneOpen, m
<1>12. OpenKeptOut(grown, next)
  <2>1. \A c \in s.conflicts : c.open => \A i \in 1..m : grown[i].batch # c.batch
    <3>1. OpenKeptOut(accepted, s)
      BY DEF Sound
    <3>2. QED
      BY <1>5, <3>1 DEF OpenKeptOut, m
  <2>2. \A k \in 1..Len(new) : new[k].batch = b.id
    BY <1>1 DEF new
  <2>3. SUFFICES ASSUME NEW c \in s.conflicts, c.open, NEW i \in 1..Len(grown)
                 PROVE  grown[i].batch # c.batch
    BY <1>4 DEF OpenKeptOut
  <2>4. c.batch # b.id
    BY <1>7, <2>3
  <2>5. CASE i \in 1..m
    BY <2>1, <2>3, <2>5
  <2>6. CASE i - m \in 1..Len(new) /\ grown[i] = new[i - m]
    BY <2>2, <2>4, <2>6
  <2>7. QED
    BY <1>5, <2>5, <2>6
<1>13. ConflictKeptOut(grown)
  <2>1. SUFFICES ASSUME NEW j \in 1..Len(grown), IsOpening(grown[j]), Remembered(grown[j]),
                        NEW k \in 1..Len(grown)
                 PROVE  grown[k].batch # grown[j].on
    BY DEF ConflictKeptOut
  <2>2. j \in 1..m /\ grown[j] = accepted[j]
    BY <1>2, <1>5, <2>1
  <2>3. CASE k \in 1..m
    BY <1>5, <2>1, <2>2, <2>3 DEF Sound, ConflictKeptOut, m
  <2>4. CASE k - m \in 1..Len(new) /\ grown[k] = new[k - m]
    BY <1>1, <1>6, <2>1, <2>2, <2>4
  <2>5. QED
    BY <1>5, <2>3, <2>4
<1>14. Sound(grown, next, made)
  BY <1>4, <1>8, <1>9, <1>10, <1>11, <1>12, <1>13 DEF Sound, Onward
<1>15. QED
  BY <1>4, <1>14 DEF Onward, next, grown, new

LEMMA SoundAfterOpening ==
  ASSUME NEW s, s.ok, NEW made, Kept(accepted, made), Sound(accepted, s, made),
         NEW r \in Requests, Made(made, r), DetectConflict(s, made[r]) # "none",
         ~HasOpenConflict(s, made[r]), Absent(made[r], accepted)
  PROVE  LET e == ConflictOpened(s, made[r], DetectConflict(s, made[r]))
         IN  /\ ServiceEvents(<<e>>, Len(accepted))
             /\ Sound(accepted \o <<e>>, Replay(s, <<e>>), made)
             /\ Replay(s, <<e>>).ok /\ s.goal <= Replay(s, <<e>>).goal
<1>. DEFINE b == made[r]
            kind == DetectConflict(s, b)
            e == ConflictOpened(s, b, kind)
            new == <<e>>
            next == Apply(s, e)
            grown == accepted \o new
            m == Len(accepted)
<1>1. /\ IsSequence(accepted) /\ BatchOf(b, r.name) /\ IsSequence(b.events) /\ b.events # <<>>
      /\ m \in Nat
  BY SequenceDomain DEF Kept, BatchOf
<1>2. /\ IsSequence(new) /\ Len(new) = 1 /\ new[1] = e
  <2>1. new \in Seq({e})
    OBVIOUS
  <2>2. QED
    BY <2>1, MemberIsSequence
<1>3. b.events[1].actor \in Actors
  <2>1. 1 \in 1..Len(b.events)
    BY <1>1, SequenceDomain, EmptyIsSequence, SequenceEqual
  <2>2. QED
    BY <2>1 DEF Sound, Ready
<1>4. /\ e.id = <<"svc", m + 1>> /\ e.batch = <<"svc", m + 1>> /\ e.goal = s.goal
      /\ e.type = "conflict.opened" /\ e.on = b.id /\ e.task = None /\ e.scope = Scopes(b.events)
      /\ e.actor = b.events[1].actor /\ e.code = kind /\ e.local = b.events
  BY DEF ConflictOpened, ServiceId
<1>. HIDE DEF e
<1>5. OfService(e, m + 1) /\ m + 1 \in Nat
  BY <1>1, <1>4 DEF OfService
<1>6. ServiceEvents(new, m)
  BY <1>1, <1>2, <1>3, <1>4, <1>5 DEF ServiceEvents
<1>7. /\ m \in Nat /\ Len(grown) = m + 1 /\ Len(grown) \in Nat /\ m <= Len(grown)
      /\ \A i \in 1..m : grown[i] = accepted[i] /\ i \in 1..Len(grown)
      /\ m + 1 \in 1..Len(grown) /\ grown[m + 1] = e
      /\ \A i \in 1..Len(grown) : i \in 1..m \/ i = m + 1
  <2>1. \A x : x \in 1..1 => x = 1
    OBVIOUS
  <2>2. QED
    BY <1>1, <1>2, <2>1, Grown, SMTT(30)
<1>. HIDE DEF new, m, kind
<1>8. Kept(grown, made)
  BY <1>6, KeptAfterService DEF m
<1>. HIDE DEF grown
<1>9. \A i \in 1..m : accepted[i].id # e.id
  BY <1>7, <1>8 DEF Kept, Distinct
<1>10. Applied(s, e, next)
  BY <1>4, ApplyEffect DEF Sound
<1>11. Admits(s, e)
  <2>1. e.id \notin s.ids
    BY <1>9 DEF Sound, m
  <2>2. \A c \in s.conflicts : c.id # e.id
    BY <1>9 DEF Sound, ConflictsOpened, About, m
  <2>3. AdmitsType(s, e)
    BY <1>4, <2>2 DEF AdmitsType, AdmitsConflict, GoalChanges, LeaseUpdates, TaskMove
  <2>4. QED
    BY <1>4, <2>1, <2>3 DEF Admits, Sound
<1>12. next.ok /\ Onward(s, next) /\ \A c \in next.conflicts : c \in s.conflicts \/ Opened(c, e)
  BY <1>4, <1>10, <1>11 DEF Applied, Onward, ConflictFrom
<1>. HIDE DEF next
<1>13. /\ next.goal > 0
       /\ \A q \in Requests : Made(made, q) => Ready(made[q], grown, next)
       /\ \A j \in 1..m : IsOpening(grown[j]) => Opening(grown[j], j, next, made)
       /\ \A c : (\E j \in 1..m : About(c, accepted[j])) => \E j \in 1..Len(grown) : About(c, grown[j])
       /\ \A i \in 1..m : IsDecision(grown[i]) =>
            \E j \in 1..Len(grown) : IsOpening(grown[j]) /\ grown[j].id = grown[i].on
       /\ {accepted[i].id : i \in 1..m} \subseteq {grown[i].id : i \in 1..Len(grown)}
  <2>1. Follows(grown, accepted)
    BY <1>7 DEF Follows, m
  <2>2. Stays(accepted, s, made, grown, next)
    BY <1>12, <2>1, SoundStays
  <2>3. QED
    BY <2>2 DEF Stays, m
<1>14. next.ids \subseteq {grown[i].id : i \in 1..Len(grown)}
  <2>1. e.id \in {grown[i].id : i \in 1..Len(grown)}
    BY <1>7
  <2>2. QED
    BY <1>10, <1>13, <2>1 DEF Applied, Sound, m
<1>15. Opening(e, m + 1, next, made)
  <2>1. b.base \in 1..m /\ Ready(b, accepted, s)
    BY DEF Sound, Ready, m
  <2>2. b.base < m + 1
    BY <1>7, <2>1
  <2>3. kind = "stale_goal" => Lasting(b.events, s)
    BY <1>1, <2>1, StaleGoalLasts DEF Sound, kind
  <2>4. Ready(b, grown, next) /\ Lasting(b.events, s) => Lasting(b.events, next)
    <3>1. s.goal \in Nat /\ next.goal \in Nat /\ s.goal <= next.goal
      BY <1>12 DEF Onward, Sound, IsState
    <3>2. \A k \in 1..Len(b.events) : b.events[k].goal \in Nat
      BY DEF Sound, Ready
    <3>3. QED
      BY <1>12, <3>1, <3>2 DEF Lasting, Onward
  <2>5. QED
    BY <1>4, <1>13, <2>2, <2>3, <2>4 DEF Opening
<1>16. Openings(grown, next, made)
  BY <1>7, <1>13, <1>15 DEF Openings
<1>17. DecisionsAbout(grown)
  BY <1>4, <1>7, <1>13 DEF DecisionsAbout, IsDecision
<1>18. ConflictsOpened(grown, next)
  <2>1. \A c : Opened(c, e) => About(c, grown[m + 1])
    BY <1>4, <1>7 DEF Opened, About, IsOpening
  <2>2. QED
    BY <1>7, <1>12, <1>13, <2>1 DEF Sound, ConflictsOpened, m
<1>19. \A c : Opened(c, e) => c.batch = b.id
  BY <1>4 DEF Opened
<1>20. OneOpen(next)
  <2>1. \A c, d : Opened(c, e) /\ Opened(d, e) => c = d
    BY DEF Opened
  <2>2. \A c \in s.conflicts : c.open => c.batch # b.id
    BY DEF HasOpenConflict
  <2>3. QED
    BY <1>12, <1>19, <2>1, <2>2 DEF Sound, OneOpen
<1>21. \A i \in 1..m : accepted[i].batch # b.id
  BY DEF Absent, IsOf, m
<1>22. e.batch # b.id /\ \A q \in Requests : Made(made, q) => e.batch # made[q].id
  <2>1. \A q \in Requests : Made(made, q) => made[q].id = <<q.name, 0>> /\ q.name # "svc"
    BY NamesAssumption DEF Kept, BatchOf
  <2>2. \A x, y, k, l : <<x, k>> = <<y, l>> => x = y
    OBVIOUS
  <2>3. QED
    BY <1>4, <2>1, <2>2
<1>23. \A j \in 1..m : IsOpening(accepted[j]) => e.batch # accepted[j].on
  BY <1>22 DEF Sound, Openings, Opening, m
<1>24. OpenKeptOut(grown, next)
  <2>1. \A c \in s.conflicts : e.batch # c.batch
    BY <1>23 DEF Sound, ConflictsOpened, About, m
  <2>2. \A c \in s.conflicts : c.open => \A i \in 1..m : grown[i].batch # c.batch
    BY <1>7 DEF Sound, OpenKeptOut, m
  <2>3. \A c : Opened(c, e) => \A i \in 1..Len(grown) : grown[i].batch # c.batch
    BY <1>7, <1>19, <1>21, <1>22
  <2>4. QED
    BY <1>7, <1>12, <2>1, <2>2, <2>3 DEF OpenKeptOut
<1>25. ConflictKeptOut(grown)
  <2>1. SUFFICES ASSUME NEW j \in 1..Len(grown), IsOpening(grown[j]), Remembered(grown[j]),
                        NEW k \in 1..Len(grown)
                 PROVE  grown[k].batch # grown[j].on
    BY DEF ConflictKeptOut
  <2>2. CASE j \in 1..m /\ k \in 1..m
    BY <1>7, <2>1, <2>2 DEF Sound, ConflictKeptOut, m
  <2>3. CASE j \in 1..m /\ k = m + 1
    BY <1>7, <1>23, <2>1, <2>3
  <2>4. CASE j = m + 1
    BY <1>4, <1>7, <1>21, <1>22, <2>4
  <2>5. QED
    BY <1>7, <2>2, <2>3, <2>4
<1>26. Sound(grown, next, made)
  BY <1>12, <1>13, <1>14, <1>16, <1>17, <1>18, <1>20, <1>24, <1>25 DEF Sound, Onward
<1>27. next = Replay(s, new)
  BY ReplayOne DEF next, new
<1>28. QED
  BY <1>6, <1>12, <1>26, <1>27 DEF Onward, e, new, grown, m, kind

\* What a decision puts before its own event: plain events under the service's ids.
Prelude(p) ==
  /\ IsSequence(p)
  /\ \A k \in 1..Len(p) :
       /\ Plain(p[k]) /\ p[k].actor \in Actors
       /\ p[k].id = <<"svc", Len(accepted) + k>> /\ p[k].batch = ServiceId

Decides(res, c, m) ==
  /\ res.id = <<"svc", m + 1>> /\ res.batch = ServiceId /\ res.actor \in Actors
  /\ IsDecision(res) /\ res.on = c.id /\ res.task = None

LEMMA ReissuedIsPlain ==
  ASSUME NEW s, NEW e, IsEvent(e), Plain(e), NEW actor, NEW n
  PROVE  LET x == Reissued(s, e, actor, n)
         IN  /\ IsEvent(x) /\ Plain(x) /\ x.actor = actor
             /\ x.id = <<"svc", Len(accepted) + n>> /\ x.batch = ServiceId
<1>. DEFINE id == <<"svc", Len(accepted) + n>>
            x == Reissued(s, e, actor, n)
            batch == ServiceId
            base == Baseline
<1>1. x = [e EXCEPT !.id = id, !.batch = batch, !.base = base, !.goal = s.goal, !.actor = actor]
  BY DEF Reissued
<1>. HIDE DEF id, batch, base
<1>2. x = [id |-> id, batch |-> batch, base |-> base, goal |-> s.goal, type |-> e.type,
           on |-> e.on, task |-> e.task, scope |-> e.scope, lease |-> e.lease, actor |-> actor,
           subject |-> e.subject, until |-> e.until, code |-> e.code, local |-> e.local]
  BY <1>1, ZenonT(30) DEF IsEvent
<1>. HIDE DEF x
<1>3. IsEvent(x) /\ x.type = e.type /\ x.task = e.task /\ x.actor = actor /\ x.id = id /\ x.batch = batch
  BY <1>2 DEF IsEvent
<1>4. Plain(x)
  BY <1>3 DEF Plain
<1>5. QED
  BY <1>3, <1>4 DEF id, batch, x

LEMMA PreludeOfResolution ==
  ASSUME IsSequence(accepted), NEW c, NEW actor \in Actors, NEW action \in Actions, NEW s,
         IsSequence(c.local),
         \A k \in 1..Len(c.local) : IsEvent(c.local[k]) /\ Plain(c.local[k])
  PROVE  \A p \in Preludes(s, c, actor, action) : Prelude(p)
<1>1. DOMAIN c.local = 1..Len(c.local) /\ Len(c.local) \in Nat
  BY SequenceDomain
<1>2. Prelude(<<>>)
  BY EmptyIsSequence DEF Prelude
<1>3. Prelude(Merged(s, c, actor))
  <2>. DEFINE p == Merged(s, c, actor)
  <2>1. p = [i \in 1..Len(c.local) |-> Reissued(s, c.local[i], actor, i)]
    BY <1>1 DEF Merged
  <2>2. p = [i \in 1..Len(c.local) |-> p[i]]
    BY <2>1
  <2>3. \A i \in 1..Len(c.local) : p[i] = Reissued(s, c.local[i], actor, i)
    BY <2>1
  <2>. HIDE DEF p
  <2>4. IsSequence(p) /\ Len(p) = Len(c.local)
    BY <1>1, <2>2, FunctionIsSequence
  <2>5. QED
    BY <2>3, <2>4, ReissuedIsPlain DEF Prelude, p
<1>4. \A p \in Proposals(s, c, actor) : Prelude(p)
  <2>1. TAKE p \in Proposals(s, c, actor)
  <2>2. PICK i \in DOMAIN c.local, new \in Changes : p = <<Proposal(s, c, actor, i, new)>>
    BY <2>1 DEF Proposals
  <2>. DEFINE x == Reissued(s, c.local[i], actor, 1)
              e == Proposal(s, c, actor, i, new)
  <2>3. /\ IsEvent(x) /\ Plain(x) /\ x.actor = actor
        /\ x.id = <<"svc", Len(accepted) + 1>> /\ x.batch = ServiceId
    <3>1. IsEvent(c.local[i]) /\ Plain(c.local[i])
      BY <1>1
    <3>2. QED
      BY <3>1, ReissuedIsPlain
  <2>4. p = <<e>>
    BY <2>2
  <2>. HIDE DEF x
  <2>10. x = [id |-> x.id, batch |-> x.batch, base |-> x.base, goal |-> x.goal, type |-> x.type,
              on |-> x.on, task |-> x.task, scope |-> x.scope, lease |-> x.lease, actor |-> x.actor,
              subject |-> x.subject, until |-> x.until, code |-> x.code, local |-> x.local]
    BY <2>3, Zenon DEF IsEvent
  <2>5. e = [id |-> x.id, batch |-> x.batch, base |-> x.base, goal |-> x.goal, type |-> x.type,
             on |-> new, task |-> None, scope |-> c.scope, lease |-> None, actor |-> x.actor,
             subject |-> x.subject, until |-> x.until, code |-> x.code, local |-> x.local]
    <3>1. e = [x EXCEPT !.on = new, !.scope = c.scope, !.task = None, !.lease = None]
      BY DEF Proposal, x
    <3>. HIDE DEF e
    <3>2. QED
      BY <2>10, <3>1
  <2>. HIDE DEF e
  <2>6. Plain(e) /\ e.actor = actor /\ e.id = <<"svc", Len(accepted) + 1>> /\ e.batch = ServiceId
    BY <2>3, <2>5 DEF Plain
  <2>7. IsSequence(p) /\ Len(p) = 1 /\ p[1] = e
    <3>1. p \in Seq({e})
      BY <2>4
    <3>2. QED
      BY <2>4, <3>1, MemberIsSequence
  <2>8. \A k \in 1..1 : k = 1
    OBVIOUS
  <2>9. QED
    BY <2>6, <2>7, <2>8 DEF Prelude
<1>5. CASE action = "manual_merge"
  BY <1>3, <1>5 DEF Preludes
<1>6. CASE action = "keep_as_proposal"
  BY <1>4, <1>6 DEF Preludes
<1>7. CASE action \notin {"manual_merge", "keep_as_proposal"}
  BY <1>2, <1>7 DEF Preludes
<1>8. QED
  BY <1>5, <1>6, <1>7

LEMMA ResolutionShape ==
  ASSUME IsSequence(accepted), NEW c, NEW actor \in Actors, NEW action \in Actions,
         IsSequence(c.local),
         \A k \in 1..Len(c.local) : IsEvent(c.local[k]) /\ Plain(c.local[k]),
         NEW events \in Resolutions(c, actor, action)
  PROVE  /\ Reducible(accepted \o events)
         /\ \E p, res : /\ Prelude(p) /\ events = Append(p, res)
                        /\ Decides(res, c, Len(accepted) + Len(p))
<1>. DEFINE s == Reduce(accepted)
            Res(p) == Resolution(Replay(s, p), c, actor, action, Len(p))
<1>1. /\ Reducible(accepted \o events)
      /\ \E p \in Preludes(s, c, actor, action) : events = Append(p, Res(p))
  BY DEF Resolutions
<1>2. \A p : Decides(Res(p), c, Len(accepted) + Len(p))
  BY DEF Decides, Resolution, IsDecision
<1>. HIDE DEF s, Res
<1>3. QED
  BY <1>1, <1>2, PreludeOfResolution

LEMMA SoundAfterDecision ==
  ASSUME NEW s, NEW made, Kept(accepted, made), Sound(accepted, s, made),
         NEW c \in s.conflicts, NEW p, Prelude(p),
         NEW res, Decides(res, c, Len(accepted) + Len(p)),
         Replay(s, Append(p, res)).ok
  PROVE  /\ ServiceEvents(Append(p, res), Len(accepted))
         /\ Sound(accepted \o Append(p, res), Replay(s, Append(p, res)), made)
         /\ s.goal <= Replay(s, Append(p, res)).goal
<1>. DEFINE m == Len(accepted)
            l == Len(p)
            new == Append(p, res)
            mid == Replay(s, p)
            next == Apply(mid, res)
            grown == accepted \o new
<1>1. /\ IsSequence(accepted) /\ m \in Nat /\ IsSequence(p) /\ l \in Nat
      /\ IsSequence(new) /\ Len(new) = l + 1
      /\ \A k \in 1..l : new[k] = p[k]
      /\ new[l + 1] = res
  BY SequenceDomain, AppendSequence DEF Kept, Prelude
<1>2. Replay(s, new) = next
  <2>1. IsSequence(<<res>>) /\ new = p \o <<res>>
    <3>1. <<res>> \in Seq({res})
      OBVIOUS
    <3>2. IsSequence(<<res>>) /\ Len(<<res>>) = 1 /\ <<res>>[1] = res
      BY <3>1, MemberIsSequence
    <3>3. /\ IsSequence(p \o <<res>>) /\ Len(p \o <<res>>) = l + 1
          /\ \A i \in 1..l + 1 : (p \o <<res>>)[i] = IF i <= l THEN p[i] ELSE <<res>>[i - l]
      BY <1>1, <3>2, ConcatSequence
    <3>4. \A i \in 1..l + 1 : (p \o <<res>>)[i] = new[i]
      <4>1. TAKE i \in 1..l + 1
      <4>2. CASE i <= l
        BY <1>1, <3>3, <4>2
      <4>3. CASE i = l + 1
        <5>1. ~(i <= l) /\ i - l = 1
          BY <1>1, <4>3
        <5>2. QED
          BY <1>1, <3>2, <3>3, <4>3, <5>1
      <4>4. QED
        BY <1>1, <4>2, <4>3
    <3>5. QED
      BY <1>1, <3>2, <3>3, <3>4, SequenceEqual
  <2>2. QED
    BY <1>1, <2>1, ReplayConcat, ReplayOne
<1>3. ServiceId = <<"svc", m + 1>> /\ m + 1 \in Nat
  BY <1>1 DEF ServiceId
<1>. HIDE DEF new
<1>4. ASSUME NEW k \in 1..Len(new)
      PROVE  /\ OfService(new[k], m + k) /\ new[k].actor \in Actors
             /\ new[k].batch = <<"svc", m + 1>> /\ ~IsOpening(new[k])
             /\ IsDecision(new[k]) => new[k].on = c.id
  <2>1. CASE k \in 1..l
    BY <1>1, <1>3, <2>1 DEF Prelude, OfService, IsOpening, IsDecision, Plain, ConflictTypes
  <2>2. CASE k = l + 1
    <3>1. (m + l) + 1 = m + (l + 1)
      BY <1>1
    <3>2. QED
      BY <1>1, <1>3, <2>2, <3>1 DEF Decides, OfService, IsOpening, IsDecision
  <2>3. QED
    BY <1>1, <2>1, <2>2
<1>5. ServiceEvents(new, m)
  BY <1>1, <1>4 DEF ServiceEvents
<1>6. /\ Len(new) \in Nat /\ Len(grown) \in Nat /\ m <= Len(grown)
      /\ \A i \in 1..m : grown[i] = accepted[i] /\ i \in 1..Len(grown)
      /\ \A k \in 1..Len(new) : m + k \in 1..Len(grown) /\ grown[m + k] = new[k]
      /\ \A i \in 1..Len(grown) : i \in 1..m \/ (i > m /\ i - m \in 1..Len(new) /\ grown[i] = new[i - m])
  BY <1>1, Grown
<1>7. Replayed(s, p, l, mid)
  BY ReplayEffect DEF Prelude, Sound
<1>8. Applied(mid, res, next)
  BY <1>7, ApplyEffect DEF Decides, Replayed
<1>9. next.ok
  BY <1>2 DEF new
<1>. HIDE DEF mid, next, grown, m, l
<1>10. /\ s.goal \in Nat /\ mid.goal \in Nat /\ next.goal \in Nat
  BY <1>7, <1>8 DEF Replayed, Applied, Sound, IsState
<1>11. Onward(s, next)
  BY <1>7, <1>8, <1>10 DEF Replayed, Applied, Onward
<1>12. \A d \in next.conflicts : \/ d \in s.conflicts /\ d.id # c.id
                                 \/ \E d0 \in s.conflicts : d = [d0 EXCEPT !.open = FALSE]
  BY <1>7, <1>8, <1>9 DEF Replayed, Applied, ConflictFrom, Decides, IsDecision
<1>. DEFINE no == FALSE
<1>13. ASSUME NEW d0 \in s.conflicts, NEW d, d = [d0 EXCEPT !.open = no]
       PROVE  ~d.open /\ \A e : About(d0, e) => About(d, e)
  <2>1. ~no
    OBVIOUS
  <2>. HIDE DEF no
  <2>2. d0 = [id |-> d0.id, code |-> d0.code, batch |-> d0.batch,
              local |-> d0.local, scope |-> d0.scope, open |-> d0.open]
    BY DEF Sound, IsState, IsConflict
  <2>3. d = [id |-> d0.id, code |-> d0.code, batch |-> d0.batch,
             local |-> d0.local, scope |-> d0.scope, open |-> no]
    BY <1>13, <2>2
  <2>4. QED
    BY <2>1, <2>3 DEF About
<1>14. \A d \in next.conflicts :
         \/ d \in s.conflicts
         \/ ~d.open /\ \E d0 \in s.conflicts : \A e : About(d0, e) => About(d, e)
  BY <1>12, <1>13, Zenon
<1>15. /\ next.goal > 0
       /\ \A q \in Requests : Made(made, q) => Ready(made[q], grown, next)
       /\ \A j \in 1..m : IsOpening(grown[j]) => Opening(grown[j], j, next, made)
       /\ \A d : (\E j \in 1..m : About(d, accepted[j])) => \E j \in 1..Len(grown) : About(d, grown[j])
       /\ \A i \in 1..m : IsDecision(grown[i]) =>
            \E j \in 1..Len(grown) : IsOpening(grown[j]) /\ grown[j].id = grown[i].on
       /\ {accepted[i].id : i \in 1..m} \subseteq {grown[i].id : i \in 1..Len(grown)}
  <2>1. Follows(grown, accepted)
    BY <1>1, <1>6 DEF Follows, m
  <2>2. Stays(accepted, s, made, grown, next)
    BY <1>11, <2>1, SoundStays
  <2>3. QED
    BY <2>2 DEF Stays, m
<1>16. next.ids \subseteq {grown[i].id : i \in 1..Len(grown)}
  <2>1. {p[k].id : k \in 1..l} \cup {res.id} \subseteq {grown[i].id : i \in 1..Len(grown)}
    <3>1. \A k \in 1..l : k \in 1..Len(new) /\ p[k] = new[k]
      BY <1>1
    <3>2. l + 1 \in 1..Len(new) /\ res = new[l + 1]
      BY <1>1
    <3>3. \A k \in 1..Len(new) : new[k].id \in {grown[i].id : i \in 1..Len(grown)}
      BY <1>6
    <3>4. ASSUME NEW k \in 1..l
          PROVE  p[k].id \in {grown[i].id : i \in 1..Len(grown)}
      <4>1. k \in 1..Len(new) /\ p[k].id = new[k].id
        BY <3>1, Zenon
      <4>2. QED
        BY <3>3, <4>1, Zenon
    <3>5. res.id \in {grown[i].id : i \in 1..Len(grown)}
      <4>1. l + 1 \in 1..Len(new) /\ res.id = new[l + 1].id
        BY <3>2, Zenon
      <4>2. QED
        BY <3>3, <4>1, Zenon
    <3>6. QED
      BY <3>4, <3>5, Zenon
  <2>2. mid.ids \subseteq s.ids \cup {p[k].id : k \in 1..l} /\ next.ids \subseteq mid.ids \cup {res.id}
    BY <1>7, <1>8 DEF Replayed, Applied
  <2>3. s.ids \subseteq {accepted[i].id : i \in 1..m}
    BY DEF Sound, m
  <2>. HIDE DEF no
  <2>4. QED
    BY <1>15, <2>1, <2>2, <2>3
<1>17. Openings(grown, next, made)
  BY <1>4, <1>6, <1>15 DEF Openings
<1>18. DecisionsAbout(grown)
  <2>1. PICK j \in 1..m : About(c, accepted[j])
    BY DEF Sound, ConflictsOpened, m
  <2>2. j \in 1..Len(grown) /\ IsOpening(grown[j]) /\ grown[j].id = c.id
    BY <1>6, <2>1 DEF About
  <2>3. SUFFICES ASSUME NEW i \in 1..Len(grown), IsDecision(grown[i])
                 PROVE  \E k \in 1..Len(grown) : IsOpening(grown[k]) /\ grown[k].id = grown[i].on
    BY DEF DecisionsAbout
  <2>4. CASE i \in 1..m
    BY <1>15, <2>3, <2>4
  <2>5. CASE i - m \in 1..Len(new) /\ grown[i] = new[i - m]
    BY <1>4, <2>2, <2>3, <2>5
  <2>6. QED
    BY <1>6, <2>4, <2>5
<1>19. ConflictsOpened(grown, next)
  BY <1>14, <1>15 DEF Sound, ConflictsOpened, m
<1>20. OneOpen(next)
  BY <1>14 DEF Sound, OneOpen
<1>21. \A j \in 1..m : IsOpening(accepted[j]) => accepted[j].on # <<"svc", m + 1>>
  <2>1. \A q \in Requests : Made(made, q) => made[q].id = <<q.name, 0>> /\ q.name # "svc"
    BY NamesAssumption DEF Kept, BatchOf
  <2>2. \A x, y, k, n : <<x, k>> = <<y, n>> => x = y
    OBVIOUS
  <2>3. QED
    BY <2>1, <2>2 DEF Sound, Openings, Opening, m
<1>22. \A i \in 1..Len(grown) : \/ i \in 1..m /\ grown[i] = accepted[i]
                                \/ grown[i].batch = <<"svc", m + 1>> /\ ~IsOpening(grown[i])
  BY <1>4, <1>6, SMTT(30)
<1>23. OpenKeptOut(grown, next)
  <2>1. SUFFICES ASSUME NEW d \in s.conflicts, d.open, NEW i \in 1..Len(grown)
                 PROVE  grown[i].batch # d.batch
    BY <1>14 DEF OpenKeptOut
  <2>2. PICK j \in 1..m : About(d, accepted[j])
    BY <2>1 DEF Sound, ConflictsOpened, m
  <2>3. d.batch # <<"svc", m + 1>>
    BY <1>21, <2>2 DEF About
  <2>4. QED
    BY <1>22, <2>1, <2>3 DEF Sound, OpenKeptOut, m
<1>24. ConflictKeptOut(grown)
  <2>1. SUFFICES ASSUME NEW j \in 1..Len(grown), IsOpening(grown[j]), Remembered(grown[j]),
                        NEW k \in 1..Len(grown)
                 PROVE  grown[k].batch # grown[j].on
    BY DEF ConflictKeptOut
  <2>2. j \in 1..m /\ grown[j] = accepted[j]
    BY <1>22, <2>1
  <2>3. QED
    BY <1>21, <1>22, <2>1, <2>2 DEF Sound, ConflictKeptOut, m
<1>25. Sound(grown, next, made)
  BY <1>11, <1>15, <1>16, <1>17, <1>18, <1>19, <1>20, <1>23, <1>24 DEF Sound, Onward
<1>26. QED
  BY <1>2, <1>5, <1>11, <1>25 DEF Onward, new, grown, m
-----------------------------------------------------------------------------
(***************************************************************************)
(* The invariant of the service with its callers.                          *)
(***************************************************************************)
CoreOK ==
  /\ mode \in Modes /\ IsSequence(accepted) /\ IsSequence(canonical)
  /\ manifest \in Nat /\ now \in 0..MaxNow /\ faults \in 0..MaxFaults

\* What was answered to a request is where its batch is.
Answered(made, given, log) ==
  \A r \in Requests : \A x \in given[r] :
    /\ Made(made, r)
    /\ \E n \in Nat : StoredFrom(made[r], n, log) /\ x = <<n + 1, n + Len(made[r].events)>>

CallersOK ==
  /\ built = [r \in Requests |-> built[r]] /\ answers = [r \in Requests |-> answers[r]]
  /\ tries \in [Requests -> 0..MaxTries]

Before ==
  /\ mode = "down" /\ canonical = Seed /\ manifest = Reduce(Seed).goal
  /\ \A r \in Requests : ~Made(built, r) /\ answers[r] = {}

\* What was answered is in the first events of the log.
Told(given, log) == \A r \in Requests : \A x \in given[r] : x[2] <= Len(log)

\* The facts follow the log, and a service that takes writes knows what it told.
FactsOK ==
  /\ IsPrefix(canonical, accepted) /\ manifest <= Reduce(accepted).goal
  /\ mode = "writable" => manifest = Reduce(canonical).goal /\ Told(answers, canonical)

Running ==
  /\ FactsOK /\ Kept(accepted, built)
  /\ Sound(accepted, Reduce(accepted), built) /\ Answered(built, answers, accepted)

CommandsInv ==
  /\ CoreOK /\ CallersOK
  /\ accepted = <<>> => Before
  /\ accepted # <<>> => Running

LEMMA Starts ==
  ASSUME Init
  PROVE  CommandsInv
<1>1. /\ accepted = <<>> /\ canonical = Seed /\ manifest = Reduce(Seed).goal
      /\ mode = "down" /\ now = 0 /\ faults = 0
      /\ built = [r \in Requests |-> None] /\ tries = [r \in Requests |-> 0]
      /\ answers = [r \in Requests |-> {}]
  BY DEF Init, CoreInit
<1>2. \A r \in Requests : ~Made(built, r) /\ answers[r] = {}
  BY <1>1 DEF Made
<1>3. Reduce(Seed).goal \in Nat
  BY <1>2, SoundAtSeed DEF Sound, IsState
<1>4. CoreOK
  BY <1>1, <1>3, EmptyIsSequence, SeedFacts, SeedAssumption DEF CoreOK, Modes
<1>5. CallersOK
  <2>1. 0 \in 0..MaxTries
    BY RequestsAssumption
  <2>2. QED
    BY <1>1, <2>1 DEF CallersOK
<1>6. QED
  BY <1>1, <1>2, <1>4, <1>5 DEF CommandsInv, Before

\* However a materialization ends, and if it never starts, the facts are of the log.
Ends ==
  \/ Materialize \/ LeaveUnread
  \/ \E stop \in {"readonly", "down"} : StopMaterializing(stop) \/ CannotMaterialize(stop)

Ended ==
  /\ mode' \in Modes /\ IsSequence(canonical') /\ IsPrefix(canonical', accepted')
  /\ manifest' \in Nat /\ manifest' <= Reduce(accepted').goal /\ faults' \in 0..MaxFaults
  /\ mode' = "writable" =>
       /\ manifest' = Reduce(canonical').goal
       /\ \/ canonical' = accepted'
          \/ mode = "writable" /\ canonical' = canonical /\ faults' # faults

LEMMA MaterializationEnds ==
  ASSUME CoreOK, mode = "writable" => manifest = Reduce(canonical).goal, Ends,
         IsSequence(accepted'), IsPrefix(canonical, accepted'), Reduce(accepted').goal \in Nat,
         manifest <= Reduce(accepted').goal
  PROVE  Ended
<1>. DEFINE goal == Reduce(accepted').goal
<1>1. /\ IsPrefix(accepted', accepted') /\ MaxFaults \in Nat /\ goal \in Nat /\ goal <= goal
      /\ IsSequence(canonical) /\ manifest \in Nat /\ manifest <= goal
      /\ faults \in 0..MaxFaults /\ mode \in Modes
  BY PrefixReflexive, SeedAssumption DEF CoreOK
<1>. HIDE DEF goal
<1>2. CASE Materialize
  BY <1>1, <1>2 DEF Materialize, Modes, Ended, goal
<1>3. CASE LeaveUnread
  <2>1. /\ faults < MaxFaults /\ faults' = faults + 1
        /\ canonical' = canonical /\ manifest' = manifest /\ mode' = mode
    BY <1>3 DEF LeaveUnread
  <2>2. faults' \in 0..MaxFaults /\ faults' # faults
    BY <1>1, <2>1
  <2>3. QED
    BY <1>1, <2>1, <2>2 DEF Ended, goal
<1>4. ASSUME NEW stop \in {"readonly", "down"}, StopMaterializing(stop) PROVE Ended
  <2>1. /\ faults < MaxFaults /\ faults' = faults + 1 /\ mode' = stop
        /\ \/ UNCHANGED <<canonical, manifest>>
           \/ canonical' = accepted' /\ manifest' \in manifest..goal
    BY <1>4 DEF StopMaterializing, goal
  <2>2. faults' \in 0..MaxFaults
    BY <1>1, <2>1
  <2>3. manifest' \in Nat /\ manifest' <= goal
    BY <1>1, <2>1
  <2>4. IsSequence(canonical') /\ IsPrefix(canonical', accepted')
    BY <1>1, <2>1
  <2>5. mode' \in Modes /\ mode' # "writable"
    BY <2>1 DEF Modes
  <2>6. QED
    BY <2>2, <2>3, <2>4, <2>5 DEF Ended, goal
<1>5. ASSUME NEW stop \in {"readonly", "down"}, CannotMaterialize(stop) PROVE Ended
  <2>1. canonical' = accepted' /\ mode' = stop /\ manifest' = manifest /\ faults' = faults
    BY <1>5 DEF CannotMaterialize
  <2>2. mode' \in Modes /\ mode' # "writable"
    BY <2>1 DEF Modes
  <2>3. QED
    BY <1>1, <2>1, <2>2 DEF Ended, goal
<1>6. QED
  BY <1>2, <1>3, <1>4, <1>5 DEF Ends

\* A call that fails because the log was not read tells its caller nothing.
LEMMA FactsStayOK ==
  ASSUME CoreOK, mode = "writable" => Told(answers, canonical), Ended,
         Answered(built', answers', accepted'), answers' = answers \/ Replied
  PROVE  FactsOK'
<1>1. ASSUME mode' = "writable", canonical' = accepted' PROVE Told(answers', canonical')
  <2>1. SUFFICES ASSUME NEW r \in Requests, NEW x \in answers'[r] PROVE x[2] <= Len(canonical')
    BY DEF Told
  <2>2. PICK n \in Nat : /\ StoredFrom(built'[r], n, accepted')
                         /\ x = <<n + 1, n + Len(built'[r].events)>>
    BY <2>1 DEF Answered
  <2>3. QED
    BY <1>1, <2>2 DEF StoredFrom
<1>2. ASSUME mode' = "writable", ~(canonical' = accepted') PROVE Told(answers', canonical')
  <2>1. mode = "writable" /\ canonical' = canonical /\ faults' # faults
    BY <1>2 DEF Ended
  <2>2. answers' = answers
    BY <1>2, <2>1 DEF Replied
  <2>3. QED
    BY <2>1, <2>2
<1>3. QED
  BY <1>1, <1>2 DEF Ended, FactsOK

\* The log grows, and then what was built and answered still fits it.
LEMMA CommitKeeps ==
  ASSUME CommandsInv, accepted # <<>>, NEW new, IsSequence(new), Commit(new),
         UNCHANGED built, Kept(accepted \o new, built),
         Sound(accepted \o new, Reduce(accepted \o new), built),
         Reduce(accepted).goal <= Reduce(accepted \o new).goal,
         Answered(built, answers', accepted \o new), answers' = answers \/ Replied
  PROVE  CoreOK' /\ accepted' # <<>> /\ accepted' = accepted \o new /\ Running'
<1>1. accepted' = accepted \o new /\ now' = now /\ Ends
  BY DEF Commit, Ends
<1>2. LogGrows
  BY CommitAppends DEF CommandsInv, CoreOK
<1>3. CoreOK /\ Running
  BY DEF CommandsInv
<1>4. IsPrefix(canonical, accepted')
  BY <1>2, <1>3, PrefixTransitive DEF CoreOK, Running, FactsOK, LogGrows
<1>5. Reduce(accepted').goal \in Nat /\ Reduce(accepted).goal \in Nat
  BY <1>1, <1>3 DEF Running, Sound, IsState
<1>6. manifest <= Reduce(accepted').goal
  <2>1. manifest \in Nat /\ manifest <= Reduce(accepted).goal
        /\ Reduce(accepted).goal <= Reduce(accepted').goal
    BY <1>1, <1>3 DEF CoreOK, Running, FactsOK
  <2>2. QED
    BY <1>5, <2>1
<1>7. Ended
  BY <1>1, <1>2, <1>3, <1>4, <1>5, <1>6, MaterializationEnds DEF Running, FactsOK, LogGrows
<1>8. CoreOK'
  BY <1>1, <1>2, <1>3, <1>7 DEF CoreOK, Ended, LogGrows
<1>9. FactsOK'
  BY <1>1, <1>3, <1>7, FactsStayOK DEF Running, FactsOK
<1>10. Running'
  BY <1>1, <1>9 DEF Running
<1>11. QED
  BY <1>1, <1>2, <1>8, <1>10 DEF LogGrows

LEMMA ServiceKeeps ==
  ASSUME CommandsInv, Service
  PROVE  CommandsInv' /\ (accepted' = accepted \/ (accepted = <<>> /\ accepted' = Seed))
<1>1. built' = built /\ answers' = answers /\ tries' = tries
  BY DEF Service
<1>2. CallersOK' /\ CoreOK
  BY <1>1 DEF CommandsInv, CallersOK
<1>3. CASE Crash \/ Tick
  <2>1. /\ accepted' = accepted /\ canonical' = canonical /\ manifest' = manifest
        /\ mode' = mode \/ mode' = "down"
        /\ now' \in 0..MaxNow /\ faults' \in 0..MaxFaults
    BY <1>2, <1>3, SeedAssumption DEF Crash, Tick, CoreOK
  <2>2. CoreOK'
    BY <1>2, <2>1 DEF CoreOK, Modes
  <2>3. Before => Before'
    BY <1>1, <2>1 DEF Before
  <2>4. Running => Running'
    <3>1. FactsOK => FactsOK'
      BY <1>1, <2>1 DEF FactsOK
    <3>2. QED
      BY <1>1, <2>1, <3>1 DEF Running
  <2>5. QED
    BY <1>2, <2>1, <2>2, <2>3, <2>4 DEF CommandsInv
<1>4. CASE Restart
  <2>1. accepted' = Facts /\ now' = now /\ Ends /\ mode # "writable"
    BY <1>4 DEF Restart, Ends
  \* What the repair needs of the log it finds, and what it leaves.
  <2>2. ASSUME accepted' # <<>>, IsPrefix(canonical, accepted'), IsSequence(accepted'),
               Kept(accepted', built), Sound(accepted', Reduce(accepted'), built),
               manifest <= Reduce(accepted').goal, Answered(built, answers, accepted')
        PROVE  CommandsInv'
    <3>1. Reduce(accepted').goal \in Nat
      BY <2>2 DEF Sound, IsState
    <3>2. Ended
      BY <1>2, <2>1, <2>2, <3>1, MaterializationEnds
    <3>3. CoreOK'
      BY <1>2, <2>1, <2>2, <3>2 DEF CoreOK, Ended
    <3>4. FactsOK'
      BY <1>1, <1>2, <2>1, <2>2, <3>2, FactsStayOK
    <3>5. Running'
      BY <1>1, <2>2, <3>4 DEF Running
    <3>6. QED
      BY <1>2, <2>2, <3>3, <3>5 DEF CommandsInv
  <2>3. CASE accepted = <<>>
    <3>1. accepted' = Seed /\ Before /\ accepted' # <<>>
      BY <2>1, <2>3, SeedAssumption DEF Facts, CommandsInv, Before
    <3>2. Kept(accepted', built) /\ Sound(accepted', Reduce(accepted'), built)
      BY <3>1, KeptAtSeed, SoundAtSeed DEF Before
    <3>3. IsPrefix(canonical, accepted') /\ IsSequence(accepted')
      BY <3>1, PrefixReflexive, SeedFacts DEF Before
    <3>4. manifest <= Reduce(accepted').goal
      BY <3>1, <3>2 DEF Before, Sound, IsState
    <3>5. Answered(built, answers, accepted')
      BY <3>1 DEF Answered, Before
    <3>6. QED
      BY <2>2, <2>3, <3>1, <3>2, <3>3, <3>4, <3>5
  <2>4. CASE accepted # <<>>
    <3>1. accepted' = accepted /\ Running
      BY <2>1, <2>4 DEF Facts, CommandsInv
    <3>2. CommandsInv'
      BY <1>2, <2>2, <2>4, <3>1 DEF CoreOK, Running, FactsOK
    <3>3. QED
      BY <3>1, <3>2
  <2>5. QED
    BY <2>3, <2>4
<1>5. QED
  BY <1>3, <1>4 DEF Service

LEMMA BoundIsStep ==
  ASSUME NEW s, IsState(s), NEW r, NEW step, IsStep(step)
  PROVE  IsStep(Bound(s, r, step)) /\ Bound(s, r, step).type = step.type
<1>. DEFINE l == s.lease[step.lease]
            task == l.task
            scope == l.scope
<1>1. CASE ~r.device /\ step.lease # None /\ s.lease[step.lease].status # "none"
  <2>1. Bound(s, r, step) = [step EXCEPT !.task = task, !.scope = scope]
    BY <1>1 DEF Bound
  <2>2. task \in Tasks \cup {None}
    BY <1>1 DEF IsStep, IsState, IsLease
  <2>. HIDE DEF task, scope
  <2>3. Bound(s, r, step) = [type |-> step.type, on |-> step.on, task |-> task, scope |-> scope,
                             lease |-> step.lease, subject |-> step.subject, until |-> step.until]
    BY <2>1 DEF IsStep
  <2>4. QED
    BY <2>2, <2>3 DEF IsStep
<1>2. CASE ~(~r.device /\ step.lease # None /\ s.lease[step.lease].status # "none")
  BY <1>2 DEF Bound
<1>3. QED
  BY <1>1, <1>2

LEMMA BuildKeeps ==
  ASSUME CommandsInv, NEW r \in Requests, Build(r)
  PROVE  CommandsInv' /\ accepted' = accepted
<1>. DEFINE s == Reduce(accepted)
            m == Len(accepted)
            Event(i) == NewEvent(r.name, i, m, s.goal, r.actor, Bound(s, r, r.steps[i]))
            events == [i \in 1..Len(r.steps) |-> Event(i)]
            b == [id |-> <<r.name, 0>>, base |-> m, events |-> events]
<1>1. /\ mode = "writable" /\ ~Made(built, r) /\ core' = core /\ tries' = tries /\ answers' = answers
  BY DEF Build, Made
<1>2. Running /\ accepted # <<>> /\ IsSequence(accepted) /\ m \in Nat
  BY <1>1, SequenceDomain DEF CommandsInv, CoreOK, Before
<1>3. m \in 1..Len(accepted)
  BY <1>2, EmptyIsSequence, SequenceEqual
<1>4. /\ IsSequence(r.steps) /\ r.steps # <<>> /\ r.actor \in Actors
      /\ DOMAIN r.steps = 1..Len(r.steps) /\ Len(r.steps) \in Nat
      /\ \A i \in 1..Len(r.steps) : IsStep(r.steps[i]) /\ r.steps[i].type \notin ConflictTypes
  BY RequestsAssumption, SequenceDomain
<1>5. built' = [built EXCEPT ![r] = b]
  BY <1>4 DEF Build, Baseline
<1>6. IsState(s) /\ s.goal \in Nat /\ s.goal <= s.goal
  BY <1>2 DEF Running, Sound, IsState
<1>. HIDE DEF s, m
<1>7. ASSUME NEW i \in 1..Len(r.steps)
      PROVE  /\ IsEvent(Event(i)) /\ Plain(Event(i)) /\ Event(i).actor \in Actors
             /\ Event(i).base = m /\ Event(i).goal = s.goal
             /\ Event(i).id = <<r.name, i>> /\ Event(i).batch = <<r.name, 0>>
  <2>. DEFINE step == Bound(s, r, r.steps[i])
  <2>1. IsStep(step) /\ step.type \notin ConflictTypes
    BY <1>4, <1>6, BoundIsStep
  <2>. HIDE DEF step
  <2>2. /\ Event(i).actor = r.actor /\ Event(i).base = m /\ Event(i).goal = s.goal
        /\ Event(i).id = <<r.name, i>> /\ Event(i).batch = <<r.name, 0>>
        /\ Event(i).type = step.type /\ Event(i).task = step.task
    BY DEF NewEvent, step
  <2>3. IsEvent(Event(i))
    BY DEF NewEvent, IsEvent
  <2>. HIDE DEF Event
  <2>4. QED
    BY <1>4, <2>1, <2>2, <2>3 DEF Plain, IsStep
<1>. HIDE DEF Event
<1>8. events = [i \in 1..Len(r.steps) |-> events[i]]
  OBVIOUS
<1>9. \A i \in 1..Len(r.steps) : events[i] = Event(i)
  OBVIOUS
<1>. HIDE DEF events
<1>10. IsSequence(events) /\ Len(events) = Len(r.steps)
  BY <1>4, <1>8, FunctionIsSequence
<1>11. events # <<>>
  BY <1>4, <1>10, EmptyIsSequence, SequenceEqual
<1>12. b.id = <<r.name, 0>> /\ b.base = m /\ b.events = events
  OBVIOUS
<1>. HIDE DEF b
<1>13. BatchOf(b, r.name)
  BY <1>7, <1>9, <1>10, <1>11, <1>12 DEF BatchOf
<1>14. Ready(b, accepted, s)
  BY <1>3, <1>6, <1>7, <1>9, <1>10, <1>12 DEF Ready
<1>15. built = [q \in Requests |-> built[q]] /\ built' = [q \in Requests |-> built'[q]]
  BY <1>5 DEF CommandsInv, CallersOK
<1>16. Kept(accepted, built')
  BY <1>1, <1>2, <1>5, <1>13, <1>15, KeptAfterBuild DEF Running
<1>17. Sound(accepted, s, built')
  BY <1>1, <1>2, <1>5, <1>14, <1>15, SoundAfterBuild DEF Running, s
<1>18. Answered(built', answers', accepted)
  <2>1. \A q \in Requests : Made(built, q) => Made(built', q) /\ built'[q] = built[q]
    BY <1>1, <1>5, <1>15 DEF Made
  <2>2. SUFFICES ASSUME NEW q \in Requests, NEW x \in answers[q]
                 PROVE  /\ Made(built', q)
                        /\ \E n \in Nat : /\ StoredFrom(built'[q], n, accepted)
                                         /\ x = <<n + 1, n + Len(built'[q].events)>>
    BY <1>1 DEF Answered
  <2>3. /\ Made(built, q)
        /\ \E n \in Nat : StoredFrom(built[q], n, accepted) /\ x = <<n + 1, n + Len(built[q].events)>>
    BY <1>2, <2>2 DEF Answered, Running
  <2>4. QED
    BY <2>1, <2>3
<1>19. /\ accepted' = accepted /\ canonical' = canonical /\ manifest' = manifest /\ mode' = mode
       /\ now' = now /\ faults' = faults
  BY <1>1 DEF core
<1>20. CoreOK' /\ CallersOK'
  BY <1>1, <1>15, <1>19 DEF CommandsInv, CoreOK, CallersOK
<1>21. Running'
  <2>1. FactsOK'
    BY <1>1, <1>2, <1>19 DEF Running, FactsOK
  <2>2. QED
    BY <1>2, <1>16, <1>17, <1>18, <1>19, <2>1 DEF Running, s
<1>22. QED
  BY <1>2, <1>19, <1>20, <1>21 DEF CommandsInv

\* The log replayed further.
LEMMA ReduceConcat ==
  ASSUME NEW log, NEW new, IsSequence(log), IsSequence(new)
  PROVE  Reduce(log \o new) = Replay(Reduce(log), new)
  BY ReplayConcat DEF Reduce

\* What a delivery does: it stores the batch, opens its conflict, finds it, or is refused.
Stores(b) ==
  /\ Commit(b.events) /\ Pushes(b) /\ DetectConflict(Reduce(accepted), b) = "none"
  /\ Verdict(b) = Appended(b.events)

Opens(b) ==
  LET kind == DetectConflict(Reduce(accepted), b)
  IN /\ Commit(<<ConflictOpened(Reduce(accepted), b, kind)>>)
     /\ Pushes(b) /\ kind # "none" /\ Verdict(b).status # "accepted"

Finds(b) == Commit(<<>>) /\ StoredAt(b) # {} /\ Verdict(b) = Stored(StoredAt(b))

LEMMA DeliveryCases ==
  ASSUME NEW r \in Requests, Deliver(r)
  PROVE  /\ Made(built, r) /\ built' = built /\ tries' = [tries EXCEPT ![r] = @ + 1]
         /\ tries[r] < IF r.device THEN MaxTries ELSE 1
         /\ \/ Stores(built[r]) \/ Opens(built[r]) \/ Finds(built[r])
            \/ UNCHANGED core /\ Verdict(built[r]).status # "accepted"
         /\ \/ answers' = answers
            \/ /\ Verdict(built[r]).status = "accepted" /\ Replied
               /\ answers' = [answers EXCEPT ![r] = @ \cup {<<Verdict(built[r]).from,
                                                              Verdict(built[r]).to>>}]
<1>. DEFINE b == built[r]
            v == Verdict(b)
            s == Reduce(accepted)
            kind == DetectConflict(s, b)
<1>1. /\ Made(built, r) /\ built' = built /\ tries' = [tries EXCEPT ![r] = @ + 1]
      /\ tries[r] < IF r.device THEN MaxTries ELSE 1
  BY DEF Deliver, Made
<1>2. /\ Perform(v)
      /\ answers' = IF v.status = "accepted" /\ Replied
                    THEN [answers EXCEPT ![r] = @ \cup {<<v.from, v.to>>}]
                    ELSE answers
  BY DEF Deliver
<1>3. \/ v = Appended(b.events) /\ Pushes(b) /\ kind = "none"
      \/ v.status # "accepted" /\ v.append = <<>>
      \/ /\ v.status # "accepted" /\ Pushes(b) /\ kind # "none"
         /\ v.append = <<ConflictOpened(s, b, kind)>>
      \/ v = Stored(StoredAt(b)) /\ StoredAt(b) # {}
  BY VerdictOnBatch
<1>. HIDE DEF v, kind, s
<1>4. /\ Appended(b.events).append = b.events /\ Appended(b.events).status = "accepted"
      /\ Stored(StoredAt(b)).append = <<>> /\ Stored(StoredAt(b)).status = "accepted"
  BY DEF Appended, Stored, Answer
<1>5. ~(<<ConflictOpened(s, b, kind)>> = <<>>)
  OBVIOUS
<1>6. CASE v = Appended(b.events) /\ Pushes(b) /\ kind = "none"
  <2>1. Commit(b.events)
    BY <1>2, <1>4, <1>6 DEF Perform
  <2>2. Stores(b)
    BY <1>6, <2>1 DEF Stores, v, kind, s
  <2>3. QED
    BY <1>1, <1>2, <2>2 DEF v
<1>7. CASE v.status # "accepted" /\ v.append = <<>>
  BY <1>1, <1>2, <1>7 DEF Perform, v
<1>8. CASE /\ v.status # "accepted" /\ Pushes(b) /\ kind # "none"
           /\ v.append = <<ConflictOpened(s, b, kind)>>
  <2>1. Commit(<<ConflictOpened(s, b, kind)>>)
    BY <1>2, <1>5, <1>8 DEF Perform
  <2>2. Opens(b)
    BY <1>8, <2>1 DEF Opens, v, kind, s
  <2>3. QED
    BY <1>1, <1>2, <2>2 DEF v
<1>9. CASE v = Stored(StoredAt(b)) /\ StoredAt(b) # {}
  <2>1. Commit(<<>>)
    BY <1>2, <1>4, <1>9 DEF Perform
  <2>2. Finds(b)
    BY <1>9, <2>1 DEF Finds, v
  <2>3. QED
    BY <1>1, <1>2, <2>2 DEF v
<1>10. QED
  BY <1>3, <1>6, <1>7, <1>8, <1>9

\* The answers given before stay where they are.
AnswersIn(Q, log) ==
  \A r \in Q : \A x \in answers[r] :
    /\ Made(built, r)
    /\ \E n \in Nat : /\ StoredFrom(built[r], n, log)
                      /\ x = <<n + 1, n + Len(built[r].events)>>

LEMMA AnsweredStays ==
  ASSUME Running, IsSequence(accepted), NEW new, IsSequence(new), NEW Q, Q \subseteq Requests,
         \A r \in Q : Made(built, r) => \A k \in 1..Len(new) : ~IsOf(new[k], built[r])
  PROVE  AnswersIn(Q, accepted \o new)
<1>. SUFFICES ASSUME NEW r \in Q, NEW x \in answers[r]
              PROVE  /\ Made(built, r)
                     /\ \E n \in Nat : /\ StoredFrom(built[r], n, accepted \o new)
                                       /\ x = <<n + 1, n + Len(built[r].events)>>
  BY DEF AnswersIn
<1>3. /\ Made(built, r)
      /\ \E n \in Nat : StoredFrom(built[r], n, accepted) /\ x = <<n + 1, n + Len(built[r].events)>>
  BY DEF Running, Answered
<1>4. PICK n \in Nat : StoredFrom(built[r], n, accepted) /\ x = <<n + 1, n + Len(built[r].events)>>
  BY <1>3
<1>5. IsSequence(built[r].events)
  BY <1>3 DEF Running, Kept, BatchOf
<1>6. StoredFrom(built[r], n, accepted \o new)
  BY <1>3, <1>4, <1>5, StoredStays
<1>7. QED
  BY <1>3, <1>4, <1>6

LEMMA DeliverKeeps ==
  ASSUME CommandsInv, NEW r \in Requests, Deliver(r)
  PROVE  CommandsInv'
<1>. DEFINE b == built[r]
            v == Verdict(b)
            s == Reduce(accepted)
            m == Len(accepted)
<1>1. /\ Made(built, r) /\ built' = built /\ tries' = [tries EXCEPT ![r] = @ + 1]
      /\ tries[r] < IF r.device THEN MaxTries ELSE 1
      /\ \/ Stores(b) \/ Opens(b) \/ Finds(b)
         \/ UNCHANGED core /\ v.status # "accepted"
      /\ \/ answers' = answers
         \/ /\ v.status = "accepted" /\ Replied
            /\ answers' = [answers EXCEPT ![r] = @ \cup {<<v.from, v.to>>}]
  BY DeliveryCases
<1>2. accepted # <<>> /\ Running /\ IsSequence(accepted) /\ m \in Nat
  BY <1>1, SequenceDomain DEF CommandsInv, CoreOK, Before
<1>3. /\ BatchOf(b, r.name) /\ AtOnePlace(b, accepted) /\ Ready(b, accepted, s)
      /\ IsSequence(b.events) /\ Len(b.events) \in Nat /\ b.events # <<>>
  BY <1>1, <1>2, SequenceDomain DEF Running, Kept, Sound, BatchOf
<1>4. CallersOK'
  <2>1. tries[r] + 1 \in 0..MaxTries
    BY <1>1, RequestsAssumption DEF CommandsInv, CallersOK
  <2>2. QED
    BY <1>1, <2>1 DEF CommandsInv, CallersOK
<1>. HIDE DEF b, v, s, m
\* The invariant, from what a commit leaves and where the answers point.
<1>5. ASSUME NEW new, IsSequence(new), Commit(new), Kept(accepted \o new, built),
             Sound(accepted \o new, Reduce(accepted \o new), built),
             s.goal <= Reduce(accepted \o new).goal,
             Answered(built, answers', accepted \o new)
      PROVE  CommandsInv'
  <2>1. CoreOK' /\ accepted' # <<>> /\ Running'
    BY <1>1, <1>2, <1>5, CommitKeeps DEF s
  <2>2. QED
    BY <1>4, <2>1 DEF CommandsInv
\* One more answer of r.
<1>6. ASSUME NEW log, NEW n \in Nat, StoredFrom(b, n, log),
             \A q \in Requests : \A x \in answers[q] :
               /\ Made(built, q)
               /\ \E i \in Nat : StoredFrom(built[q], i, log) /\ x = <<i + 1, i + Len(built[q].events)>>,
             answers' = answers \/ (v.from = n + 1 /\ v.to = n + Len(b.events))
      PROVE  Answered(built, answers', log)
  <2>1. SUFFICES ASSUME NEW q \in Requests, NEW x \in answers'[q]
                 PROVE  /\ Made(built, q)
                        /\ \E i \in Nat : /\ StoredFrom(built[q], i, log)
                                         /\ x = <<i + 1, i + Len(built[q].events)>>
    BY DEF Answered
  <2>2. CASE x \in answers[q]
    BY <1>6, <2>2
  <2>3. CASE x \notin answers[q]
    <3>1. answers = [p \in Requests |-> answers[p]]
      BY DEF CommandsInv, CallersOK
    <3>2. answers' # answers /\ q = r /\ x = <<v.from, v.to>>
      BY <1>1, <2>1, <2>3, <3>1
    <3>3. x = <<n + 1, n + Len(b.events)>>
      BY <1>6, <3>2
    <3>4. QED
      BY <1>1, <1>6, <3>2, <3>3 DEF b
  <2>4. QED
    BY <2>2, <2>3
<1>7. CASE Stores(b)
  <2>. DEFINE grown == accepted \o b.events
  <2>1. /\ Pushes(b) /\ DetectConflict(s, b) = "none" /\ Commit(b.events)
        /\ v = Appended(b.events)
    BY <1>7 DEF Stores, v, s
  <2>2. StoredAt(b) = {} /\ ~HasOpenConflict(s, b)
    BY <2>1 DEF Pushes, s
  <2>3. Absent(b, accepted)
    BY <1>2, <1>3, <2>2, FoundWhereStored
  <2>4. \A k \in 1..Len(b.events) : b.events[k].actor \in Actors
    BY <1>3 DEF Ready
  <2>5. /\ Kept(grown, built) /\ StoredFrom(b, m, grown)
        /\ \A q \in Requests : q # r /\ Made(built, q) =>
             \A k \in 1..Len(b.events) : ~IsOf(b.events[k], built[q])
    BY <1>1, <1>2, <2>3, <2>4, KeptAfterBatch DEF Running, b, m
  <2>6. Sound(grown, Replay(s, b.events), built) /\ s.goal <= Replay(s, b.events).goal
    BY <1>1, <1>2, <2>1, <2>2, SoundAfterBatch DEF Running, b, s
  <2>7. Reduce(grown) = Replay(s, b.events)
    BY <1>2, <1>3, ReduceConcat DEF s
  <2>8. v.from = m + 1 /\ v.to = m + Len(b.events)
    BY <2>1 DEF Appended, m
  <2>9. answers[r] = {}
    <3>1. ASSUME NEW x \in answers[r] PROVE FALSE
      <4>1. PICK n \in Nat : StoredFrom(b, n, accepted)
        BY <1>2 DEF Running, Answered, b
      <4>2. 1 \in 1..Len(b.events)
        BY <1>3, EmptyIsSequence, SequenceEqual
      <4>3. n + 1 \in 1..Len(accepted) /\ accepted[n + 1] = b.events[1]
        BY <1>2, <1>3, <4>1, <4>2 DEF StoredFrom, m
      <4>4. IsOf(accepted[n + 1], b)
        BY <4>2, <4>3 DEF IsOf
      <4>5. QED
        BY <2>3, <4>3, <4>4 DEF Absent
    <3>2. QED
      BY <3>1
  <2>10. \A q \in Requests \ {r} : \A x \in answers[q] :
           /\ Made(built, q)
           /\ \E n \in Nat : /\ StoredFrom(built[q], n, grown)
                             /\ x = <<n + 1, n + Len(built[q].events)>>
    <3>. DEFINE Q == Requests \ {r}
                new == b.events
    <3>1. /\ Q \subseteq Requests /\ IsSequence(new)
          /\ \A q \in Q : Made(built, q) => \A k \in 1..Len(new) : ~IsOf(new[k], built[q])
      BY <1>3, <2>5
    <3>. HIDE DEF Q, new
    <3>2. AnswersIn(Q, accepted \o new)
      BY <1>2, <3>1, AnsweredStays
    <3>3. QED
      BY <3>2 DEF Q, new, AnswersIn
  <2>. HIDE DEF grown
  <2>11. Answered(built, answers', grown)
    BY <1>2, <1>6, <2>5, <2>8, <2>9, <2>10
  <2>12. QED
    BY <1>3, <1>5, <2>1, <2>5, <2>6, <2>7, <2>11 DEF grown
<1>8. CASE Opens(b)
  <2>. DEFINE kind == DetectConflict(s, b)
              new == <<ConflictOpened(s, b, kind)>>
              grown == accepted \o new
  <2>1. /\ Pushes(b) /\ kind # "none" /\ Commit(new) /\ v.status # "accepted"
    BY <1>8 DEF Opens, v, s
  <2>2. StoredAt(b) = {} /\ ~HasOpenConflict(s, b) /\ s.ok
    BY <2>1 DEF Pushes, s
  <2>3. Absent(b, accepted)
    BY <1>2, <1>3, <2>2, FoundWhereStored
  <2>4. /\ ServiceEvents(new, m) /\ Sound(grown, Replay(s, new), built)
        /\ s.goal <= Replay(s, new).goal
    BY <1>1, <1>2, <2>1, <2>2, <2>3, SoundAfterOpening DEF Running, b, s, m
  <2>. HIDE DEF new
  <2>5. /\ Kept(grown, built) /\ IsSequence(new)
        /\ \A q \in Requests : Made(built, q) => \A k \in 1..Len(new) : ~IsOf(new[k], built[q])
    BY <1>2, <2>4, KeptAfterService DEF Running, m, ServiceEvents
  <2>6. Reduce(grown) = Replay(s, new)
    BY <1>2, <2>5, ReduceConcat DEF s
  <2>7. answers' = answers
    BY <1>1, <2>1
  <2>8. Answered(built, answers', grown)
    <3>1. AnswersIn(Requests, grown)
      BY <1>2, <2>5, AnsweredStays
    <3>2. QED
      BY <2>7, <3>1 DEF Answered, AnswersIn
  <2>. HIDE DEF grown
  <2>9. QED
    BY <1>5, <2>1, <2>4, <2>5, <2>6, <2>8 DEF grown
<1>9. CASE Finds(b)
  <2>1. Commit(<<>>) /\ StoredAt(b) # {} /\ v = Stored(StoredAt(b)) /\ IsSequence(<<>>)
    BY <1>9, EmptyIsSequence DEF Finds, v
  <2>2. accepted \o <<>> = accepted
    BY <1>2, ConcatEmptySeq DEF IsSequence
  <2>3. PICK n \in Nat : /\ StoredFrom(b, n, accepted)
                         /\ Min(StoredAt(b)) = n + 1 /\ Max(StoredAt(b)) = n + Len(b.events)
    BY <1>2, <1>3, <2>1, FoundWhereStored
  <2>4. v.from = n + 1 /\ v.to = n + Len(b.events)
    BY <2>1, <2>3 DEF Stored, Answer
  <2>5. Answered(built, answers', accepted)
    <3>1. ASSUME NEW q \in Requests, NEW x \in answers[q]
          PROVE  /\ Made(built, q)
                 /\ \E i \in Nat : /\ StoredFrom(built[q], i, accepted)
                                  /\ x = <<i + 1, i + Len(built[q].events)>>
      BY <1>2 DEF Running, Answered
    <3>. HIDE DEF v
    <3>2. QED
      BY <1>6, <2>3, <2>4, <3>1, Zenon
  <2>6. s.goal <= s.goal
    BY <1>2 DEF Running, Sound, IsState, s
  <2>7. QED
    BY <1>2, <1>5, <2>1, <2>2, <2>5, <2>6 DEF Running, s
<1>10. CASE UNCHANGED core /\ v.status # "accepted"
  <2>1. /\ answers' = answers /\ accepted' = accepted /\ canonical' = canonical
        /\ manifest' = manifest /\ mode' = mode /\ now' = now /\ faults' = faults
    BY <1>1, <1>10 DEF core
  <2>2. CoreOK' /\ Running'
    <3>1. FactsOK'
      BY <1>2, <2>1 DEF Running, FactsOK
    <3>2. QED
      BY <1>1, <1>2, <2>1, <3>1 DEF CommandsInv, CoreOK, Running
  <2>3. QED
    BY <1>2, <1>4, <2>1, <2>2 DEF CommandsInv
<1>11. QED
  BY <1>1, <1>7, <1>8, <1>9, <1>10

\* What a resolution appends: it shows that the log still replays.
Decided(c, events) ==
  /\ c \in Reduce(accepted).conflicts /\ c.open /\ Commit(events)
  /\ Reducible(accepted \o events)
  /\ \E p, res : /\ Prelude(p) /\ events = Append(p, res)
                 /\ Decides(res, c, Len(accepted) + Len(p))

LEMMA ResolveCases ==
  ASSUME CommandsInv, NEW actor \in Resolvers, NEW action \in Actions, Resolve(actor, action)
  PROVE  /\ built' = built /\ tries' = tries /\ answers' = answers
         /\ Running /\ accepted # <<>> /\ IsSequence(accepted)
         /\ \E c, events : Decided(c, events)
<1>. DEFINE s == Reduce(accepted)
<1>1. /\ mode = "writable" /\ built' = built /\ tries' = tries /\ answers' = answers
  BY DEF Resolve
<1>2. Running /\ accepted # <<>> /\ IsSequence(accepted)
  BY <1>1 DEF CommandsInv, CoreOK, Before
<1>3. PICK c \in s.conflicts : /\ c.open
                               /\ \E events \in Resolutions(c, actor, action) : Commit(events)
  BY DEF Resolve
<1>4. PICK events \in Resolutions(c, actor, action) : Commit(events)
  BY <1>3
<1>5. /\ IsSequence(c.local)
      /\ \A k \in 1..Len(c.local) : IsEvent(c.local[k]) /\ Plain(c.local[k])
  <2>1. PICK j \in 1..Len(accepted) : About(c, accepted[j])
    BY <1>2, <1>3 DEF Running, Sound, ConflictsOpened
  <2>2. Opening(accepted[j], j, s, built)
    BY <1>2, <2>1 DEF Running, Sound, Openings, About
  <2>3. PICK r \in Requests : Made(built, r) /\ accepted[j].local = built[r].events
    BY <2>2 DEF Opening
  <2>4. BatchOf(built[r], r.name) /\ Ready(built[r], accepted, s)
    BY <1>2, <2>3 DEF Running, Kept, Sound
  <2>5. c.local = built[r].events
    BY <2>1, <2>3 DEF About
  <2>6. QED
    BY <2>4, <2>5 DEF BatchOf, Ready
<1>6. actor \in Actors
  BY RequestsAssumption
<1>7. /\ Reducible(accepted \o events)
      /\ \E p, res : /\ Prelude(p) /\ events = Append(p, res)
                     /\ Decides(res, c, Len(accepted) + Len(p))
  BY <1>2, <1>4, <1>5, <1>6, ResolutionShape, ZenonT(30)
<1>8. Decided(c, events)
  BY <1>3, <1>4, <1>7 DEF Decided
<1>9. QED
  BY <1>1, <1>2, <1>8

LEMMA ResolveKeeps ==
  ASSUME CommandsInv, NEW actor \in Resolvers, NEW action \in Actions, Resolve(actor, action)
  PROVE  CommandsInv' /\ Reducible(accepted')
<1>. DEFINE s == Reduce(accepted)
            m == Len(accepted)
<1>1. /\ built' = built /\ tries' = tries /\ answers' = answers
      /\ Running /\ accepted # <<>> /\ IsSequence(accepted)
  BY ResolveCases
<1>2. PICK c, events : Decided(c, events)
  BY ResolveCases
<1>3. c \in s.conflicts /\ Commit(events) /\ Reducible(accepted \o events)
  BY <1>2 DEF Decided
<1>4. PICK p, res : Prelude(p) /\ events = Append(p, res) /\ Decides(res, c, m + Len(p))
  BY <1>2 DEF Decided
<1>. DEFINE grown == accepted \o events
<1>5. IsSequence(events)
  BY <1>4, AppendSequence DEF Prelude
<1>6. Reduce(grown) = Replay(s, events)
  BY <1>1, <1>5, ReduceConcat
<1>7. Replay(s, Append(p, res)).ok
  BY <1>3, <1>4, <1>6 DEF Reducible
<1>. HIDE DEF s, m, grown
<1>8. /\ ServiceEvents(events, m) /\ Sound(grown, Replay(s, events), built)
      /\ s.goal <= Replay(s, events).goal
  BY <1>1, <1>3, <1>4, <1>7, SoundAfterDecision DEF Running, s, m, grown
<1>9. /\ Kept(grown, built)
      /\ \A r \in Requests : Made(built, r) => \A k \in 1..Len(events) : ~IsOf(events[k], built[r])
  BY <1>1, <1>8, KeptAfterService DEF Running, m, grown
<1>10. AnswersIn(Requests, grown)
  BY <1>1, <1>5, <1>9, AnsweredStays DEF grown
<1>11. Answered(built, answers', grown)
  BY <1>1, <1>10 DEF AnswersIn, Answered
<1>12. CoreOK' /\ accepted' # <<>> /\ accepted' = grown /\ Running'
  BY <1>1, <1>3, <1>5, <1>6, <1>8, <1>9, <1>11, CommitKeeps DEF grown, s
<1>13. CallersOK'
  BY <1>1 DEF CommandsInv, CallersOK
<1>14. QED
  BY <1>3, <1>12, <1>13 DEF CommandsInv, grown

LEMMA CommandsInvStep ==
  ASSUME CommandsInv, [Next]_vars
  PROVE  CommandsInv'
<1>1. CASE UNCHANGED vars
  BY <1>1 DEF CommandsInv, CoreOK, CallersOK, Before, Running, FactsOK, vars, core
<1>2. CASE Next
  <2>1. ASSUME NEW r \in Requests, Build(r) PROVE CommandsInv'
    BY <2>1, BuildKeeps
  <2>2. ASSUME NEW r \in Requests, Deliver(r) PROVE CommandsInv'
    BY <2>2, DeliverKeeps
  <2>3. ASSUME NEW actor \in Resolvers, NEW action \in Actions, Resolve(actor, action)
        PROVE  CommandsInv'
    BY <2>3, ResolveKeeps
  <2>4. ASSUME Service PROVE CommandsInv'
    BY <2>4, ServiceKeeps
  <2>5. QED
    BY <1>2, <2>1, <2>2, <2>3, <2>4 DEF Next
<1>3. QED
  BY <1>1, <1>2

(***************************************************************************)
(* In every reachable state the accepted log keeps the batches whole and   *)
(* each at one place, and the state it replays to is sound: its conflicts  *)
(* were opened by events of the log, and the batches they are about, open  *)
(* or decided, are not in it (service.go Push, ResolveConflict).           *)
(***************************************************************************)
THEOREM CommandsInvariance == Spec => []CommandsInv
<1>1. Init => CommandsInv
  BY Starts
<1>2. CommandsInv /\ [Next]_vars => CommandsInv'
  BY CommandsInvStep
<1>3. QED
  BY <1>1, <1>2, PTL DEF Spec

(***************************************************************************)
(* Types: a batch is built on a base the log has, by actors it knows, and  *)
(* it is delivered no more often than its caller may.                      *)
(***************************************************************************)
THEOREM CommandTypes == Spec => []TypeOK
<1>1. ASSUME CommandsInv PROVE TypeOK
  <2>1. /\ mode \in Modes /\ manifest \in Nat /\ now \in 0..MaxNow /\ faults \in 0..MaxFaults
        /\ \A r \in Requests : tries[r] \in 0..MaxTries
    BY <1>1 DEF CommandsInv, CoreOK, CallersOK
  <2>2. DOMAIN accepted = 1..Len(accepted)
    BY <1>1, SequenceDomain DEF CommandsInv, CoreOK
  <2>3. CASE accepted = <<>>
    <3>1. DOMAIN accepted = {} /\ \A r \in Requests : built[r] = None
      BY <1>1, <2>3 DEF CommandsInv, Before, Made
    <3>2. QED
      BY <2>1, <3>1 DEF TypeOK
  <2>4. CASE accepted # <<>>
    BY <1>1, <2>1, <2>2, <2>4 DEF CommandsInv, Running, Kept, Sound, Ready, Made, TypeOK
  <2>5. QED
    BY <2>3, <2>4
<1>2. QED
  BY <1>1, CommandsInvariance, PTL

(***************************************************************************)
(* A writable service has materialized everything it told a caller is      *)
(* accepted, and the manifest that goes with it; a read of the log that    *)
(* fails after an append leaves the facts behind, and the call without a   *)
(* reply (service.go materializeAcceptedLocked).                           *)
(***************************************************************************)
THEOREM FactsFollowTheLog == Spec => []Materialized
<1>1. ASSUME CommandsInv PROVE Materialized
  <2>1. CASE accepted = <<>>
    BY <1>1, <2>1 DEF CommandsInv, Before, Materialized
  <2>2. CASE accepted # <<>>
    BY <1>1, <2>2 DEF CommandsInv, Running, FactsOK, Told, Materialized
  <2>3. QED
    BY <2>1, <2>2
<1>2. QED
  BY <1>1, CommandsInvariance, PTL

(***************************************************************************)
(* Whatever stopped, the facts are a prefix of the log and the manifest is *)
(* not ahead of it, so New and Recover have nothing to refuse              *)
(* (bootstrapLocked, updateManifestGoalVersion).                           *)
(***************************************************************************)
THEOREM RepairIsPossible == Spec => []RestartCanRepair
<1>1. ASSUME CommandsInv PROVE RestartCanRepair
  <2>1. CASE accepted = <<>>
    <3>1. Facts = Seed /\ canonical = Seed /\ manifest = Reduce(Seed).goal
      BY <1>1, <2>1 DEF CommandsInv, Before, Facts
    <3>2. IsPrefix(Seed, Seed) /\ Reduce(Seed).goal <= Reduce(Seed).goal
      BY <1>1, <3>1, PrefixReflexive, SeedFacts DEF CommandsInv, CoreOK
    <3>3. QED
      BY <3>1, <3>2 DEF RestartCanRepair
  <2>2. CASE accepted # <<>>
    BY <1>1, <2>2 DEF CommandsInv, Running, FactsOK, Facts, RestartCanRepair
  <2>3. QED
    BY <2>1, <2>2
<1>2. QED
  BY <1>1, CommandsInvariance, PTL

(***************************************************************************)
(* However often a batch is delivered, and whatever crashed in between, no *)
(* event is in the accepted log twice (storedBatch).                       *)
(***************************************************************************)
THEOREM EventsAreAcceptedOnce == Spec => []AcceptedOnce
<1>1. ASSUME CommandsInv PROVE AcceptedOnce
  <2>1. DOMAIN accepted = 1..Len(accepted)
    BY <1>1, SequenceDomain DEF CommandsInv, CoreOK
  <2>2. CASE accepted = <<>>
    BY <2>2 DEF AcceptedOnce
  <2>3. CASE accepted # <<>>
    BY <1>1, <2>1, <2>3 DEF CommandsInv, Running, Kept, Distinct, AcceptedOnce
  <2>4. QED
    BY <2>2, <2>3
<1>2. QED
  BY <1>1, CommandsInvariance, PTL

(***************************************************************************)
(* Every answer a caller got names one range, the same each time, and the  *)
(* log holds exactly the caller's batch there (storedBatch,                *)
(* acceptedResult).                                                        *)
(***************************************************************************)
THEOREM AnswersAreStable == Spec => []RetryStable
<1>1. ASSUME CommandsInv, NEW r \in Requests, NEW x \in answers[r], NEW y \in answers[r]
      PROVE  x = y /\ SubSeq(accepted, x[1], x[2]) = built[r].events
  <2>. DEFINE b == built[r]
              l == Len(b.events)
  <2>1. accepted # <<>> /\ Running /\ IsSequence(accepted)
    BY <1>1 DEF CommandsInv, CoreOK, Before
  <2>2. Made(built, r)
    BY <2>1 DEF Running, Answered
  <2>3. /\ IsSequence(b.events) /\ b.events # <<>> /\ l \in Nat
    BY <2>1, <2>2, SequenceDomain DEF Running, Kept, BatchOf
  <2>4. 1 \in 1..l
    BY <2>3, EmptyIsSequence, SequenceEqual
  <2>5. PICK n \in Nat : StoredFrom(b, n, accepted) /\ x = <<n + 1, n + l>>
    BY <2>1 DEF Running, Answered
  <2>6. PICK i \in Nat : StoredFrom(b, i, accepted) /\ y = <<i + 1, i + l>>
    BY <2>1 DEF Running, Answered
  <2>. HIDE DEF b
  <2>7. Len(accepted) \in Nat /\ n + 1 \in 1..Len(accepted) /\ i + 1 \in 1..Len(accepted)
    BY <2>1, <2>3, <2>4, <2>5, <2>6, SequenceDomain DEF StoredFrom
  <2>8. IsOf(accepted[n + 1], b) /\ IsOf(accepted[i + 1], b)
    BY <2>4, <2>5, <2>6 DEF StoredFrom, IsOf
  <2>9. n + 1 \in i + 1..i + l /\ i + 1 \in n + 1..n + l
    BY <2>5, <2>6, <2>7, <2>8 DEF StoredFrom
  <2>10. n = i
    BY <2>3, <2>9
  <2>11. SubSeq(accepted, n + 1, n + l) = b.events
    BY <2>1, <2>3, <2>5, RangeOfStored
  <2>12. x[1] = n + 1 /\ x[2] = n + l
    BY <2>5
  <2>13. QED
    BY <2>5, <2>6, <2>10, <2>11, <2>12 DEF b
<1>2. CommandsInv => RetryStable
  BY <1>1 DEF RetryStable
<1>3. QED
  BY <1>2, CommandsInvariance, PTL

(***************************************************************************)
(* A batch has at most one open conflict, and none of it is accepted while *)
(* the conflict is open (conflictForBatch, Push).                          *)
(***************************************************************************)
THEOREM OneConflictIsOpen == Spec => []OneOpenConflict
<1>1. ASSUME CommandsInv PROVE OneOpenConflict
  <2>1. DOMAIN accepted = 1..Len(accepted)
    BY <1>1, SequenceDomain DEF CommandsInv, CoreOK
  <2>2. CASE accepted = <<>>
    <3>1. Reduce(accepted).conflicts = {}
      BY <2>2, ReplayEmpty DEF Reduce, Uninitialized
    <3>2. QED
      BY <3>1 DEF OneOpenConflict
  <2>3. CASE accepted # <<>>
    BY <1>1, <2>1, <2>3
       DEF CommandsInv, Running, Sound, OneOpen, OpenKeptOut, OneOpenConflict
  <2>4. QED
    BY <2>2, <2>3
<1>2. QED
  BY <1>1, CommandsInvariance, PTL

(***************************************************************************)
(* A batch about whose conflict a human decided is not accepted after all, *)
(* if it names a scope or the conflict was about a stale goal: these are   *)
(* the causes nothing takes away (ResolveConflict, DetectConflict).        *)
(***************************************************************************)
THEOREM DecisionsLast == Spec => []DecidedStaysDecided
<1>1. ASSUME CommandsInv PROVE DecidedStaysDecided
  <2>1. DOMAIN accepted = 1..Len(accepted)
    BY <1>1, SequenceDomain DEF CommandsInv, CoreOK
  <2>2. ASSUME NEW i \in 1..Len(accepted), NEW j \in 1..Len(accepted),
               accepted[i].type = "conflict.resolved", accepted[i].on = accepted[j].id,
               Scopes(accepted[j].local) # {} \/ accepted[j].code = "stale_goal"
        PROVE  \A k \in 1..Len(accepted) : accepted[k].batch # accepted[j].on
    <3>1. Running
      BY <1>1, <2>2, EmptyIsSequence DEF CommandsInv
    <3>2. PICK o \in 1..Len(accepted) : IsOpening(accepted[o]) /\ accepted[o].id = accepted[i].on
      BY <2>2, <3>1 DEF Running, Sound, DecisionsAbout, IsDecision
    <3>3. o = j
      BY <2>2, <3>1, <3>2 DEF Running, Kept, Distinct
    <3>4. accepted[j].scope = Scopes(accepted[j].local)
      BY <3>1, <3>2, <3>3 DEF Running, Sound, Openings, Opening
    <3>5. QED
      BY <2>2, <3>1, <3>2, <3>3, <3>4 DEF Running, Sound, ConflictKeptOut, Remembered
  <2>3. QED
    BY <2>1, <2>2 DEF DecidedStaysDecided
<1>2. QED
  BY <1>1, CommandsInvariance, PTL

\* A batch that is stored and breaks the log was built on a base that has moved.
LEMMA StoredBreaks ==
  ASSUME CommandsInv, NEW r \in Requests, Made(built, r), Stores(built[r]),
         Reducible(accepted), ~Reducible(accepted')
  PROVE  /\ accepted # <<>>
         /\ accepted'[Len(accepted) + 1].base < Len(accepted)
         /\ accepted'[Len(accepted) + 1].type # "conflict.resolved"
<1>. DEFINE b == built[r]
            new == b.events
            s == Reduce(accepted)
            m == Len(accepted)
<1>1. accepted # <<>> /\ Running /\ IsSequence(accepted) /\ m \in Nat
  BY SequenceDomain DEF CommandsInv, CoreOK, Before
<1>2. /\ Ready(b, accepted, s) /\ IsState(s)
      /\ IsSequence(new) /\ new # <<>> /\ Len(new) \in Nat
  BY <1>1, SequenceDomain DEF Running, Kept, Sound, BatchOf
<1>3. accepted' = accepted \o new /\ Pushes(b)
  BY DEF Stores, Commit
<1>4. s.ok /\ ~Replay(s, new).ok
  BY <1>1, <1>2, <1>3, ReduceConcat DEF Reducible
<1>5. b.base \in 1..m /\ \A i \in 1..Len(new) : Plain(new[i]) /\ new[i].base = b.base
  BY <1>2 DEF Ready
<1>6. b.base # m
  <2>1. SUFFICES ASSUME b.base = m PROVE FALSE
    OBVIOUS
  <2>2. SubSeq(accepted, 1, b.base) = accepted
    BY <1>1, <2>1, SubSeqFull DEF IsSequence
  <2>3. PreviewCode(s, new) = "valid"
    BY <1>3, <2>2 DEF Pushes
  <2>4. QED
    BY <1>2, <1>4, <1>5, <2>3, PreviewReplays
<1>7. 1 \in 1..Len(new)
  BY <1>2, EmptyIsSequence, SequenceEqual
<1>8. accepted'[m + 1] = new[1]
  <2>1. Len(accepted \o new) = m + Len(new)
        /\ \A i \in 1..m + Len(new) : (accepted \o new)[i] = IF i <= m THEN accepted[i] ELSE new[i - m]
    BY <1>1, <1>2, ConcatSequence
  <2>2. m + 1 \in 1..m + Len(new) /\ ~(m + 1 <= m) /\ (m + 1) - m = 1
    BY <1>1, <1>2, <1>7
  <2>3. QED
    BY <1>3, <2>1, <2>2
<1>9. new[1].base < m /\ new[1].type # "conflict.resolved"
  BY <1>1, <1>5, <1>6, <1>7 DEF Plain, ConflictTypes
<1>10. QED
  BY <1>1, <1>8, <1>9

\* The event that opens a conflict replays.
LEMMA OpenedReplays ==
  ASSUME CommandsInv, NEW r \in Requests, Made(built, r), Opens(built[r])
  PROVE  Reducible(accepted')
<1>. DEFINE b == built[r]
            s == Reduce(accepted)
            kind == DetectConflict(s, b)
            new == <<ConflictOpened(s, b, kind)>>
<1>1. accepted # <<>> /\ Running /\ IsSequence(accepted)
  BY DEF CommandsInv, CoreOK, Before
<1>2. BatchOf(b, r.name) /\ AtOnePlace(b, accepted)
  BY <1>1 DEF Running, Kept
<1>3. accepted' = accepted \o new /\ Pushes(b) /\ kind # "none"
  BY DEF Opens, Commit
<1>4. StoredAt(b) = {} /\ ~HasOpenConflict(s, b) /\ s.ok
  BY <1>3 DEF Pushes
<1>5. Absent(b, accepted)
  BY <1>1, <1>2, <1>4, FoundWhereStored DEF BatchOf
<1>. HIDE DEF b, s
<1>6. ServiceEvents(new, Len(accepted)) /\ Replay(s, new).ok
  BY <1>1, <1>3, <1>4, <1>5, SoundAfterOpening DEF Running, b, s
<1>. HIDE DEF new
<1>7. Reduce(accepted \o new) = Replay(s, new)
  BY <1>1, <1>6, ReduceConcat DEF s, ServiceEvents
<1>8. QED
  BY <1>3, <1>6, <1>7 DEF Reducible

(***************************************************************************)
(* The accepted log stops replaying only by a batch whose base was not the *)
(* head of the log any more: what is built on the head, a conflict that is *)
(* opened, a decision and a restart leave a log that replays (service.go   *)
(* Push previews a batch on its own base only).                            *)
(***************************************************************************)
THEOREM OnlyStaleBatchesBreak == Spec => OnlyMovedBaseBreaks
<1>. DEFINE Broken == /\ accepted # <<>>
                      /\ accepted'[Len(accepted) + 1].base < Len(accepted)
                      /\ accepted'[Len(accepted) + 1].type # "conflict.resolved"
<1>1. ASSUME CommandsInv, Next, Reducible(accepted), ~Reducible(accepted')
      PROVE  Broken
  <2>1. ASSUME NEW r \in Requests, Build(r) PROVE Broken
    BY <1>1, <2>1, BuildKeeps
  <2>2. ASSUME NEW r \in Requests, Deliver(r) PROVE Broken
    <3>1. /\ Made(built, r)
          /\ \/ Stores(built[r]) \/ Opens(built[r]) \/ Finds(built[r]) \/ UNCHANGED core
      BY <2>2, DeliveryCases
    <3>2. IsSequence(accepted)
      BY <1>1 DEF CommandsInv, CoreOK
    <3>3. CASE Stores(built[r])
      BY <1>1, <3>1, <3>3, StoredBreaks
    <3>4. CASE Opens(built[r])
      BY <1>1, <3>1, <3>4, OpenedReplays
    <3>5. CASE Finds(built[r])
      <4>1. accepted' = accepted
        BY <3>2, <3>5, ConcatEmptySeq DEF Finds, Commit, IsSequence
      <4>2. QED
        BY <1>1, <4>1
    <3>6. CASE UNCHANGED core
      BY <1>1, <3>6 DEF core
    <3>7. QED
      BY <3>1, <3>3, <3>4, <3>5, <3>6
  <2>3. ASSUME NEW actor \in Resolvers, NEW action \in Actions, Resolve(actor, action)
        PROVE  Broken
    BY <1>1, <2>3, ResolveKeeps
  <2>4. ASSUME Service PROVE Broken
    <3>1. accepted' = accepted \/ accepted' = Seed
      BY <1>1, <2>4, ServiceKeeps
    <3>2. QED
      BY <1>1, <3>1, SeedAssumption
  <2>5. QED
    BY <1>1, <2>1, <2>2, <2>3, <2>4 DEF Next
<1>2. ASSUME CommandsInv, [Next]_vars
      PROVE  [Reducible(accepted) /\ ~Reducible(accepted') => Broken]_vars
  BY <1>1, <1>2
<1>3. Spec => [][Reducible(accepted) /\ ~Reducible(accepted') => Broken]_vars
  BY <1>2, CommandsInvariance, PTL DEF Spec
<1>4. QED
  BY <1>3 DEF OnlyMovedBaseBreaks
-----------------------------------------------------------------------------
(***************************************************************************)
(* That the policy holds where an event lands.  Push asks it on the base   *)
(* of the batch; what may change the answer between base and head is       *)
(* either kept by the reducer (the runner and the goal of a task, the      *)
(* subject and scope of a lease) or looked at again by DetectConflict (the *)
(* goal, and that the lease is held).                                      *)
(***************************************************************************)
\* The records of a state, whatever they hold.
IsEntry(x) ==
  x = [status |-> x.status, subject |-> x.subject, task |-> x.task,
       scope |-> x.scope, until |-> x.until]

Form(s) ==
  /\ s = [ok |-> s.ok, ids |-> s.ids, goal |-> s.goal, change |-> s.change,
          lease |-> s.lease, task |-> s.task, conflicts |-> s.conflicts]
  /\ s.lease = [l \in Leases |-> s.lease[l]] /\ \A l \in Leases : IsEntry(s.lease[l])
  /\ s.task = [t \in Tasks |-> s.task[t]] /\ \A t \in Tasks : IsTask(s.task[t])

\* The lease x and the task t after an admitted event.
LeaseAfterEvent(x, e, own) ==
  CASE e.type = "goal.change.approved" ->
         IF x.status = "active" THEN [x EXCEPT !.status = "stale"] ELSE x
    [] own /\ e.type = "lease.issued" ->
         [status |-> "active", subject |-> e.subject, task |-> e.task,
          scope |-> e.scope, until |-> e.until]
    [] own /\ e.type = "lease.renewed"  -> [x EXCEPT !.until = e.until]
    [] own /\ e.type = "lease.released" -> [x EXCEPT !.status = "released"]
    [] own /\ e.type = "lease.revoked"  -> [x EXCEPT !.status = "revoked"]
    [] OTHER -> x

TaskAfterEvent(s, e, t) ==
  IF e.type \in DOMAIN TaskMove /\ e.on = t
  THEN [status |-> TaskMove[e.type][2],
        goal   |-> IF e.type = "requirement.planned" THEN s.goal ELSE s.task[t].goal,
        runner |-> IF e.type = "run.started" THEN e.actor ELSE s.task[t].runner]
  ELSE s.task[t]

\* The goal after it, and all of it together.
GoalAfterEvent(s, e) ==
  CASE e.type = "project.initialized"  -> 1
    [] e.type = "goal.change.approved" -> s.goal + 1
    [] OTHER -> s.goal

Effect(s, e, next) ==
  /\ Form(next) /\ next.ok = s.ok /\ next.goal = GoalAfterEvent(s, e)
  /\ \A l \in Leases : next.lease[l] = LeaseAfterEvent(s.lease[l], e, e.on = l)
  /\ \A t \in Tasks : next.task[t] = TaskAfterEvent(s, e, t)

\* What an admitted event requires of what it is about.
LEMMA AdmittedEvent ==
  ASSUME NEW s, NEW e, Admits(s, e)
  PROVE  /\ e.type \in {"project.initialized"} \cup GoalChanges \cup LeaseUpdates
                         \cup {"lease.issued"} \cup DOMAIN TaskMove \cup ConflictTypes
         /\ e.type = "project.initialized" => s.goal = 0
         /\ e.type # "project.initialized" => s.goal > 0 /\ e.goal = s.goal
         /\ e.type = "lease.issued" => s.lease[e.on].status = "none"
         /\ e.type \in LeaseUpdates => s.lease[e.on].status = "active"
         /\ e.type \in DOMAIN TaskMove => s.task[e.on].status \in TaskMove[e.type][1]
<1>1. CASE e.type = "project.initialized"
  BY <1>1 DEF Admits, LeaseUpdates, TaskMove
<1>2. CASE e.type # "project.initialized"
  <2>1. s.goal > 0 /\ e.goal = s.goal /\ AdmitsType(s, e)
    BY <1>2 DEF Admits
  <2>2. CASE e.type \in GoalChanges
    BY <1>2, <2>1, <2>2 DEF GoalChanges, LeaseUpdates, TaskMove
  <2>3. CASE e.type \in LeaseUpdates \cup {"lease.issued"}
    <3>1. /\ e.type \notin GoalChanges /\ e.type \notin DOMAIN TaskMove
          /\ "lease.issued" \notin LeaseUpdates
          /\ e.type \notin {"conflict.opened", "conflict.resolved"}
      BY <2>3 DEF GoalChanges, LeaseUpdates, TaskMove
    <3>2. AdmitsLease(s, e)
      BY <2>1, <2>3, <3>1 DEF AdmitsType
    <3>3. QED
      BY <1>2, <2>1, <2>3, <3>1, <3>2 DEF AdmitsLease
  <2>4. CASE e.type \in DOMAIN TaskMove
    <3>1. /\ e.type \notin GoalChanges /\ e.type \notin LeaseUpdates \cup {"lease.issued"}
          /\ e.type \notin {"conflict.opened", "conflict.resolved"}
      BY <2>4 DEF GoalChanges, LeaseUpdates, TaskMove
    <3>2. s.task[e.on].status \in TaskMove[e.type][1]
      BY <2>1, <2>4, <3>1 DEF AdmitsType
    <3>3. QED
      BY <1>2, <2>1, <2>4, <3>1, <3>2
  <2>5. CASE e.type \in ConflictTypes
    BY <1>2, <2>1, <2>5 DEF GoalChanges, LeaseUpdates, TaskMove, ConflictTypes
  <2>6. QED
    BY <2>1, <2>2, <2>3, <2>4, <2>5 DEF AdmitsType, ConflictTypes
<1>3. QED
  BY <1>1, <1>2

\* The state with these parts, of which a kind of event changes some.
LEMMA Parts ==
  ASSUME NEW s, Form(s), NEW ids, NEW goal, NEW change, NEW conflicts,
         NEW lease, lease = [l \in Leases |-> lease[l]], \A l \in Leases : IsEntry(lease[l]),
         NEW task, task = [t \in Tasks |-> task[t]], \A t \in Tasks : IsTask(task[t])
  PROVE  Form([ok |-> s.ok, ids |-> ids, goal |-> goal, change |-> change,
               lease |-> lease, task |-> task, conflicts |-> conflicts])
  BY DEF Form

\* The effect of each kind of event.
LEMMA EffectOfGoalChange ==
  ASSUME NEW s, Form(s), NEW e, e.type \in GoalChanges
  PROVE  Effect(s, e, ApplyGoalChange(s, e))
<1>. DEFINE next == ApplyGoalChange(s, e)
            goal == GoalAfterEvent(s, e)
            lease == [l \in Leases |-> LeaseAfterEvent(s.lease[l], e, e.on = l)]
            R(change) == [ok |-> s.ok, ids |-> s.ids, goal |-> goal, change |-> change,
                          lease |-> lease, task |-> s.task, conflicts |-> s.conflicts]
<1>1. /\ e.type # "project.initialized" /\ e.type \notin LeaseUpdates \cup {"lease.issued"}
      /\ e.type \notin DOMAIN TaskMove
  BY DEF GoalChanges, LeaseUpdates, TaskMove
<1>2. goal = IF e.type = "goal.change.approved" THEN s.goal + 1 ELSE s.goal
  BY <1>1 DEF GoalAfterEvent
<1>3. \A l \in Leases : LeaseAfterEvent(s.lease[l], e, e.on = l) =
        IF e.type = "goal.change.approved" /\ s.lease[l].status = "active"
        THEN [s.lease[l] EXCEPT !.status = "stale"] ELSE s.lease[l]
  BY <1>1 DEF LeaseAfterEvent, LeaseUpdates
<1>4. lease = IF e.type = "goal.change.approved" THEN MarkOlderBindingsStale(s.lease) ELSE s.lease
  BY <1>3 DEF MarkOlderBindingsStale, Form
<1>5. \A l \in Leases : IsEntry(lease[l]) /\ lease[l] = LeaseAfterEvent(s.lease[l], e, e.on = l)
  BY <1>3 DEF Form, IsEntry
<1>6. lease = [l \in Leases |-> lease[l]]
  OBVIOUS
<1>. HIDE DEF goal, lease
<1>7. \E change : next = R(change)
  <2>1. CASE e.type = "goal.change.proposed"
    <3>. DEFINE change == [s.change EXCEPT ![e.on] = [status |-> "proposed", base |-> s.goal]]
    <3>1. next = [s EXCEPT !.change = change]
      BY <2>1 DEF ApplyGoalChange
    <3>. HIDE DEF change
    <3>2. next = R(change)
      BY <1>2, <1>4, <2>1, <3>1 DEF Form
    <3>3. QED
      BY <3>2
  <2>2. CASE e.type = "goal.change.approved"
    <3>. DEFINE change == [s.change EXCEPT ![e.on].status = "approved"]
    <3>1. next = [s EXCEPT !.change = change, !.goal = goal, !.lease = lease]
      BY <1>2, <1>4, <2>2 DEF ApplyGoalChange
    <3>. HIDE DEF change
    <3>2. next = R(change)
      BY <3>1 DEF Form
    <3>3. QED
      BY <3>2
  <2>3. CASE e.type = "goal.change.rejected"
    <3>. DEFINE change == [s.change EXCEPT ![e.on].status = "rejected"]
    <3>1. next = [s EXCEPT !.change = change]
      BY <2>3 DEF ApplyGoalChange
    <3>. HIDE DEF change
    <3>2. next = R(change)
      BY <1>2, <1>4, <2>3, <3>1 DEF Form
    <3>3. QED
      BY <3>2
  <2>4. QED
    BY <2>1, <2>2, <2>3 DEF GoalChanges
<1>8. PICK change : next = R(change)
  BY <1>7
<1>9. Form(next)
  BY <1>5, <1>6, <1>8, Parts DEF Form
<1>10. /\ next.ok = s.ok /\ next.goal = goal /\ next.task = s.task /\ next.lease = lease
  BY <1>8
<1>11. \A t \in Tasks : next.task[t] = TaskAfterEvent(s, e, t)
  BY <1>1, <1>10 DEF TaskAfterEvent
<1>. HIDE DEF next
<1>12. QED
  BY <1>5, <1>9, <1>10, <1>11 DEF Effect, goal, next

LEMMA EffectOnLease ==
  ASSUME NEW s, Form(s), NEW e, e.type \in LeaseUpdates \cup {"lease.issued"}
  PROVE  Effect(s, e, IF e.type = "lease.issued" THEN IssueLease(s, e) ELSE UpdateLease(s, e))
<1>. DEFINE next == IF e.type = "lease.issued" THEN IssueLease(s, e) ELSE UpdateLease(s, e)
            new == LeaseAfterEvent(s.lease[e.on], e, TRUE)
            lease == [s.lease EXCEPT ![e.on] = new]
<1>1. /\ e.type # "project.initialized" /\ e.type # "goal.change.approved"
      /\ e.type \notin DOMAIN TaskMove
  BY DEF LeaseUpdates, TaskMove
<1>2. next = [s EXCEPT !.lease = lease]
  <2>1. CASE e.type = "lease.issued"
    BY <2>1 DEF IssueLease, LeaseAfterEvent
  <2>2. CASE e.type = "lease.renewed"
    BY <2>2 DEF UpdateLease, LeaseAfterEvent
  <2>3. CASE e.type = "lease.released"
    BY <2>3 DEF UpdateLease, LeaseAfterEvent
  <2>4. CASE e.type = "lease.revoked"
    BY <2>4 DEF UpdateLease, LeaseAfterEvent
  <2>5. QED
    BY <2>1, <2>2, <2>3, <2>4 DEF LeaseUpdates
<1>3. e.on \in Leases => IsEntry(new)
  BY <1>1 DEF LeaseAfterEvent, LeaseUpdates, Form, IsEntry
<1>4. \A l \in Leases : LeaseAfterEvent(s.lease[l], e, e.on = l) = IF e.on = l THEN new ELSE s.lease[l]
  <2>1. \A x : LeaseAfterEvent(x, e, FALSE) = x
    BY <1>1 DEF LeaseAfterEvent
  <2>2. TAKE l \in Leases
  <2>. HIDE DEF new
  <2>3. CASE e.on = l
    <3>1. (e.on = l) = TRUE
      BY <2>3
    <3>2. QED
      BY <2>3, <3>1 DEF new
  <2>4. CASE e.on # l
    <3>1. (e.on = l) = FALSE
      BY <2>4
    <3>2. QED
      BY <2>1, <2>4, <3>1
  <2>5. QED
    BY <2>3, <2>4
<1>. HIDE DEF new
<1>5. /\ lease = [l \in Leases |-> lease[l]]
      /\ \A l \in Leases : lease[l] = IF e.on = l THEN new ELSE s.lease[l]
  BY DEF Form
<1>. HIDE DEF lease
<1>6. \A l \in Leases : IsEntry(lease[l])
  BY <1>3, <1>5 DEF Form
<1>7. next = [ok |-> s.ok, ids |-> s.ids, goal |-> s.goal, change |-> s.change,
              lease |-> lease, task |-> s.task, conflicts |-> s.conflicts]
  BY <1>2 DEF Form
<1>. HIDE DEF next
<1>8. Form(next)
  BY <1>5, <1>6, <1>7, Parts DEF Form
<1>9. next.ok = s.ok /\ next.goal = GoalAfterEvent(s, e) /\ next.task = s.task /\ next.lease = lease
  BY <1>1, <1>7 DEF GoalAfterEvent
<1>10. \A t \in Tasks : next.task[t] = TaskAfterEvent(s, e, t)
  BY <1>1, <1>9 DEF TaskAfterEvent
<1>11. QED
  BY <1>4, <1>5, <1>8, <1>9, <1>10 DEF Effect, next

LEMMA EffectOnTask ==
  ASSUME NEW s, Form(s), NEW e, e.type \in DOMAIN TaskMove
  PROVE  Effect(s, e, MoveTask(s, e))
<1>. DEFINE next == MoveTask(s, e)
            old == s.task[e.on]
            new == [status |-> TaskMove[e.type][2],
                    goal   |-> IF e.type = "requirement.planned" THEN s.goal ELSE old.goal,
                    runner |-> IF e.type = "run.started" THEN e.actor ELSE old.runner]
            task == [s.task EXCEPT ![e.on] = new]
<1>1. /\ e.type # "project.initialized" /\ e.type # "goal.change.approved"
      /\ e.type \notin LeaseUpdates \cup {"lease.issued"}
  BY DEF LeaseUpdates, TaskMove
<1>2. next = [s EXCEPT !.task = task]
  BY DEF MoveTask
<1>3. IsTask(new)
  BY DEF IsTask
<1>4. \A t \in Tasks : TaskAfterEvent(s, e, t) = IF e.on = t THEN new ELSE s.task[t]
  BY DEF TaskAfterEvent
<1>. HIDE DEF new
<1>5. /\ task = [t \in Tasks |-> task[t]]
      /\ \A t \in Tasks : task[t] = IF e.on = t THEN new ELSE s.task[t]
  BY DEF Form
<1>. HIDE DEF task
<1>6. \A t \in Tasks : IsTask(task[t])
  BY <1>3, <1>5 DEF Form
<1>7. next = [ok |-> s.ok, ids |-> s.ids, goal |-> s.goal, change |-> s.change,
              lease |-> s.lease, task |-> task, conflicts |-> s.conflicts]
  BY <1>2 DEF Form
<1>. HIDE DEF next
<1>8. Form(next)
  BY <1>5, <1>6, <1>7, Parts DEF Form
<1>9. next.ok = s.ok /\ next.goal = GoalAfterEvent(s, e) /\ next.task = task /\ next.lease = s.lease
  BY <1>1, <1>7 DEF GoalAfterEvent
<1>10. \A l \in Leases : next.lease[l] = LeaseAfterEvent(s.lease[l], e, e.on = l)
  BY <1>1, <1>9 DEF LeaseAfterEvent, LeaseUpdates
<1>11. QED
  BY <1>4, <1>5, <1>8, <1>9, <1>10 DEF Effect, next

LEMMA EffectElsewhere ==
  ASSUME NEW s, Form(s), NEW e, e.type \in {"project.initialized"} \cup ConflictTypes
  PROVE  Effect(s, e, ApplyType(s, e))
<1>. DEFINE next == ApplyType(s, e)
<1>1. /\ e.type \notin LeaseUpdates \cup {"lease.issued"} /\ e.type \notin DOMAIN TaskMove
      /\ e.type \notin GoalChanges
  BY DEF LeaseUpdates, TaskMove, ConflictTypes, GoalChanges
<1>2. /\ GoalAfterEvent(s, e) = IF e.type = "project.initialized" THEN 1 ELSE s.goal
      /\ \A l \in Leases : LeaseAfterEvent(s.lease[l], e, e.on = l) = s.lease[l]
      /\ \A t \in Tasks : TaskAfterEvent(s, e, t) = s.task[t]
  BY <1>1 DEF GoalAfterEvent, LeaseAfterEvent, TaskAfterEvent, LeaseUpdates, GoalChanges
<1>3. \E goal, conflicts :
        /\ goal = IF e.type = "project.initialized" THEN 1 ELSE s.goal
        /\ next = [ok |-> s.ok, ids |-> s.ids, goal |-> goal, change |-> s.change,
                   lease |-> s.lease, task |-> s.task, conflicts |-> conflicts]
  <2>1. CASE e.type = "project.initialized"
    <3>. DEFINE goal == 1
    <3>1. next = [s EXCEPT !.goal = goal]
      BY <1>1, <2>1 DEF ApplyType
    <3>2. goal = IF e.type = "project.initialized" THEN 1 ELSE s.goal
      BY <2>1
    <3>. HIDE DEF goal, next
    <3>3. next = [ok |-> s.ok, ids |-> s.ids, goal |-> goal, change |-> s.change,
                  lease |-> s.lease, task |-> s.task, conflicts |-> s.conflicts]
      BY <3>1 DEF Form
    <3>4. QED
      BY <3>2, <3>3
  <2>2. CASE e.type = "conflict.opened"
    <3>. DEFINE conflicts == s.conflicts \cup
                  {[id |-> e.id, code |-> e.code, batch |-> e.on,
                    local |-> e.local, scope |-> e.scope, open |-> TRUE]}
    <3>1. next = OpenTheConflict(s, e) /\ e.type # "project.initialized"
      BY <1>1, <2>2 DEF ApplyType
    <3>2. next = [s EXCEPT !.conflicts = conflicts]
      BY <3>1 DEF OpenTheConflict
    <3>. HIDE DEF conflicts, next
    <3>3. next = [ok |-> s.ok, ids |-> s.ids, goal |-> s.goal, change |-> s.change,
                  lease |-> s.lease, task |-> s.task, conflicts |-> conflicts]
      BY <3>2 DEF Form
    <3>4. QED
      BY <3>1, <3>3
  <2>3. CASE e.type = "conflict.resolved"
    <3>. DEFINE conflicts ==
                  {IF c.id = e.on THEN [c EXCEPT !.open = FALSE] ELSE c : c \in s.conflicts}
    <3>1. next = ResolveTheConflict(s, e) /\ e.type # "project.initialized"
      BY <1>1, <2>3 DEF ApplyType
    <3>2. next = [s EXCEPT !.conflicts = conflicts]
      BY <3>1 DEF ResolveTheConflict
    <3>. HIDE DEF conflicts, next
    <3>3. next = [ok |-> s.ok, ids |-> s.ids, goal |-> s.goal, change |-> s.change,
                  lease |-> s.lease, task |-> s.task, conflicts |-> conflicts]
      BY <3>2 DEF Form
    <3>4. QED
      BY <3>1, <3>3
  <2>4. QED
    BY <2>1, <2>2, <2>3 DEF ConflictTypes
<1>. HIDE DEF next
<1>4. Form(next) /\ next.ok = s.ok /\ next.goal = GoalAfterEvent(s, e)
      /\ next.lease = s.lease /\ next.task = s.task
  <2>1. PICK goal, conflicts :
          /\ goal = IF e.type = "project.initialized" THEN 1 ELSE s.goal
          /\ next = [ok |-> s.ok, ids |-> s.ids, goal |-> goal, change |-> s.change,
                     lease |-> s.lease, task |-> s.task, conflicts |-> conflicts]
    BY <1>3
  <2>2. Form(next)
    BY <2>1, Parts DEF Form
  <2>3. QED
    BY <1>2, <2>1, <2>2
<1>5. QED
  BY <1>2, <1>4 DEF Effect, next

\* What an event does to the leases, tasks and goal: nothing unless it is admitted.
LEMMA EventEffect ==
  ASSUME NEW s, Form(s), NEW e
  PROVE  LET next == Apply(s, e) IN
         /\ s.ok /\ Admits(s, e) => Effect(s, e, next)
         /\ ~(s.ok /\ Admits(s, e)) =>
              /\ Form(next) /\ ~next.ok /\ next.goal = s.goal
              /\ next.lease = s.lease /\ next.task = s.task
<1>. DEFINE next == Apply(s, e)
<1>1. ASSUME s.ok, Admits(s, e) PROVE Effect(s, e, next)
  <2>. DEFINE mid == ApplyType(s, e)
              ids == mid.ids \cup {e.id}
  <2>1. Effect(s, e, mid)
    <3>1. e.type \in {"project.initialized"} \cup GoalChanges \cup LeaseUpdates
                     \cup {"lease.issued"} \cup DOMAIN TaskMove \cup ConflictTypes
      BY <1>1, AdmittedEvent
    <3>2. CASE e.type \in GoalChanges
      <4>1. mid = ApplyGoalChange(s, e)
        BY <3>2 DEF ApplyType, GoalChanges, LeaseUpdates, TaskMove
      <4>. HIDE DEF mid
      <4>2. QED
        BY <3>2, <4>1, EffectOfGoalChange
    <3>3. CASE e.type \in LeaseUpdates \cup {"lease.issued"}
      <4>1. mid = IF e.type = "lease.issued" THEN IssueLease(s, e) ELSE UpdateLease(s, e)
        BY <3>3 DEF ApplyType, GoalChanges, LeaseUpdates, TaskMove
      <4>. HIDE DEF mid
      <4>2. QED
        BY <3>3, <4>1, EffectOnLease
    <3>4. CASE e.type \in DOMAIN TaskMove
      <4>1. mid = MoveTask(s, e)
        BY <3>4 DEF ApplyType, GoalChanges, LeaseUpdates, TaskMove
      <4>. HIDE DEF mid
      <4>2. QED
        BY <3>4, <4>1, EffectOnTask
    <3>5. CASE e.type \in {"project.initialized"} \cup ConflictTypes
      BY <3>5, EffectElsewhere
    <3>6. QED
      BY <3>1, <3>2, <3>3, <3>4, <3>5
  <2>2. next = [mid EXCEPT !.ids = ids]
    BY <1>1 DEF Apply
  <2>. HIDE DEF mid, ids
  <2>3. next = [ok |-> mid.ok, ids |-> ids, goal |-> mid.goal, change |-> mid.change,
                lease |-> mid.lease, task |-> mid.task, conflicts |-> mid.conflicts]
    BY <2>1, <2>2 DEF Effect, Form
  <2>. HIDE DEF next
  <2>4. QED
    BY <2>1, <2>3 DEF Effect, Form
<1>2. ASSUME ~(s.ok /\ Admits(s, e))
      PROVE  /\ Form(next) /\ ~next.ok /\ next.goal = s.goal
             /\ next.lease = s.lease /\ next.task = s.task
  <2>. DEFINE no == FALSE
  <2>1. next = [ok |-> no, ids |-> s.ids, goal |-> s.goal, change |-> s.change,
                lease |-> s.lease, task |-> s.task, conflicts |-> s.conflicts]
    BY <1>2 DEF Apply, Form
  <2>2. ~no
    OBVIOUS
  <2>. HIDE DEF next, no
  <2>3. QED
    BY <2>1, <2>2 DEF Form
<1>3. QED
  BY <1>1, <1>2

\* A task that runs, or did: its runner no longer changes.
Begun(x) == x.status \in {"Running", "Verifying", "Verified", "Completed"}

\* What t says of the leases and tasks that s knows.
Knows(s, t) ==
  /\ \A l \in Leases : s.lease[l].status # "none" =>
       /\ t.lease[l].status # "none" /\ t.lease[l].subject = s.lease[l].subject
       /\ t.lease[l].task = s.lease[l].task /\ t.lease[l].scope = s.lease[l].scope
  /\ \A k \in Tasks :
       /\ s.task[k].status # "none" =>
            t.task[k].status # "none" /\ t.task[k].goal = s.task[k].goal
       /\ Begun(s.task[k]) => Begun(t.task[k]) /\ t.task[k].runner = s.task[k].runner

Later(s, t) == Form(t) /\ Knows(s, t) /\ (t.ok => s.ok)

\* The statuses a task moves through.
LEMMA Moves ==
  ASSUME NEW type \in DOMAIN TaskMove
  PROVE  /\ TaskMove[type][2] # "none"
         /\ TaskMove[type][2] \in {"Running", "Verifying", "Verified", "Completed"} <=>
              type \notin {"requirement.planned", "requirement.approved"}
         /\ \A from \in TaskMove[type][1] :
              /\ from = "none" <=> type = "requirement.planned"
              /\ from \in {"Running", "Verifying", "Verified", "Completed"} <=>
                   type \notin {"requirement.planned", "requirement.approved", "run.started"}
BY DEF TaskMove

\* An admitted event leaves what is known of leases and tasks.
LEMMA EffectKnows ==
  ASSUME NEW s, Form(s), NEW e, Admits(s, e), NEW t, Effect(s, e, t)
  PROVE  Knows(s, t)
<1>1. ASSUME NEW l \in Leases, s.lease[l].status # "none"
      PROVE  /\ t.lease[l].status # "none" /\ t.lease[l].subject = s.lease[l].subject
             /\ t.lease[l].task = s.lease[l].task /\ t.lease[l].scope = s.lease[l].scope
  <2>. DEFINE x == s.lease[l]
  <2>1. ~(e.on = l /\ e.type = "lease.issued")
    BY <1>1, AdmittedEvent
  <2>2. t.lease[l] = LeaseAfterEvent(x, e, e.on = l) /\ IsEntry(x)
    BY DEF Effect, Form
  <2>3. x.status # "none"
    BY <1>1
  <2>. HIDE DEF x
  <2>4. \/ t.lease[l] = x
        \/ \E status : status # "none" /\ t.lease[l] = [x EXCEPT !.status = status]
        \/ t.lease[l] = [x EXCEPT !.until = e.until]
    BY <2>1, <2>2 DEF LeaseAfterEvent
  <2>5. QED
    BY <2>2, <2>3, <2>4 DEF IsEntry, x
<1>2. ASSUME NEW k \in Tasks
      PROVE  /\ s.task[k].status # "none" =>
                  t.task[k].status # "none" /\ t.task[k].goal = s.task[k].goal
             /\ Begun(s.task[k]) => Begun(t.task[k]) /\ t.task[k].runner = s.task[k].runner
  <2>1. t.task[k] = TaskAfterEvent(s, e, k)
    BY DEF Effect
  <2>2. CASE ~(e.type \in DOMAIN TaskMove /\ e.on = k)
    BY <2>1, <2>2 DEF TaskAfterEvent
  <2>3. CASE e.type \in DOMAIN TaskMove /\ e.on = k
    <3>1. s.task[k].status \in TaskMove[e.type][1]
      BY <2>3, AdmittedEvent
    <3>2. /\ t.task[k].status = TaskMove[e.type][2]
          /\ e.type # "requirement.planned" => t.task[k].goal = s.task[k].goal
          /\ e.type # "run.started" => t.task[k].runner = s.task[k].runner
      BY <2>1, <2>3 DEF TaskAfterEvent
    <3>3. QED
      BY <2>3, <3>1, <3>2, Moves DEF Begun
  <2>4. QED
    BY <2>2, <2>3
<1>3. QED
  BY <1>1, <1>2 DEF Knows

\* What replaying a history leaves is later than what it started from.
LEMMA KnowsTransitive ==
  ASSUME NEW s, NEW t, NEW u, Knows(s, t), Knows(t, u)
  PROVE  Knows(s, u)
BY DEF Knows

LEMMA ApplyIsLater ==
  ASSUME NEW s, Form(s), NEW e
  PROVE  Later(s, Apply(s, e)) /\ (Apply(s, e).ok => s.ok /\ Admits(s, e))
<1>. DEFINE next == Apply(s, e)
<1>1. CASE s.ok /\ Admits(s, e)
  <2>1. Effect(s, e, next)
    BY <1>1, EventEffect
  <2>. HIDE DEF next
  <2>2. Knows(s, next)
    BY <1>1, <2>1, EffectKnows
  <2>3. Later(s, next)
    BY <1>1, <2>1, <2>2 DEF Later, Effect
  <2>4. QED
    BY <1>1, <2>3 DEF next
<1>2. CASE ~(s.ok /\ Admits(s, e))
  <2>1. Form(next) /\ ~next.ok /\ next.lease = s.lease /\ next.task = s.task
    BY <1>2, EventEffect
  <2>2. QED
    BY <2>1 DEF Later, Knows
<1>3. QED
  BY <1>1, <1>2

LEMMA RunIsLater ==
  ASSUME NEW f, NEW s, NEW h, NEW m \in Nat, Runs(f, s, h, m), Form(s)
  PROVE  \A n \in 0..m : Later(s, f[n])
<1>. DEFINE N == {n \in 0..m : Later(s, f[n])}
<1>1. 0 \in N
  BY DEF Runs, Later, Knows
<1>2. ASSUME NEW n \in 0..m - 1, n \in N PROVE n + 1 \in N
  <2>1. n + 1 \in 0..m /\ f[n + 1] = Apply(f[n], h[n + 1]) /\ Later(s, f[n])
    BY <1>2 DEF Runs
  <2>2. Later(f[n], f[n + 1])
    BY <2>1, ApplyIsLater DEF Later
  <2>3. Later(s, f[n + 1])
    BY <2>1, <2>2, KnowsTransitive DEF Later
  <2>4. QED
    BY <2>1, <2>3
<1>. HIDE DEF N
<1>3. \A n \in 0..m : n \in N
  BY <1>1, <1>2, UpTo
<1>4. QED
  BY <1>3 DEF N

LEMMA ReplayIsLater ==
  ASSUME NEW s, Form(s), NEW h, IsSequence(h)
  PROVE  Later(s, Replay(s, h))
<1>1. PICK f : Runs(f, s, h, Len(h)) /\ Replay(s, h) = f[Len(h)]
  BY ReplayRuns
<1>2. Len(h) \in Nat
  BY SequenceDomain
<1>3. QED
  BY <1>1, <1>2, RunIsLater

\* A state of its type has its form.
LEMMA StateHasForm ==
  ASSUME NEW s, IsState(s)
  PROVE  Form(s)
<1>1. \A l \in Leases : IsEntry(s.lease[l])
  BY DEF IsState, IsLease, IsEntry
<1>2. QED
  BY <1>1 DEF IsState, Form

\* Every event of a batch that is valid on a state is admitted and allowed where it is.
Allowed(p, h, m) ==
  \A n \in 0..m - 1 : /\ Authorize(p[n], h[n + 1], now) /\ h[n + 1].goal = p[n].goal
                      /\ Admits(p[n], h[n + 1])

LEMMA PreviewAllows ==
  ASSUME NEW s, NEW h, IsSequence(h), PreviewCode(s, h) = "valid"
  PROVE  \E p : Runs(p, s, h, Len(h)) /\ Allowed(p, h, Len(h))
<1>. DEFINE m == Len(h)
<1>1. m \in Nat
  BY SequenceDomain
<1>2. PICK f : PreviewRuns(f, s, h, m) /\ PreviewCode(s, h) = f[m].code
  BY PreviewIsRun
<1>. HIDE DEF m
<1>. DEFINE Rec(x) == x = [state |-> x.state, code |-> x.code]
            Going(x, e, y) ==
              /\ x.code = "valid" /\ Authorize(x.state, e, now) /\ e.goal = x.state.goal
              /\ Admits(x.state, e) /\ y.state = Apply(x.state, e)
<1>3. ASSUME NEW x, Rec(x), NEW e
      PROVE  /\ Rec(Preview(x, e))
             /\ Preview(x, e).code = "valid" => Going(x, e, Preview(x, e))
  <2>1. CASE x.code # "valid"
    BY <1>3, <2>1 DEF Preview
  <2>2. ASSUME NEW code, code # "valid", Preview(x, e) = [x EXCEPT !.code = code]
        PROVE  Rec(Preview(x, e)) /\ Preview(x, e).code # "valid"
    <3>1. Preview(x, e) = [state |-> x.state, code |-> code]
      BY <1>3, <2>2
    <3>2. QED
      BY <2>2, <3>1
  <2>3. CASE x.code = "valid" /\ ~(Authorize(x.state, e, now) /\ e.goal = x.state.goal
                                   /\ Admits(x.state, e))
    <3>1. \E code \in {"unauthorized", "invalid_goal", "invalid_transition"} :
            Preview(x, e) = [x EXCEPT !.code = code]
      BY <2>3 DEF Preview
    <3>2. QED
      BY <2>2, <3>1
  <2>4. CASE x.code = "valid" /\ Authorize(x.state, e, now) /\ e.goal = x.state.goal
             /\ Admits(x.state, e)
    <3>. DEFINE next == Apply(x.state, e)
    <3>1. Preview(x, e) = [x EXCEPT !.state = next]
      BY <2>4 DEF Preview
    <3>. HIDE DEF next
    <3>2. Preview(x, e) = [state |-> next, code |-> x.code]
      BY <1>3, <3>1
    <3>3. QED
      BY <2>4, <3>2 DEF next
  <2>5. QED
    BY <2>1, <2>3, <2>4
<1>. HIDE DEF Going
<1>. DEFINE N == {n \in 0..m : Rec(f[n])}
<1>4. 0 \in N
  BY <1>1, <1>2 DEF PreviewRuns
<1>5. ASSUME NEW n \in 0..m - 1, n \in N PROVE n + 1 \in N
  <2>1. f[n + 1] = Preview(f[n], h[n + 1]) /\ Rec(f[n]) /\ n + 1 \in 0..m
    BY <1>1, <1>2, <1>5 DEF PreviewRuns
  <2>. HIDE DEF Rec
  <2>2. QED
    BY <1>3, <2>1
<1>. HIDE DEF N, Rec
<1>6. \A n \in 0..m : Rec(f[n])
  <2>1. \A n \in 0..m : n \in N
    BY <1>1, <1>4, <1>5, UpTo
  <2>2. QED
    BY <2>1 DEF N
<1>7. \A n \in 0..m - 1 : f[n + 1].code = "valid" => Going(f[n], h[n + 1], f[n + 1])
  <2>1. TAKE n \in 0..m - 1
  <2>2. f[n + 1] = Preview(f[n], h[n + 1]) /\ n \in 0..m
    BY <1>1, <1>2 DEF PreviewRuns
  <2>3. QED
    BY <1>3, <1>6, <2>2
<1>. DEFINE B == {n \in 0..m : f[m - n].code = "valid"}
<1>8. \A n \in 0..m : f[n].code = "valid"
  <2>1. 0 \in B
    <3>1. m - 0 = m /\ 0 \in 0..m
      BY <1>1
    <3>2. QED
      BY <1>2, <3>1
  <2>2. ASSUME NEW n \in 0..m - 1, n \in B PROVE n + 1 \in B
    <3>1. n + 1 \in 0..m /\ m - (n + 1) \in 0..m - 1 /\ (m - (n + 1)) + 1 = m - n
      BY <1>1
    <3>2. f[m - (n + 1)].code = "valid"
      BY <1>7, <2>2, <3>1 DEF Going
    <3>3. QED
      BY <3>1, <3>2
  <2>. HIDE DEF B
  <2>3. \A n \in 0..m : n \in B
    BY <1>1, <2>1, <2>2, UpTo
  <2>4. ASSUME NEW n \in 0..m PROVE f[n].code = "valid"
    <3>1. m - n \in 0..m /\ m - (m - n) = n
      BY <1>1
    <3>2. QED
      BY <2>3, <3>1 DEF B
  <2>5. QED
    BY <2>4
<1>. DEFINE p == [n \in 0..m |-> f[n].state]
<1>9. \A n \in 0..m - 1 : n \in 0..m /\ n + 1 \in 0..m
  BY <1>1
<1>10. \A n \in 0..m - 1 : Going(f[n], h[n + 1], f[n + 1])
  BY <1>7, <1>8, <1>9
<1>11. p[0] = s
  BY <1>1, <1>2 DEF PreviewRuns
<1>12. \A n \in 0..m - 1 : p[n] = f[n].state /\ p[n + 1] = f[n + 1].state
  BY <1>9
<1>. HIDE DEF p
<1>13. Runs(p, s, h, m) /\ Allowed(p, h, m)
  BY <1>10, <1>11, <1>12 DEF Runs, Allowed, Going
<1>14. QED
  BY <1>13 DEF m

(***************************************************************************)
(* A batch is previewed on its base and lands on the head.  p and h are the*)
(* states that the same events of it leave on the one and on the other.  l *)
(* is the lease an event acts under: DetectConflict has found it held at   *)
(* the head, and what the batch does to it, it does in both.               *)
(***************************************************************************)
Usable(p, h, l) ==
  l \in Leases \ {None} /\ p.lease[l].status = "active" =>
    /\ h.lease[l].status = "active"
    /\ h.lease[l].until = p.lease[l].until \/ InWindow(h.lease[l], now)

Alike(p, h, l) ==
  Form(p) /\ Form(h) /\ p.ok /\ h.ok /\ p.goal = h.goal /\ Knows(p, h) /\ Usable(p, h, l)

\* What the leases are in both after the same event, then what the tasks are.
LEMMA SameLease ==
  ASSUME NEW p, NEW h, NEW l, Alike(p, h, l), NEW e, Admits(p, e), Admits(h, e),
         e.type # "goal.change.approved",
         NEW q, Effect(p, e, q), NEW g, Effect(h, e, g)
  PROVE  /\ Usable(q, g, l)
         /\ \A k \in Leases : q.lease[k].status # "none" =>
              /\ g.lease[k].status # "none" /\ g.lease[k].subject = q.lease[k].subject
              /\ g.lease[k].task = q.lease[k].task /\ g.lease[k].scope = q.lease[k].scope
<1>1. ASSUME NEW k \in Leases
      PROVE  \/ q.lease[k] = p.lease[k] /\ g.lease[k] = h.lease[k]
             \/ /\ q.lease[k] = g.lease[k] /\ q.lease[k].status = "active"
             \/ \E status : /\ status # "none" /\ status # "active"
                            /\ q.lease[k] = [p.lease[k] EXCEPT !.status = status]
                            /\ g.lease[k] = [h.lease[k] EXCEPT !.status = status]
                            /\ p.lease[k].status = "active"
             \/ /\ q.lease[k] = [p.lease[k] EXCEPT !.until = e.until]
                /\ g.lease[k] = [h.lease[k] EXCEPT !.until = e.until]
  <2>. DEFINE x == p.lease[k]
              y == h.lease[k]
  <2>1. /\ q.lease[k] = LeaseAfterEvent(x, e, e.on = k)
        /\ g.lease[k] = LeaseAfterEvent(y, e, e.on = k)
    BY DEF Effect
  <2>2. e.on = k /\ e.type \in {"lease.released", "lease.revoked"} => x.status = "active"
    BY AdmittedEvent DEF LeaseUpdates
  <2>. HIDE DEF x, y
  <2>3. CASE e.on = k /\ e.type = "lease.issued"
    BY <2>1, <2>3 DEF LeaseAfterEvent
  <2>4. CASE e.on = k /\ e.type = "lease.renewed"
    BY <2>1, <2>4 DEF LeaseAfterEvent, x, y
  <2>5. CASE e.on = k /\ e.type = "lease.released"
    <3>. DEFINE status == "released"
    <3>1. q.lease[k] = [x EXCEPT !.status = status] /\ g.lease[k] = [y EXCEPT !.status = status]
      BY <2>1, <2>5 DEF LeaseAfterEvent
    <3>2. status # "none" /\ status # "active"
      OBVIOUS
    <3>. HIDE DEF status
    <3>3. QED
      BY <2>2, <2>5, <3>1, <3>2 DEF x, y
  <2>6. CASE e.on = k /\ e.type = "lease.revoked"
    <3>. DEFINE status == "revoked"
    <3>1. q.lease[k] = [x EXCEPT !.status = status] /\ g.lease[k] = [y EXCEPT !.status = status]
      BY <2>1, <2>6 DEF LeaseAfterEvent
    <3>2. status # "none" /\ status # "active"
      OBVIOUS
    <3>. HIDE DEF status
    <3>3. QED
      BY <2>2, <2>6, <3>1, <3>2 DEF x, y
  <2>7. CASE ~(e.on = k /\ e.type \in LeaseUpdates \cup {"lease.issued"})
    <3>1. q.lease[k] = x /\ g.lease[k] = y
      BY <2>1, <2>7 DEF LeaseAfterEvent, LeaseUpdates
    <3>2. QED
      BY <3>1 DEF x, y
  <2>8. QED
    BY <2>3, <2>4, <2>5, <2>6, <2>7 DEF LeaseUpdates
<1>2. \A k \in Leases : IsEntry(p.lease[k]) /\ IsEntry(h.lease[k])
  BY DEF Alike, Form
<1>3. ASSUME NEW k \in Leases, q.lease[k].status # "none"
      PROVE  /\ g.lease[k].status # "none" /\ g.lease[k].subject = q.lease[k].subject
             /\ g.lease[k].task = q.lease[k].task /\ g.lease[k].scope = q.lease[k].scope
  <2>. DEFINE x == p.lease[k]
              y == h.lease[k]
  <2>1. x.status # "none" => /\ y.status # "none" /\ y.subject = x.subject
                             /\ y.task = x.task /\ y.scope = x.scope
    BY DEF Alike, Knows
  <2>2. IsEntry(x) /\ IsEntry(y)
    BY <1>2
  <2>3. \/ q.lease[k] = x /\ g.lease[k] = y
        \/ q.lease[k] = g.lease[k]
        \/ \E status : /\ status # "none" /\ x.status = "active"
                       /\ q.lease[k] = [x EXCEPT !.status = status]
                       /\ g.lease[k] = [y EXCEPT !.status = status]
        \/ /\ q.lease[k] = [x EXCEPT !.until = e.until]
           /\ g.lease[k] = [y EXCEPT !.until = e.until]
    BY <1>1
  <2>. HIDE DEF x, y
  <2>4. QED
    BY <1>3, <2>1, <2>2, <2>3 DEF IsEntry
<1>4. ASSUME l \in Leases \ {None}, q.lease[l].status = "active"
      PROVE  /\ g.lease[l].status = "active"
             /\ g.lease[l].until = q.lease[l].until \/ InWindow(g.lease[l], now)
  <2>. DEFINE x == p.lease[l]
              y == h.lease[l]
  <2>1. x.status = "active" => y.status = "active" /\ (y.until = x.until \/ InWindow(y, now))
    BY <1>4 DEF Alike, Usable
  <2>2. IsEntry(x) /\ IsEntry(y)
    BY <1>2, <1>4
  <2>3. \/ q.lease[l] = x /\ g.lease[l] = y
        \/ q.lease[l] = g.lease[l]
        \/ \E status : /\ status # "active"
                       /\ q.lease[l] = [x EXCEPT !.status = status]
        \/ /\ q.lease[l] = [x EXCEPT !.until = e.until]
           /\ g.lease[l] = [y EXCEPT !.until = e.until]
    BY <1>1, <1>4
  <2>. HIDE DEF x, y
  <2>4. QED
    BY <1>4, <2>1, <2>2, <2>3 DEF IsEntry
<1>5. QED
  BY <1>3, <1>4 DEF Usable

LEMMA SameTask ==
  ASSUME NEW p, NEW h, NEW l, Alike(p, h, l), NEW e, Admits(p, e), Admits(h, e),
         NEW q, Effect(p, e, q), NEW g, Effect(h, e, g), NEW k \in Tasks
  PROVE  /\ q.task[k].status # "none" =>
              g.task[k].status # "none" /\ g.task[k].goal = q.task[k].goal
         /\ Begun(q.task[k]) => Begun(g.task[k]) /\ g.task[k].runner = q.task[k].runner
<1>1. /\ p.task[k].status # "none" =>
           h.task[k].status # "none" /\ h.task[k].goal = p.task[k].goal
      /\ Begun(p.task[k]) => Begun(h.task[k]) /\ h.task[k].runner = p.task[k].runner
      /\ p.goal = h.goal
  BY DEF Alike, Knows
<1>2. q.task[k] = TaskAfterEvent(p, e, k) /\ g.task[k] = TaskAfterEvent(h, e, k)
  BY DEF Effect
<1>3. CASE ~(e.type \in DOMAIN TaskMove /\ e.on = k)
  BY <1>1, <1>2, <1>3 DEF TaskAfterEvent
<1>4. CASE e.type \in DOMAIN TaskMove /\ e.on = k
  <2>1. p.task[k].status \in TaskMove[e.type][1] /\ h.task[k].status \in TaskMove[e.type][1]
    BY <1>4, AdmittedEvent
  <2>2. /\ q.task[k].status = TaskMove[e.type][2] /\ g.task[k].status = TaskMove[e.type][2]
        /\ IF e.type = "requirement.planned"
           THEN q.task[k].goal = p.goal /\ g.task[k].goal = h.goal
           ELSE q.task[k].goal = p.task[k].goal /\ g.task[k].goal = h.task[k].goal
        /\ IF e.type = "run.started"
           THEN q.task[k].runner = e.actor /\ g.task[k].runner = e.actor
           ELSE q.task[k].runner = p.task[k].runner /\ g.task[k].runner = h.task[k].runner
    BY <1>2, <1>4 DEF TaskAfterEvent
  <2>3. QED
    BY <1>1, <1>4, <2>1, <2>2, Moves DEF Begun
<1>5. QED
  BY <1>3, <1>4

\* Two states that are alike are so after an event both admit.
LEMMA AlikeStays ==
  ASSUME NEW p, NEW h, NEW l, Alike(p, h, l), NEW e, Admits(p, e), Admits(h, e),
         e.type # "goal.change.approved"
  PROVE  Alike(Apply(p, e), Apply(h, e), l)
<1>. DEFINE q == Apply(p, e)
            g == Apply(h, e)
<1>1. Form(p) /\ Form(h) /\ p.ok /\ h.ok /\ p.goal = h.goal
  BY DEF Alike
<1>2. Effect(p, e, q) /\ Effect(h, e, g)
  BY <1>1, EventEffect
<1>. HIDE DEF q, g
<1>3. Form(q) /\ Form(g) /\ q.ok /\ g.ok /\ q.goal = g.goal
  BY <1>1, <1>2 DEF Effect, GoalAfterEvent
<1>4. Usable(q, g, l) /\ Knows(q, g)
  BY <1>2, SameLease, SameTask DEF Knows
<1>5. QED
  BY <1>3, <1>4 DEF Alike, q, g

\* What an event of a request names.
Named(e) ==
  e.lease \in Leases \cup {None} /\ (e.type \in DOMAIN TaskMove => e.on \in Tasks)

\* A current task is current at the head too.
LEMMA TaskIsCurrent ==
  ASSUME NEW p, NEW h, NEW l, Alike(p, h, l), NEW t \in Tasks \cup {None}, CurrentTask(p, t)
  PROVE  CurrentTask(h, t)
BY DEF Alike, Knows, CurrentTask

\* What was allowed at the base is allowed at the head.
LEMMA AuthorityCarries ==
  ASSUME NEW e, Plain(e), Named(e), NEW p, NEW h, Alike(p, h, e.lease),
         Admits(p, e), Authorize(p, e, now)
  PROVE  Authorize(h, e, now)
<1>. DEFINE role == RoleOf[e.actor]
            leased(s) == role \in {"agent", "contributor"} => AssignedLease(s, e, now)
<1>1. AssignedLease(p, e, now) => AssignedLease(h, e, now)
  <2>1. SUFFICES ASSUME AssignedLease(p, e, now) PROVE AssignedLease(h, e, now)
    OBVIOUS
  <2>. DEFINE x == p.lease[e.lease]
              y == h.lease[e.lease]
  <2>2. /\ e.lease # None /\ x.status = "active" /\ x.subject = e.actor /\ InWindow(x, now)
        /\ CurrentTask(p, x.task) /\ e.task = x.task /\ e.scope # {} /\ e.scope \subseteq x.scope
    BY <2>1 DEF AssignedLease
  <2>3. e.lease \in Leases /\ x.status # "none"
    BY <2>2 DEF Named
  <2>4. y.subject = x.subject /\ y.task = x.task /\ y.scope = x.scope
    BY <2>3 DEF Alike, Knows
  <2>5. y.status = "active" /\ InWindow(y, now)
    BY <2>2, <2>3 DEF Alike, Usable, InWindow
  <2>6. CurrentTask(h, y.task)
    BY <2>2, <2>4, TaskIsCurrent DEF Plain
  <2>7. QED
    BY <2>2, <2>4, <2>5, <2>6 DEF AssignedLease
<1>2. leased(p) => leased(h)
  BY <1>1
<1>3. CurrentTask(p, e.task) => CurrentTask(h, e.task)
  BY TaskIsCurrent DEF Plain
<1>4. MayIssueLease(p, e) => MayIssueLease(h, e)
  BY <1>3 DEF MayIssueLease
<1>5. e.type = "evidence.verified" => h.task[e.on].runner = p.task[e.on].runner
  <2>1. SUFFICES ASSUME e.type = "evidence.verified"
                 PROVE  h.task[e.on].runner = p.task[e.on].runner
    OBVIOUS
  <2>2. e.type \in DOMAIN TaskMove /\ TaskMove[e.type][1] = {"Verifying"}
    BY <2>1 DEF TaskMove
  <2>3. e.on \in Tasks /\ p.task[e.on].status = "Verifying"
    BY <2>2, AdmittedEvent DEF Named
  <2>4. QED
    BY <2>3 DEF Alike, Knows, Begun
<1>6. e.type # "conflict.resolved"
  BY DEF Plain, ConflictTypes
<1>. HIDE DEF leased
<1>7. Authorize(p, e, now) <=>
        CASE e.type \in {"goal.change.approved", "goal.change.rejected"} -> role = "owner"
          [] e.type \in {"requirement.approved", "task.completed"} ->
               role \in {"owner", "lead", "reviewer"}
          [] e.type = "evidence.verified" -> e.actor # p.task[e.on].runner /\ leased(p)
          [] e.type = "lease.issued" -> MayIssueLease(p, e)
          [] e.type = "lease.revoked" -> role \in {"owner", "lead"}
          [] e.type \in {"lease.renewed", "lease.released"} ->
               role \in {"owner", "lead"} \/ leased(p)
          [] OTHER -> leased(p)
  BY <1>6 DEF Authorize, leased
<1>8. Authorize(h, e, now) <=>
        CASE e.type \in {"goal.change.approved", "goal.change.rejected"} -> role = "owner"
          [] e.type \in {"requirement.approved", "task.completed"} ->
               role \in {"owner", "lead", "reviewer"}
          [] e.type = "evidence.verified" -> e.actor # h.task[e.on].runner /\ leased(h)
          [] e.type = "lease.issued" -> MayIssueLease(h, e)
          [] e.type = "lease.revoked" -> role \in {"owner", "lead"}
          [] e.type \in {"lease.renewed", "lease.released"} ->
               role \in {"owner", "lead"} \/ leased(h)
          [] OTHER -> leased(h)
  BY <1>6 DEF Authorize, leased
<1>9. QED
  BY <1>2, <1>4, <1>5, <1>7, <1>8

NamedIn(made) ==
  \A r \in Requests : Made(made, r) => \A k \in 1..Len(made[r].events) : Named(made[r].events[k])

\* The first events of a log that a batch was appended to.
LEMMA FirstOfAppended ==
  ASSUME NEW log, NEW new, IsSequence(log), IsSequence(new), NEW j \in 0..Len(new)
  PROVE  SubSeq(log \o new, 1, Len(log) + j) = log \o SubSeq(new, 1, j)
<1>. DEFINE m == Len(log)
            n == Len(new)
            s == SubSeq(log \o new, 1, m + j)
            t == log \o SubSeq(new, 1, j)
<1>1. m \in Nat /\ n \in Nat /\ j \in Nat /\ j <= n /\ m + j \in Nat
  BY SequenceDomain
<1>2. /\ IsSequence(log \o new) /\ Len(log \o new) = m + n
      /\ \A i \in 1..m + n : (log \o new)[i] = IF i <= m THEN log[i] ELSE new[i - m]
  BY ConcatSequence
<1>3. /\ IsSequence(SubSeq(new, 1, j)) /\ Len(SubSeq(new, 1, j)) = j
      /\ \A i \in 1..j : SubSeq(new, 1, j)[i] = new[i]
  <2>1. /\ IsSequence(SubSeq(new, 1, j))
        /\ Len(SubSeq(new, 1, j)) = IF 1 <= j THEN j - 1 + 1 ELSE 0
        /\ \A i \in 1..(j - 1 + 1) : SubSeq(new, 1, j)[i] = new[1 + i - 1]
    BY <1>1, SubSequence
  <2>2. \A i \in 1..j : 1 + i - 1 = i
    BY <1>1
  <2>3. j - 1 + 1 = j /\ (~(1 <= j) => j = 0)
    BY <1>1
  <2>4. QED
    BY <2>1, <2>2, <2>3
<1>4. /\ IsSequence(s) /\ Len(s) = m + j
      /\ \A i \in 1..m + j : s[i] = (log \o new)[i]
  <2>. DEFINE whole == log \o new
              l == m + j
  <2>1. IsSequence(whole) /\ l \in Nat /\ l <= Len(whole)
    BY <1>1, <1>2
  <2>. HIDE DEF whole, l
  <2>2. /\ IsSequence(SubSeq(whole, 1, l))
        /\ Len(SubSeq(whole, 1, l)) = IF 1 <= l THEN l - 1 + 1 ELSE 0
        /\ \A i \in 1..(l - 1 + 1) : SubSeq(whole, 1, l)[i] = whole[1 + i - 1]
    BY <2>1, SubSequence
  <2>. USE DEF whole, l
  <2>3. \A i \in 1..m + j : 1 + i - 1 = i
    BY <1>1
  <2>4. (m + j) - 1 + 1 = m + j /\ (~(1 <= m + j) => m + j = 0)
    BY <1>1
  <2>5. QED
    BY <2>2, <2>3, <2>4
<1>5. /\ IsSequence(t) /\ Len(t) = m + j
      /\ \A i \in 1..m + j : t[i] = IF i <= m THEN log[i] ELSE SubSeq(new, 1, j)[i - m]
  BY <1>3, ConcatSequence
<1>. HIDE DEF s, t, m, n
<1>6. ASSUME NEW i \in 1..m + j PROVE s[i] = t[i]
  <2>1. i \in 1..m + n /\ (~(i <= m) => i - m \in 1..j)
    BY <1>1
  <2>2. QED
    BY <1>2, <1>3, <1>4, <1>5, <2>1
<1>7. s = t
  BY <1>4, <1>5, <1>6, SequenceEqual
<1>8. QED
  BY <1>7 DEF s, t, m

\* The head is later than the base, whatever was accepted in between.
LEMMA HeadIsLater ==
  ASSUME NEW log, IsSequence(log), NEW n \in 1..Len(log)
  PROVE  LET base == Reduce(SubSeq(log, 1, n))
         IN  IsSequence(SubSeq(log, 1, n)) /\ Form(base) /\ Later(base, Reduce(log))
<1>. DEFINE m == Len(log)
            h == SubSeq(log, 1, n)
            t == SubSeq(log, n + 1, m)
<1>1. m \in Nat /\ n \in Nat \ {0} /\ n <= m
  BY SequenceDomain
<1>2. /\ IsSequence(h) /\ Len(h) = n /\ \A i \in 1..n : h[i] = log[i]
  <2>1. /\ IsSequence(h) /\ Len(h) = IF 1 <= n THEN n - 1 + 1 ELSE 0
        /\ \A i \in 1..(n - 1 + 1) : h[i] = log[1 + i - 1]
    BY <1>1, SubSequence
  <2>2. n - 1 + 1 = n /\ 1 <= n /\ \A i \in 1..n : 1 + i - 1 = i
    BY <1>1
  <2>3. QED
    BY <2>1, <2>2
<1>3. /\ IsSequence(t) /\ Len(t) = m - n /\ \A i \in 1..m - n : t[i] = log[n + i]
  <2>1. /\ IsSequence(t) /\ Len(t) = IF n + 1 <= m THEN m - (n + 1) + 1 ELSE 0
        /\ \A i \in 1..(m - (n + 1) + 1) : t[i] = log[(n + 1) + i - 1]
    BY <1>1, SubSequence
  <2>2. /\ m - (n + 1) + 1 = m - n /\ (~(n + 1 <= m) => m - n = 0)
        /\ \A i \in 1..m - n : (n + 1) + i - 1 = n + i
    BY <1>1
  <2>3. QED
    BY <2>1, <2>2
<1>. HIDE DEF h, t, m
<1>4. log = h \o t
  <2>1. /\ IsSequence(h \o t) /\ Len(h \o t) = n + (m - n)
        /\ \A i \in 1..n + (m - n) : (h \o t)[i] = IF i <= n THEN h[i] ELSE t[i - n]
    <3>1. /\ IsSequence(h \o t) /\ Len(h \o t) = Len(h) + Len(t)
          /\ \A i \in 1..(Len(h) + Len(t)) :
               (h \o t)[i] = IF i <= Len(h) THEN h[i] ELSE t[i - Len(h)]
      BY <1>2, <1>3, ConcatSequence
    <3>2. QED
      BY <1>2, <1>3, <3>1
  <2>2. n + (m - n) = m /\ \A i \in 1..m : ~(i <= n) => i - n \in 1..m - n /\ n + (i - n) = i
    BY <1>1
  <2>3. \A i \in 1..m : i <= n => i \in 1..n
    BY <1>1
  <2>4. \A i \in 1..m : log[i] = (h \o t)[i]
    BY <1>2, <1>3, <2>1, <2>2, <2>3
  <2>5. QED
    BY <2>1, <2>2, <2>4, SequenceEqual DEF m
<1>5. Form(Reduce(h))
  BY <1>2, InitialState, StateHasForm, ReplayIsLater DEF Reduce, Later
<1>6. Reduce(log) = Replay(Reduce(h), t)
  BY <1>2, <1>3, <1>4, ReduceConcat
<1>7. Later(Reduce(h), Reduce(log))
  BY <1>3, <1>5, <1>6, ReplayIsLater
<1>8. QED
  BY <1>2, <1>5, <1>7 DEF h

\* What a batch without a conflict has in common with the head.
LEMMA NoConflictMeans ==
  ASSUME NEW s, NEW b, IsSequence(b.events), DetectConflict(s, b) = "none"
  PROVE  \A k \in 1..Len(b.events) :
           /\ b.events[k].goal = s.goal
           /\ b.events[k].lease # None => HoldsLease(s, b.events[k])
<1>1. ToSet(b.events) = {b.events[k] : k \in 1..Len(b.events)}
  BY ElementsOf
<1>. DEFINE C == ToSet(b.events)
            odd == \E e \in C : e.goal # s.goal
            lost == \E e \in C : e.lease # None /\ ~HoldsLease(s, e)
<1>2. ~odd /\ ~lost
  <2>. DEFINE rest == IF \E e \in C : e.task # None /\ s.task[e.task].status = "Completed"
                      THEN "terminal_state"
                      ELSE IF Scopes(b.events) \cap Scopes(Since(b.base)) # {}
                      THEN "scope_overlap" ELSE "none"
  <2>1. DetectConflict(s, b) = IF odd THEN "stale_goal"
                               ELSE IF lost THEN "lease_reassigned" ELSE rest
    BY DEF DetectConflict
  <2>. HIDE DEF odd, lost, rest
  <2>2. QED
    BY <2>1
<1>3. QED
  BY <1>1, <1>2

\* An event of a batch that is stored, on what was accepted before it.
LEMMA BatchIsAuthorized ==
  ASSUME CommandsInv, NamedIn(built), NEW r \in Requests, Made(built, r), Stores(built[r]),
         NEW k \in 1..Len(built[r].events),
         Reducible(SubSeq(accepted', 1, Len(accepted) + k - 1))
  PROVE  Authorize(Reduce(SubSeq(accepted', 1, Len(accepted) + k - 1)),
                   accepted'[Len(accepted) + k], now)
<1>. DEFINE b == built[r]
            new == b.events
            n == Len(new)
            s == Reduce(accepted)
            m == Len(accepted)
            base == Reduce(SubSeq(accepted, 1, b.base))
            e == new[k]
<1>1. accepted # <<>> /\ Running /\ IsSequence(accepted) /\ m \in Nat
  BY SequenceDomain DEF CommandsInv, CoreOK, Before, Stores, Pushes
<1>2. Ready(b, accepted, s) /\ IsState(s) /\ IsSequence(new) /\ n \in Nat
  BY <1>1, SequenceDomain DEF Running, Kept, Sound, BatchOf
<1>3. accepted' = accepted \o new /\ Pushes(b) /\ DetectConflict(s, b) = "none"
  BY DEF Stores, Commit
<1>4. s.ok /\ PreviewCode(base, new) = "valid" /\ b.base \in 1..m
  BY <1>2, <1>3 DEF Pushes, Ready
<1>5. \A j \in 1..n : /\ Plain(new[j]) /\ Named(new[j]) /\ new[j].goal = s.goal
                      /\ new[j].lease # None => HoldsLease(s, new[j])
  BY <1>2, <1>3, NoConflictMeans DEF Ready, NamedIn
<1>6. Form(base) /\ Later(base, s)
  BY <1>1, <1>4, HeadIsLater
<1>7. accepted'[m + k] = e
  BY <1>1, <1>2, <1>3, ConcatSequence
<1>8. PICK p : Runs(p, base, new, n) /\ Allowed(p, new, n)
  BY <1>2, <1>4, PreviewAllows
<1>9. PICK g : Runs(g, s, new, n)
  BY <1>2, ReplayRuns
<1>. HIDE DEF n, s, m, base
<1>10. k - 1 \in 0..n - 1 /\ (k - 1) + 1 = k /\ n - 1 \in Nat
       /\ \A j \in 0..n - 1 : j \in 0..n /\ j + 1 \in 1..n
  BY <1>2 DEF n
<1>11. Reduce(SubSeq(accepted', 1, m + (k - 1))) = g[k - 1]
  <2>. DEFINE j == k - 1
              first == SubSeq(new, 1, j)
  <2>1. j \in 0..n /\ j \in Nat /\ j <= n
    BY <1>2, <1>10
  <2>2. /\ IsSequence(first) /\ Len(first) = IF 1 <= j THEN j - 1 + 1 ELSE 0
        /\ \A i \in 1..(j - 1 + 1) : first[i] = new[1 + i - 1]
    BY <1>2, <2>1, SubSequence DEF n
  <2>. HIDE DEF j
  <2>3. j - 1 + 1 = j /\ (~(1 <= j) => j = 0) /\ \A i \in 1..j : 1 + i - 1 = i
    BY <2>1
  <2>. HIDE DEF first
  <2>4. Len(first) = j /\ SameUpTo(first, new, j)
    BY <2>2, <2>3 DEF SameUpTo
  <2>5. SubSeq(accepted', 1, m + j) = accepted \o first
    BY <1>1, <1>2, <1>3, <2>1, FirstOfAppended DEF m, n, first
  <2>6. Reduce(accepted \o first) = Replay(s, first)
    BY <1>1, <2>2, ReduceConcat DEF s
  <2>7. PICK f : Runs(f, s, first, j) /\ Replay(s, first) = f[j]
    BY <2>2, <2>4, ReplayRuns
  <2>8. Runs(g, s, new, j)
    BY <1>2, <1>9, <2>1 DEF Runs, n
  <2>9. f[j] = g[j]
    BY <2>1, <2>4, <2>7, <2>8, RunIsUnique
  <2>10. QED
    BY <2>5, <2>6, <2>7, <2>9 DEF j
<1>12. m + (k - 1) = m + k - 1
  BY <1>1, <1>10 DEF m
<1>13. g[k - 1].ok
  BY <1>11, <1>12 DEF Reducible, m
<1>14. \A j \in 0..n - 1 : p[j].goal = s.goal
  BY <1>5, <1>8, <1>10 DEF Allowed
<1>15. \A j \in 0..n : Form(g[j]) /\ Form(p[j])
  <2>1. Form(s)
    BY <1>2, StateHasForm DEF s
  <2>2. QED
    BY <1>2, <1>6, <1>8, <1>9, <2>1, RunIsLater DEF Later, n
<1>16. base.ok /\ Knows(base, s) /\ Form(s)
  BY <1>4, <1>6 DEF Later, s
<1>. DEFINE N == {j \in 0..n - 1 : g[j].ok => Alike(p[j], g[j], e.lease)}
<1>17. 0 \in N
  <2>1. p[0] = base /\ g[0] = s /\ 0 \in 0..n - 1
    BY <1>8, <1>9, <1>10 DEF Runs
  <2>2. base.goal = s.goal
    BY <1>14, <2>1
  <2>3. e.lease # None => HoldsLease(s, e)
    BY <1>5 DEF n
  <2>4. Usable(base, s, e.lease)
    BY <2>3 DEF Usable, HoldsLease
  <2>5. Alike(base, s, e.lease)
    BY <1>4, <1>6, <1>16, <2>2, <2>4 DEF Alike, s
  <2>6. QED
    BY <2>1, <2>5
<1>18. ASSUME NEW j \in 0..(n - 1) - 1, j \in N PROVE j + 1 \in N
  <2>. DEFINE d == new[j + 1]
  <2>1. j \in 0..n - 1 /\ j + 1 \in 0..n - 1 /\ j \in 0..n
    BY <1>10
  <2>2. p[j + 1] = Apply(p[j], d) /\ g[j + 1] = Apply(g[j], d) /\ Admits(p[j], d)
    BY <1>8, <1>9, <2>1 DEF Runs, Allowed
  <2>3. SUFFICES ASSUME g[j + 1].ok PROVE Alike(p[j + 1], g[j + 1], e.lease)
    BY <2>1
  <2>. HIDE DEF d, e
  <2>4. g[j].ok /\ Admits(g[j], d)
    BY <1>15, <2>1, <2>2, <2>3, ApplyIsLater
  <2>5. Alike(p[j], g[j], e.lease)
    BY <1>18, <2>4
  <2>6. d.type # "goal.change.approved"
    <3>1. SUFFICES ASSUME d.type = "goal.change.approved" PROVE FALSE
      OBVIOUS
    <3>2. Effect(p[j], d, p[j + 1])
      BY <2>2, <2>5, EventEffect DEF Alike
    <3>3. p[j + 1].goal = p[j].goal + 1
      BY <3>1, <3>2 DEF Effect, GoalAfterEvent
    <3>4. p[j + 1].goal = s.goal /\ p[j].goal = s.goal /\ s.goal \in Nat
      BY <1>2, <1>14, <2>1 DEF IsState, s
    <3>5. QED
      BY <3>3, <3>4
  <2>7. QED
    BY <2>2, <2>4, <2>5, <2>6, AlikeStays
<1>. HIDE DEF N
<1>19. k - 1 \in N
  BY <1>10, <1>17, <1>18, UpTo
<1>20. Alike(p[k - 1], g[k - 1], e.lease)
  BY <1>13, <1>19 DEF N
<1>21. /\ Plain(e) /\ Named(e) /\ Authorize(p[k - 1], e, now) /\ Admits(p[k - 1], e)
  <2>1. Plain(e) /\ Named(e)
    BY <1>5 DEF n
  <2>2. Authorize(p[k - 1], new[(k - 1) + 1], now) /\ Admits(p[k - 1], new[(k - 1) + 1])
    BY <1>8, <1>10 DEF Allowed
  <2>3. QED
    BY <1>10, <2>1, <2>2
<1>. HIDE DEF e
<1>22. Authorize(g[k - 1], e, now)
  BY <1>20, <1>21, AuthorityCarries
<1>23. QED
  BY <1>7, <1>11, <1>12, <1>22 DEF m

\* Batches are built from steps, which name what there is.
LEMMA BuildNames ==
  ASSUME CommandsInv, NamedIn(built), NEW r \in Requests, Build(r)
  PROVE  NamedIn(built')
<1>. DEFINE s == Reduce(accepted)
            m == Len(accepted)
            Event(i) == NewEvent(r.name, i, m, s.goal, r.actor, Bound(s, r, r.steps[i]))
            events == [i \in 1..Len(r.steps) |-> Event(i)]
            b == [id |-> <<r.name, 0>>, base |-> m, events |-> events]
<1>1. /\ IsSequence(r.steps) /\ DOMAIN r.steps = 1..Len(r.steps) /\ Len(r.steps) \in Nat
      /\ \A i \in 1..Len(r.steps) : IsStep(r.steps[i])
  BY RequestsAssumption, SequenceDomain
<1>2. mode = "writable" /\ built' = [built EXCEPT ![r] = b]
  BY <1>1 DEF Build, Baseline
<1>3. IsState(s)
  BY <1>2 DEF CommandsInv, Running, Sound, Before
<1>. HIDE DEF s, m
<1>4. ASSUME NEW i \in 1..Len(r.steps) PROVE Named(Event(i))
  <2>. DEFINE step == Bound(s, r, r.steps[i])
  <2>1. IsStep(step)
    BY <1>1, <1>3, BoundIsStep
  <2>. HIDE DEF step
  <2>2. Event(i).lease = step.lease /\ Event(i).type = step.type /\ Event(i).on = step.on
    BY DEF NewEvent, step
  <2>. HIDE DEF Event
  <2>3. QED
    BY <2>1, <2>2 DEF Named, IsStep
<1>. HIDE DEF Event
<1>5. events = [i \in 1..Len(r.steps) |-> events[i]] /\ \A i \in 1..Len(r.steps) : events[i] = Event(i)
  OBVIOUS
<1>. HIDE DEF events
<1>6. Len(events) = Len(r.steps)
  BY <1>1, <1>5, FunctionIsSequence
<1>7. b.events = events
  OBVIOUS
<1>. HIDE DEF b
<1>8. \A k \in 1..Len(b.events) : Named(b.events[k])
  BY <1>4, <1>5, <1>6, <1>7
<1>9. built = [q \in Requests |-> built[q]]
  BY DEF CommandsInv, CallersOK
<1>10. \A q \in Requests : built'[q] = IF q = r THEN b ELSE built[q]
  BY <1>2, <1>9
<1>11. QED
  BY <1>8, <1>10 DEF NamedIn, Made

(***************************************************************************)
(* The policy holds where an event lands, as far as the log replays: of a  *)
(* log that does not, Reduce returns an error and no state to ask.         *)
(***************************************************************************)
AuthorizedWhereReplayed ==
  \A i \in (Len(accepted) + 1) .. Len(accepted') :
    \/ accepted = <<>> \/ accepted'[i].id[1] = "svc"
    \/ Reducible(SubSeq(accepted', 1, i - 1)) =>
         Authorize(Reduce(SubSeq(accepted', 1, i - 1)), accepted'[i], now)

\* What each action appends: events of an authorized batch, or of the service.
LEMMA DeliveredIsAuthorized ==
  ASSUME CommandsInv, NamedIn(built), NEW r \in Requests, Deliver(r)
  PROVE  AuthorizedWhereReplayed
<1>. DEFINE m == Len(accepted)
<1>1. /\ Made(built, r)
      /\ \/ Stores(built[r]) \/ Opens(built[r]) \/ Finds(built[r]) \/ UNCHANGED core
  BY DeliveryCases
<1>2. IsSequence(accepted) /\ m \in Nat
  BY SequenceDomain DEF CommandsInv, CoreOK
<1>3. CASE Stores(built[r])
  <2>. DEFINE new == built[r].events
  <2>1. accepted # <<>> /\ Running
    BY <1>3 DEF CommandsInv, Before, Stores, Pushes
  <2>2. IsSequence(new) /\ Len(new) \in Nat /\ accepted' = accepted \o new
    BY <1>1, <1>3, <2>1, SequenceDomain DEF Running, Kept, BatchOf, Stores, Commit
  <2>3. Len(accepted') = m + Len(new)
    BY <1>2, <2>2, ConcatSequence
  <2>4. SUFFICES ASSUME NEW i \in (m + 1)..(m + Len(new)),
                        Reducible(SubSeq(accepted', 1, i - 1))
                 PROVE  Authorize(Reduce(SubSeq(accepted', 1, i - 1)), accepted'[i], now)
    BY <2>3 DEF AuthorizedWhereReplayed
  <2>. DEFINE k == i - m
  <2>5. k \in 1..Len(new) /\ m + k = i /\ m + k - 1 = i - 1
    BY <1>2, <2>2
  <2>. HIDE DEF k
  <2>6. Authorize(Reduce(SubSeq(accepted', 1, m + k - 1)), accepted'[m + k], now)
    BY <1>1, <1>3, <2>4, <2>5, BatchIsAuthorized
  <2>7. QED
    BY <2>5, <2>6
<1>4. CASE Opens(built[r])
  <2>. DEFINE e == ConflictOpened(Reduce(accepted), built[r],
                                  DetectConflict(Reduce(accepted), built[r]))
  <2>1. accepted' = accepted \o <<e>>
    BY <1>4 DEF Opens, Commit
  <2>2. e.id[1] = "svc"
    BY DEF ConflictOpened, ServiceId
  <2>. HIDE DEF e
  <2>3. IsSequence(<<e>>) /\ Len(<<e>>) = 1 /\ <<e>>[1] = e
    <3>1. <<e>> \in Seq({e}) /\ Len(<<e>>) = 1 /\ <<e>>[1] = e
      OBVIOUS
    <3>2. QED
      BY <3>1, MemberIsSequence
  <2>4. Len(accepted') = m + 1 /\ accepted'[m + 1] = e
    BY <1>2, <2>1, <2>3, ConcatSequence
  <2>5. QED
    BY <1>2, <2>2, <2>4 DEF AuthorizedWhereReplayed
<1>5. CASE Finds(built[r])
  <2>1. accepted' = accepted
    BY <1>2, <1>5, ConcatEmptySeq DEF Finds, Commit, IsSequence
  <2>2. QED
    BY <1>2, <2>1 DEF AuthorizedWhereReplayed
<1>6. CASE UNCHANGED core
  BY <1>2, <1>6 DEF core, AuthorizedWhereReplayed
<1>7. QED
  BY <1>1, <1>3, <1>4, <1>5, <1>6

LEMMA DecidedIsOfService ==
  ASSUME CommandsInv, NEW actor \in Resolvers, NEW action \in Actions, Resolve(actor, action)
  PROVE  AuthorizedWhereReplayed
<1>. DEFINE m == Len(accepted)
<1>1. IsSequence(accepted) /\ m \in Nat
  BY SequenceDomain DEF CommandsInv, CoreOK
<1>2. PICK c, events : Decided(c, events)
  BY ResolveCases
<1>3. PICK p, res : Prelude(p) /\ events = Append(p, res) /\ Decides(res, c, m + Len(p))
  BY <1>2 DEF Decided
<1>4. accepted' = accepted \o events
  BY <1>2 DEF Decided, Commit
<1>5. IsSequence(p) /\ Len(p) \in Nat
  BY <1>3, SequenceDomain DEF Prelude
<1>6. /\ IsSequence(events) /\ Len(events) = Len(p) + 1
      /\ \A k \in 1..Len(p) : events[k] = p[k]
      /\ events[Len(p) + 1] = res
  BY <1>3, <1>5, AppendSequence
<1>7. \A k \in 1..Len(events) : events[k].id[1] = "svc"
  <2>1. TAKE k \in 1..Len(events)
  <2>2. k \in 1..Len(p) \/ k = Len(p) + 1
    BY <1>5, <1>6
  <2>3. QED
    BY <1>3, <1>6, <2>2 DEF Prelude, Decides
<1>8. /\ Len(accepted') = m + Len(events)
      /\ \A i \in 1..m + Len(events) :
           accepted'[i] = IF i <= m THEN accepted[i] ELSE events[i - m]
  BY <1>1, <1>4, <1>6, ConcatSequence
<1>9. ASSUME NEW i \in (m + 1)..(m + Len(events)) PROVE accepted'[i].id[1] = "svc"
  <2>1. i \in 1..m + Len(events) /\ ~(i <= m) /\ i - m \in 1..Len(events)
    BY <1>1, <1>5, <1>6
  <2>2. QED
    BY <1>7, <1>8, <2>1
<1>10. QED
  BY <1>8, <1>9 DEF AuthorizedWhereReplayed

LEMMA AuthorizedStep ==
  ASSUME CommandsInv, NamedIn(built), [Next]_vars
  PROVE  NamedIn(built') /\ AuthorizedWhereReplayed
<1>1. IsSequence(accepted) /\ Len(accepted) \in Nat
  BY SequenceDomain DEF CommandsInv, CoreOK
<1>2. ASSUME accepted' = accepted PROVE AuthorizedWhereReplayed
  BY <1>1, <1>2 DEF AuthorizedWhereReplayed
<1>3. CASE Next
  <2>1. ASSUME NEW r \in Requests, Build(r) PROVE NamedIn(built') /\ AuthorizedWhereReplayed
    BY <1>2, <2>1, BuildKeeps, BuildNames
  <2>2. ASSUME NEW r \in Requests, Deliver(r) PROVE NamedIn(built') /\ AuthorizedWhereReplayed
    <3>1. built' = built
      BY <2>2, DeliveryCases
    <3>2. QED
      BY <2>2, <3>1, DeliveredIsAuthorized
  <2>3. ASSUME NEW actor \in Resolvers, NEW action \in Actions, Resolve(actor, action)
        PROVE  NamedIn(built') /\ AuthorizedWhereReplayed
    <3>1. built' = built
      BY <2>3, ResolveCases
    <3>2. QED
      BY <2>3, <3>1, DecidedIsOfService
  <2>4. CASE Service
    <3>1. built' = built
      BY <2>4 DEF Service
    <3>2. accepted' = accepted \/ accepted = <<>>
      BY <2>4, ServiceKeeps
    <3>3. QED
      BY <1>2, <3>1, <3>2 DEF AuthorizedWhereReplayed
  <2>5. QED
    BY <1>3, <2>1, <2>2, <2>3, <2>4 DEF Next
<1>4. CASE UNCHANGED vars
  BY <1>2, <1>4 DEF vars, core
<1>5. QED
  BY <1>3, <1>4

LEMMA NamesAtStart ==
  ASSUME Init
  PROVE  NamedIn(built)
BY DEF Init, NamedIn, Made

(***************************************************************************)
(* An event lands only where the policy, asked at the moment of the append *)
(* on what was accepted before it, allows it to its actor, wherever that   *)
(* replays: a lease that was revoked, released, reassigned or made stale   *)
(* since the base keeps the batch out (Push, Policy.Authorize).            *)
(***************************************************************************)
THEOREM EventsLandAuthorized == Spec => [][AuthorizedWhereReplayed]_vars
<1>1. ASSUME CommandsInv, NamedIn(built), [Next]_vars
      PROVE  NamedIn(built') /\ [AuthorizedWhereReplayed]_vars
  BY <1>1, AuthorizedStep
<1>. DEFINE NamesOK == NamedIn(built)
<1>2. Init => NamesOK
  BY NamesAtStart
<1>3. CommandsInv /\ NamesOK /\ [Next]_vars => NamesOK'
  BY <1>1
<1>4. CommandsInv /\ NamesOK /\ [Next]_vars => [AuthorizedWhereReplayed]_vars
  BY <1>1
<1>. HIDE DEF NamesOK
<1>5. QED
  BY <1>2, <1>3, <1>4, CommandsInvariance, PTL DEF Spec

(***************************************************************************)
(* On a log that replays throughout, every event that callers submit is    *)
(* authorized where it is accepted.                                        *)
(***************************************************************************)
THEOREM AcceptedAsAuthorized == Spec /\ []AcceptedReducible => AuthorizedAtAcceptance
<1>1. ASSUME CommandsInv, CommandsInv', AcceptedReducible', AuthorizedWhereReplayed
      PROVE  \A i \in (Len(accepted) + 1) .. Len(accepted') :
               \/ accepted = <<>> \/ accepted'[i].id[1] = "svc"
               \/ Authorize(Reduce(SubSeq(accepted', 1, i - 1)), accepted'[i], now)
  <2>1. /\ IsSequence(accepted) /\ Len(accepted) \in Nat
        /\ IsSequence(accepted') /\ Len(accepted') \in Nat
    BY <1>1, SequenceDomain DEF CommandsInv, CoreOK
  <2>2. SUFFICES ASSUME NEW i \in (Len(accepted) + 1) .. Len(accepted'), accepted # <<>>
                 PROVE  Reducible(SubSeq(accepted', 1, i - 1))
    BY <1>1 DEF AuthorizedWhereReplayed
  <2>3. Len(accepted) # 0
    BY <2>1, <2>2, EmptyIsSequence, SequenceEqual
  <2>4. i - 1 \in 1..Len(accepted')
    BY <2>1, <2>2, <2>3
  <2>5. Reduce(accepted').ok
    BY <1>1 DEF AcceptedReducible, Reducible
  <2>6. QED
    BY <2>1, <2>4, <2>5, HeadIsLater DEF Reducible, Later
<1>2. ASSUME CommandsInv, CommandsInv', AcceptedReducible', [AuthorizedWhereReplayed]_vars
      PROVE  [\A i \in (Len(accepted) + 1) .. Len(accepted') :
                \/ accepted = <<>> \/ accepted'[i].id[1] = "svc"
                \/ Authorize(Reduce(SubSeq(accepted', 1, i - 1)), accepted'[i], now)]_vars
  BY <1>1, <1>2
<1>3. QED
  BY <1>2, CommandsInvariance, EventsLandAuthorized, PTL DEF AuthorizedAtAcceptance
=============================================================================
