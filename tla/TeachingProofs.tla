---------------------------- MODULE TeachingProofs ----------------------------
(***************************************************************************)
(* What holds of a teacher's lessons for any number of requests, lessons   *)
(* and payments: of the teaching plan, its revisions and the evidence of   *)
(* mastery, and of the schedule and the ledger of lessons and payments.    *)
(***************************************************************************)
EXTENDS PlanProgress, Billing, Sums, SequenceTheorems, TLAPS

(* The plan: the sessions of PlanProgress.                                 *)

\* A session in these stages keeps the locks of the rows that it holds.
Locks(s) == s.stage \in {"locking", "flushed", "assessed"}

\* What one session has read: no version of the plan that is still to come, only items
\* that are there, and an approval only what the table still holds of them.
SessionSound(s) ==
  /\ s.stage = "idle" => s = Idle
  /\ s.stage \in {"locking", "assessed"} => s.change = "approval"
  /\ s.plan <= plan.version
  /\ \A i \in Held(s.rows) : Exists(i)
  /\ Locks(s) /\ s.change = "approval" => \A i \in Held(s.rows) : s.rows[i] = items[i]

SessionsSound == \A t \in Tabs : SessionSound(session[t])

\* No two sessions have locked a row in common.
Apart(s, r) ==
  Locks(s) /\ Locks(r) => \A i \in Items : i \notin Held(s.rows) \/ i \notin Held(r.rows)

RowsExclusive == \A t \in Tabs : \A u \in Tabs \ {t} : Apart(session[t], session[u])

\* Nothing was credited to an item before it was there.
CreditsSound == MinutesCredited /\ \A i \in Items : ~Exists(i) => credited[i] = 0

\* A mastery row that was there when it was read is locked, so it is still the same and
\* nobody else has got past it.
LevelsSound ==
  \A t \in Tabs : session[t].stage = "assessed" /\ session[t].level # Unlearned =>
    /\ session[t].level = mastery
    /\ \A u \in Tabs \ {t} : session[u].stage # "assessed"

\* The invariant that the theorems rest on.
PlanInv ==
  /\ TypeOK /\ RevisionPerVersion /\ NewestRevisionIsPlan /\ CreditsSound
  /\ SessionsSound /\ RowsExclusive /\ EvidenceChain /\ LevelsSound
-----------------------------------------------------------------------------
(* What a step keeps, by what it writes.                                   *)

\* A request that is over has read nothing.
LEMMA IdleSession ==
  /\ Idle \in Sessions /\ Idle.stage = "idle" /\ Idle.plan = 0
  /\ NoRows \in [Items -> Rows] /\ Held(NoRows) = {} /\ Held(Idle.rows) = {}
  /\ Idle.rows = NoRows /\ ~Locks(Idle)
BY DEF Idle, Sessions, NoRows, Rows, Held, Stages, Changes, Proposals, Locks

\* What the declared types say of the rows and the sessions.
LEMMA Types ==
  ASSUME PlanInv
  PROVE  /\ plan \in Plans /\ plan.version \in Nat
         /\ \A i \in Items : items[i] \in Rows /\ items[i].version \in Nat
                             /\ items[i].minutes \in Nat /\ credited[i] \in Nat
         /\ \A t \in Tabs : /\ session[t] \in Sessions /\ SessionSound(session[t])
                            /\ session[t].rows \in [Items -> Rows]
                            /\ session[t].plan \in Nat /\ session[t].value \in Nat
         /\ Len(revisions) \in Nat /\ DOMAIN revisions = 1 .. Len(revisions)
         /\ Len(evidence) \in Nat /\ DOMAIN evidence = 1 .. Len(evidence)
<1>1. /\ plan \in Plans /\ items \in [Items -> Rows] /\ credited \in [Items -> Nat]
      /\ session \in [Tabs -> Sessions] /\ SessionsSound
      /\ revisions \in Seq([Items -> Nat \cup {Absent}]) /\ evidence \in Seq(Evidence)
  BY DEF PlanInv, TypeOK
<1>2. \A s \in Sessions : s.rows \in [Items -> Rows] /\ s.plan \in Nat /\ s.value \in Nat
  BY DEF Sessions
<1>3. \A row \in Rows : row.version \in Nat /\ row.minutes \in Nat
  BY DEF Rows
<1>4. plan.version \in Nat
  BY <1>1 DEF Plans
<1> QED
  BY <1>1, <1>2, <1>3, <1>4 DEF SessionsSound

\* A request reads on, and the tables stay as they are.
LEMMA ReadStep ==
  ASSUME PlanInv, NEW t \in Tabs, NEW s \in Sessions, Put(t, s),
         UNCHANGED <<plan, items, revisions, mastery, evidence, credited, raced>>,
         SessionSound(s),
         \A u \in Tabs \ {t} : Apart(s, session[u]),
         s.stage = "assessed" => s.level = mastery /\ MasteryFree(t)
  PROVE  PlanInv'
<1> USE DEF PlanInv
<1>1. session'[t] = s /\ \A u \in Tabs \ {t} : session'[u] = session[u]
  BY DEF TypeOK, Put
<1>2. TypeOK'
  BY DEF TypeOK, Put
<1>3. RevisionPerVersion' /\ NewestRevisionIsPlan' /\ CreditsSound' /\ EvidenceChain'
  BY DEF RevisionPerVersion, NewestRevisionIsPlan, CreditsSound, MinutesCredited, EvidenceChain,
         Exists
<1>4. SessionsSound'
  <2>1. \A u \in Tabs : SessionSound(session'[u])
    BY <1>1 DEF SessionsSound
  <2>2. \A u \in Tabs : SessionSound(session'[u]) => SessionSound(session[u])'
    BY DEF SessionSound, Exists
  <2> QED
    BY <2>1, <2>2 DEF SessionsSound
<1>5. RowsExclusive'
  <2>1. \A u \in Tabs \ {t} : Apart(session[u], s)
    BY DEF Apart
  <2>2. \A v \in Tabs : \A u \in Tabs \ {v} : Apart(session'[v], session'[u])
    BY <1>1, <2>1 DEF RowsExclusive
  <2>3. \A v \in Tabs : \A u \in Tabs :
          Apart(session'[v], session'[u]) => Apart(session[v], session[u])'
    BY DEF Apart, Locks, Held
  <2> QED
    BY <2>2, <2>3 DEF RowsExclusive
<1>6. LevelsSound'
  <2>1. CASE s.stage # "assessed"
    BY <1>1, <2>1 DEF LevelsSound
  <2>2. CASE s.stage = "assessed" /\ mastery = Unlearned
    BY <1>1, <2>2 DEF LevelsSound
  <2>3. CASE s.stage = "assessed" /\ mastery # Unlearned
    BY <1>1, <2>3 DEF LevelsSound, MasteryFree
  <2> QED
    BY <2>1, <2>2, <2>3
<1> QED
  BY <1>2, <1>3, <1>4, <1>5, <1>6

\* Requests end, and rows are written that no approval under way has locked.
LEMMA WriteStep ==
  ASSUME PlanInv, TypeOK',
         \A u \in Tabs : session'[u] = session[u] \/ session'[u] = Idle,
         plan.version <= plan'.version,
         \A i \in Items : Exists(i) => Exists(i)',
         \A u \in Tabs : session'[u] = session[u] /\ Locks(session[u]) /\ session[u].change = "approval" =>
           \A i \in Held(session[u].rows) : items'[i] = items[i],
         RevisionPerVersion', NewestRevisionIsPlan', CreditsSound', EvidenceChain',
         mastery' = mastery \/ \A u \in Tabs : session'[u].stage = "assessed" =>
                                 session[u].level = Unlearned
  PROVE  PlanInv'
<1> USE DEF PlanInv
<1>1. SessionsSound'
  <2> SUFFICES ASSUME NEW u \in Tabs PROVE SessionSound(session[u])'
    BY DEF SessionsSound
  <2>1. plan.version \in Nat /\ plan'.version \in Nat /\ session[u].plan \in Nat
    BY Types DEF TypeOK, Plans
  <2>2. CASE session'[u] = Idle
    BY <2>1, <2>2, IdleSession DEF SessionSound, Held, Locks
  <2>3. CASE session'[u] = session[u]
    <3>1. SessionSound(session[u]) /\ Held(session[u].rows) \subseteq Items
      BY DEF SessionsSound, Held
    <3>2. session[u].plan <= plan'.version
      BY <2>1, <3>1 DEF SessionSound
    <3>3. Held(session[u].rows)' = Held(session[u].rows) /\ Locks(session[u])' = Locks(session[u])
      BY <2>3 DEF Held, Locks
    <3>4. \A i \in Held(session[u].rows) : Exists(i)'
      BY <3>1 DEF SessionSound
    <3>5. Locks(session[u]) /\ session[u].change = "approval" =>
            \A i \in Held(session[u].rows) : session[u].rows[i] = items'[i]
      BY <2>3, <3>1 DEF SessionSound
    <3> QED
      BY <2>3, <3>1, <3>2, <3>3, <3>4, <3>5 DEF SessionSound, Idle, NoRows
  <2> QED
    BY <2>2, <2>3
<1>2. RowsExclusive'
  <2>1. \A u, v \in Tabs : Apart(session[u], session[v]) => Apart(session[u], session[v])'
    BY IdleSession DEF Apart, Locks, Held
  <2> QED
    BY <2>1 DEF RowsExclusive
<1>3. LevelsSound'
  BY IdleSession DEF LevelsSound
<1> QED
  BY <1>1, <1>2, <1>3

\* The next revision is the session's own rows and, of the others, the table.
LEMMA Revised ==
  ASSUME PlanInv, NEW read \in Nat, read <= plan.version, NEW rows \in [Items -> Rows],
         NumberFree(read + 1), plan' \in Plans, plan'.version = read + 1,
         revisions' = Append(revisions, Snapshot(rows))
  PROVE  /\ plan.version <= plan'.version
         /\ revisions' \in Seq([Items -> Nat \cup {Absent}])
         /\ RevisionPerVersion' /\ revisions'[Len(revisions')] = Snapshot(rows)
<1> DEFINE Snapshots == [Items -> Nat \cup {Absent}]
           snap == Snapshot(rows)
<1>1. snap \in Snapshots
  <2>1. \A i \in Items : rows[i].minutes \in Nat /\ items[i].minutes \in Nat
    BY Types DEF Rows
  <2> QED
    BY <2>1 DEF Snapshot
<1>2. revisions \in Seq(Snapshots)
  BY DEF PlanInv, TypeOK
<1> HIDE DEF Snapshots, snap
<1>3. /\ Append(revisions, snap) \in Seq(Snapshots)
      /\ Len(Append(revisions, snap)) = Len(revisions) + 1
      /\ Append(revisions, snap)[Len(revisions) + 1] = snap
  BY <1>1, <1>2, AppendProperties
<1>4. revisions' = Append(revisions, snap)
  BY DEF snap
<1>5. read = plan.version
  BY Types DEF PlanInv, RevisionPerVersion, NumberFree
<1>6. plan.version <= plan'.version
  BY <1>5, Types
<1>7. RevisionPerVersion'
  BY <1>3, <1>4, <1>5 DEF PlanInv, RevisionPerVersion
<1> QED
  BY <1>3, <1>4, <1>6, <1>7 DEF Snapshots, snap
-----------------------------------------------------------------------------
(* The steps that read and lock.                                           *)

\* Sessions that hold the same rows in the same locks are apart from the same ones.
LEMMA HoldsNoMore ==
  ASSUME NEW s, NEW r, NEW o, Apart(s, o), s.rows = r.rows, Locks(r) => Locks(s)
  PROVE  Apart(r, o)
BY DEF Apart, Held

\* A session that begins to read, or gives up.
LEMMA FreshStep ==
  ASSUME PlanInv, NEW t \in Tabs, NEW s \in Sessions, Put(t, s), s.plan <= plan.version,
         UNCHANGED <<plan, items, revisions, mastery, evidence, credited, raced>>,
         s = Idle \/ s.stage \in {"plan", "items"},
         \A i \in Held(s.rows) : Exists(i)
  PROVE  PlanInv'
<1>1. ~Locks(s) /\ s.stage \notin {"locking", "assessed"}
  BY IdleSession DEF Locks
<1>2. SessionSound(s)
  BY <1>1 DEF SessionSound
<1>3. \A u \in Tabs \ {t} : Apart(s, session[u])
  BY <1>1 DEF Apart
<1> QED
  BY <1>1, <1>2, <1>3, ReadStep

\* A request reads the plan or the items, or is refused (phase1.py:340-420, 1040-1070).
LEMMA FreshSteps ==
  ASSUME PlanAssumption, PlanInv, NEW t \in Tabs,
         ReadPlan(t) \/ Refuse(t) \/ \E S \in SUBSET Items : ReadItems(t, S)
  PROVE  PlanInv'
<1>1. CASE ReadPlan(t)
  <2> DEFINE s == [Idle EXCEPT !.stage = "plan", !.plan = plan.version]
  <2>1. s \in Sessions /\ s.stage = "plan" /\ s.plan = plan.version /\ s.rows = NoRows
    BY IdleSession, Types DEF Idle, Sessions, Stages
  <2>2. /\ Put(t, s)
        /\ UNCHANGED <<plan, items, revisions, mastery, evidence, credited, raced>>
    BY <1>1 DEF ReadPlan
  <2> HIDE DEF s
  <2>3. s.plan <= plan.version /\ \A i \in Held(s.rows) : Exists(i)
    BY <2>1, IdleSession, Types
  <2> QED
    BY <2>1, <2>2, <2>3, FreshStep
<1>2. CASE Refuse(t)
  <2>1. /\ Put(t, Idle)
        /\ UNCHANGED <<plan, items, revisions, mastery, evidence, credited, raced>>
    BY <1>2 DEF Refuse
  <2>2. Idle.plan <= plan.version
    BY IdleSession, Types
  <2> QED
    BY <2>1, <2>2, IdleSession, FreshStep
<1>3. ASSUME NEW S \in SUBSET Items, ReadItems(t, S) PROVE PlanInv'
  <2> DEFINE rows == [i \in Items |-> IF i \in S THEN items[i] ELSE Idle.rows[i]]
             s == [Idle EXCEPT !.stage = "items", !.rows = rows]
  <2>1. rows \in [Items -> Rows] /\ Held(rows) = S
    BY <1>3, IdleSession, Types DEF Held, Exists, ReadItems, NoRows
  <2>2. /\ Put(t, s) /\ \A i \in S : Exists(i)
        /\ UNCHANGED <<plan, items, revisions, mastery, evidence, credited, raced>>
    BY <1>3 DEF ReadItems, Idle
  <2> HIDE DEF rows
  <2>3. s \in Sessions /\ s.stage = "items" /\ s.plan = 0 /\ s.rows = rows
    BY <2>1, IdleSession DEF Idle, Sessions, Stages
  <2> HIDE DEF s
  <2>4. s.plan <= plan.version /\ \A i \in Held(s.rows) : Exists(i)
    BY <2>1, <2>2, <2>3, Types
  <2> QED
    BY <2>2, <2>3, <2>4, FreshStep
<1> QED
  BY <1>1, <1>2, <1>3

\* Items that a request has read are flushed once nobody else has locked them
\* (phase1.py:1060-1075).
LEMMA FlushStep ==
  ASSUME PlanAssumption, PlanInv, NEW t \in Tabs, NEW change \in Changes, NEW value \in Deltas,
         Flush(t, change, value)
  PROVE  PlanInv'
<1> DEFINE s == [session[t] EXCEPT !.stage = "flushed", !.change = change, !.value = value,
                                   !.plan = plan.version]
<1>1. /\ session[t] \in Sessions /\ SessionSound(session[t]) /\ plan.version \in Nat
      /\ value \in Nat
  BY Types DEF PlanAssumption
<1>2. /\ Put(t, s) /\ change # "approval"
      /\ \A i \in Held(session[t].rows) : RowFree(t, i)
      /\ UNCHANGED <<plan, items, revisions, mastery, evidence, credited, raced>>
  BY DEF Flush
<1>3. /\ s \in Sessions /\ s.stage = "flushed" /\ s.change = change /\ s.plan = plan.version
      /\ s.rows = session[t].rows
  BY <1>1 DEF Sessions, Stages
<1> HIDE DEF s
<1>4. SessionSound(s)
  BY <1>1, <1>2, <1>3 DEF SessionSound
<1>5. \A u \in Tabs \ {t} : Apart(s, session[u])
  BY <1>2, <1>3 DEF Apart, RowFree, Writing, Locks
<1> QED
  BY <1>2, <1>3, <1>4, <1>5, ReadStep

\* An approval locks an item that nobody else has locked, and holds it as it is then
\* (phase3.py:468).
LEMMA LockItemStep ==
  ASSUME PlanAssumption, PlanInv, NEW t \in Tabs, NEW i \in Items, NEW value \in Deltas,
         LockItem(t, i, value)
  PROVE  PlanInv'
<1> DEFINE rows == [session[t].rows EXCEPT ![i] = items[i]]
           s == [session[t] EXCEPT !.stage = "locking", !.change = "approval", !.value = value,
                                   !.rows = rows]
<1>1. /\ session[t] \in Sessions /\ SessionSound(session[t]) /\ value \in Nat
      /\ session[t].rows \in [Items -> Rows] /\ items[i] \in Rows
  BY Types DEF PlanAssumption
<1>2. /\ Put(t, s) /\ session[t].stage \in {"idle", "locking"}
      /\ Exists(i) /\ RowFree(t, i)
      /\ UNCHANGED <<plan, items, revisions, mastery, evidence, credited, raced>>
  BY DEF LockItem, LockFree
<1>3. /\ rows \in [Items -> Rows] /\ rows[i] = items[i]
      /\ \A j \in Items \ {i} : rows[j] = session[t].rows[j]
  BY <1>1
<1>4. \A j \in Held(rows) : j = i \/ j \in Held(session[t].rows)
  BY <1>3 DEF Held
<1> HIDE DEF rows
<1>5. /\ s \in Sessions /\ s.stage = "locking" /\ s.change = "approval"
      /\ s.plan = session[t].plan /\ s.rows = rows
  BY <1>1, <1>3 DEF Sessions, Stages, Changes
<1> HIDE DEF s
<1>6. \A j \in Held(session[t].rows) : session[t].rows[j] = items[j]
  <2>1. CASE session[t].stage = "idle"
    BY <1>1, <2>1, IdleSession DEF SessionSound
  <2>2. CASE session[t].stage = "locking" /\ session[t].change = "approval"
    BY <1>1, <2>2 DEF SessionSound, Locks
  <2>3. session[t].stage = "locking" => session[t].change = "approval"
    BY <1>1 DEF SessionSound
  <2> QED
    BY <1>2, <2>1, <2>2, <2>3
<1>7. SessionSound(s)
  BY <1>1, <1>2, <1>3, <1>4, <1>5, <1>6 DEF SessionSound, Held
<1>8. \A u \in Tabs \ {t} : Apart(s, session[u])
  <2> TAKE u \in Tabs \ {t}
  <2>1. Locks(session[u]) => i \notin Held(session[u].rows)
    BY <1>2 DEF RowFree, Writing, Locks
  <2>2. Locks(session[u]) => \A j \in Held(session[t].rows) : j \notin Held(session[u].rows)
    <3>1. CASE session[t].stage = "idle"
      BY <1>1, <3>1, IdleSession DEF SessionSound
    <3>2. CASE session[t].stage = "locking"
      BY <3>2 DEF PlanInv, RowsExclusive, Apart, Locks, Held
    <3> QED
      BY <1>2, <3>1, <3>2
  <2> QED
    BY <1>4, <1>5, <2>1, <2>2 DEF Apart
<1> QED
  BY <1>2, <1>5, <1>7, <1>8, ReadStep

\* An approval goes on from the items to the plan and to the mastery, and keeps its locks
\* (phase3.py:472-515).
LEMMA LockOnStep ==
  ASSUME PlanAssumption, PlanInv, NEW t \in Tabs, LockPlan(t) \/ ReadMastery(t)
  PROVE  PlanInv'
<1>1. /\ session[t] \in Sessions /\ SessionSound(session[t]) /\ session[t].rows \in [Items -> Rows]
      /\ plan.version \in Nat /\ mastery \in Proposals
  BY Types DEF PlanInv, TypeOK
<1>2. \A u \in Tabs \ {t} : Apart(session[t], session[u])
  BY DEF PlanInv, RowsExclusive
<1>3. CASE LockPlan(t)
  <2> DEFINE s == [session[t] EXCEPT !.stage = "flushed", !.plan = plan.version]
  <2>1. /\ Put(t, s) /\ session[t].stage = "locking" /\ Locks(session[t])
        /\ UNCHANGED <<plan, items, revisions, mastery, evidence, credited, raced>>
    BY <1>3 DEF LockPlan, Locks
  <2>2. /\ s \in Sessions /\ s.stage = "flushed" /\ s.rows = session[t].rows
        /\ s.plan = plan.version
    BY <1>1 DEF Sessions, Stages
  <2> HIDE DEF s
  <2>3. SessionSound(s)
    BY <1>1, <2>1, <2>2 DEF SessionSound
  <2>4. \A u \in Tabs \ {t} : Apart(s, session[u])
    BY <1>2, <2>1, <2>2, HoldsNoMore
  <2> QED
    BY <2>1, <2>2, <2>3, <2>4, ReadStep
<1>4. CASE ReadMastery(t)
  <2> DEFINE s == [session[t] EXCEPT !.stage = "assessed", !.change = "approval", !.level = mastery]
  <2>1. /\ Put(t, s) /\ MasteryFree(t)
        /\ \/ session[t].stage = "idle"
           \/ session[t].stage = "flushed" /\ session[t].change = "approval"
        /\ UNCHANGED <<plan, items, revisions, mastery, evidence, credited, raced>>
    BY <1>4 DEF ReadMastery
  <2>2. /\ s \in Sessions /\ s.stage = "assessed" /\ s.rows = session[t].rows
        /\ s.plan = session[t].plan /\ s.change = "approval" /\ s.level = mastery
    BY <1>1 DEF Sessions, Stages, Changes
  <2> HIDE DEF s
  <2>3. session[t].stage = "idle" => Held(s.rows) = {}
    BY <1>1, <2>2, IdleSession DEF SessionSound
  <2>4. session[t].stage = "flushed" => Locks(session[t])
    BY DEF Locks
  <2>5. SessionSound(s)
    BY <1>1, <2>1, <2>2, <2>3, <2>4 DEF SessionSound
  <2>6. \A u \in Tabs \ {t} : Apart(s, session[u])
    <3>1. CASE session[t].stage = "idle"
      BY <2>3, <3>1 DEF Apart
    <3>2. CASE session[t].stage = "flushed"
      BY <1>2, <2>2, <2>4, <3>2, HoldsNoMore
    <3> QED
      BY <2>1, <3>1, <3>2
  <2> QED
    BY <2>1, <2>2, <2>5, <2>6, ReadStep
<1> QED
  BY <1>3, <1>4
-----------------------------------------------------------------------------
(* The steps that write.                                                   *)

\* The plan is written and the items stay (phase1.py:818, 340-420).
LEMMA PlanStep ==
  ASSUME PlanAssumption, PlanInv,
         CreatePlan \/ \E t \in Tabs, archive \in BOOLEAN : ChangePlan(t, archive)
  PROVE  PlanInv'
<1>1. PICK read \in Nat :
        /\ read <= plan.version /\ NumberFree(read + 1)
        /\ plan' \in Plans /\ plan'.version = read + 1
        /\ revisions' = Append(revisions, Snapshot(NoRows))
  <2>1. CASE CreatePlan
    <3>1. /\ plan' = [plan EXCEPT !.version = 0 + 1] /\ NumberFree(0 + 1) /\ plan.version = 0
          /\ revisions' = Append(revisions, Snapshot(NoRows))
      BY <2>1 DEF CreatePlan, Revise
    <3>2. plan' \in Plans /\ plan'.version = 0 + 1
      BY <3>1, Types DEF Plans
    <3>3. 0 \in Nat /\ 0 <= plan.version
      BY <3>1
    <3> QED
      BY <3>1, <3>2, <3>3
  <2>2. ASSUME NEW t \in Tabs, NEW archive \in BOOLEAN, ChangePlan(t, archive)
        PROVE  \E read \in Nat :
                 /\ read <= plan.version /\ NumberFree(read + 1)
                 /\ plan' \in Plans /\ plan'.version = read + 1
                 /\ revisions' = Append(revisions, Snapshot(NoRows))
    <3> DEFINE read == session[t].plan
    <3>1. read \in Nat /\ read <= plan.version
      BY Types DEF SessionSound
    <3>2. /\ plan' = [version |-> read + 1, archived |-> plan.archived \/ archive]
          /\ NumberFree(read + 1) /\ revisions' = Append(revisions, Snapshot(NoRows))
      BY <2>2 DEF ChangePlan
    <3>3. plan' \in Plans /\ plan'.version = read + 1
      BY <3>1, <3>2 DEF Plans
    <3> HIDE DEF read
    <3> QED
      BY <3>1, <3>2, <3>3
  <2> QED
    BY <2>1, <2>2
<1>2. /\ plan.version <= plan'.version
      /\ revisions' \in Seq([Items -> Nat \cup {Absent}])
      /\ RevisionPerVersion' /\ revisions'[Len(revisions')] = Snapshot(NoRows)
  BY <1>1, IdleSession, Revised
<1>3. /\ UNCHANGED <<items, mastery, evidence, credited, raced>>
      /\ session' \in [Tabs -> Sessions]
      /\ \A u \in Tabs : session'[u] = session[u] \/ session'[u] = Idle
  BY IdleSession DEF CreatePlan, ChangePlan, Put, PlanInv, TypeOK
<1>4. TypeOK'
  BY <1>1, <1>2, <1>3 DEF PlanInv, TypeOK
<1>5. NewestRevisionIsPlan'
  BY <1>2, <1>3, IdleSession DEF NewestRevisionIsPlan, Snapshot, Exists
<1>6. CreditsSound' /\ EvidenceChain' /\ \A i \in Items : Exists(i) => Exists(i)'
  BY <1>3 DEF PlanInv, CreditsSound, MinutesCredited, EvidenceChain, Exists
<1> QED
  BY <1>2, <1>3, <1>4, <1>5, <1>6, WriteStep

\* A new item is written together with the plan (phase1.py:340-380).
LEMMA CreateItemStep ==
  ASSUME PlanAssumption, PlanInv, NEW t \in Tabs, NEW i \in Items, CreateItem(t, i)
  PROVE  PlanInv'
<1> DEFINE new == [minutes |-> 0, version |-> 1]
           read == session[t].plan
           rows == [NoRows EXCEPT ![i] = new]
<1>1. read \in Nat /\ read <= plan.version
  BY Types DEF SessionSound
<1>2. /\ plan' = [plan EXCEPT !.version = read + 1] /\ NumberFree(read + 1)
      /\ revisions' = Append(revisions, Snapshot(rows))
      /\ items' = [items EXCEPT ![i] = new] /\ ~Exists(i)
      /\ Put(t, Idle) /\ UNCHANGED <<mastery, evidence, credited, raced>>
  BY DEF CreateItem, Revise
<1>3. plan' \in Plans /\ plan'.version = read + 1
  BY <1>1, <1>2, Types DEF Plans
<1>4. /\ new \in Rows /\ new.version = 1 /\ new.minutes = 0
      /\ rows \in [Items -> Rows] /\ rows[i] = new /\ Held(rows) = {i}
  BY IdleSession DEF Rows, Held, NoRows
<1> HIDE DEF new, rows, read
<1>5. /\ plan.version <= plan'.version
      /\ revisions' \in Seq([Items -> Nat \cup {Absent}])
      /\ RevisionPerVersion' /\ revisions'[Len(revisions')] = Snapshot(rows)
  BY <1>1, <1>2, <1>3, <1>4, Revised
<1>6. /\ items' \in [Items -> Rows] /\ items'[i] = new
      /\ \A j \in Items \ {i} : items'[j] = items[j]
  BY <1>2, <1>4 DEF PlanInv, TypeOK
<1>7. /\ session' \in [Tabs -> Sessions]
      /\ \A u \in Tabs : session'[u] = session[u] \/ session'[u] = Idle
  BY <1>2, IdleSession DEF Put, PlanInv, TypeOK
<1>8. TypeOK'
  BY <1>2, <1>3, <1>5, <1>6, <1>7 DEF PlanInv, TypeOK
<1>9. NewestRevisionIsPlan'
  <2>1. \A j \in Items : Snapshot(rows)[j] = IF Exists(j)' THEN items'[j].minutes ELSE Absent
    BY <1>4, <1>6 DEF Snapshot, Exists
  <2> QED
    BY <1>5, <2>1 DEF NewestRevisionIsPlan
<1>10. CreditsSound' /\ EvidenceChain' /\ \A j \in Items : Exists(j) => Exists(j)'
  <2>1. \A j \in Items : Exists(j) => Exists(j)'
    BY <1>2, <1>6 DEF Exists
  <2>2. EvidenceChain'
    BY <1>2 DEF PlanInv, EvidenceChain
  <2>3. credited[i] = 0
    BY <1>2 DEF PlanInv, CreditsSound
  <2>4. CreditsSound'
    BY <1>2, <1>4, <1>6, <2>1, <2>3 DEF PlanInv, CreditsSound, MinutesCredited, Exists
  <2> QED
    BY <2>1, <2>2, <2>4
<1>11. \A u \in Tabs : \A j \in Held(session[u].rows) : items'[j] = items[j]
  BY <1>2, <1>6, Types DEF SessionSound, Held
<1> QED
  BY <1>2, <1>5, <1>7, <1>8, <1>9, <1>10, <1>11, WriteStep

\* What a request writes of the items it holds (phase1.py:280-319, 1070, phase3.py:474).
LEMMA ItemsWritten ==
  ASSUME PlanAssumption, PlanInv, NEW t \in Tabs, WriteItems(session[t])
  PROVE  /\ plan' \in Plans /\ plan.version <= plan'.version
         /\ items' \in [Items -> Rows] /\ credited' \in [Items -> Nat] /\ raced' \in SUBSET Items
         /\ revisions' \in Seq([Items -> Nat \cup {Absent}])
         /\ RevisionPerVersion' /\ NewestRevisionIsPlan' /\ CreditsSound'
         /\ \A i \in Items : Exists(i) => Exists(i)'
         /\ \A i \in Items : i \notin Held(session[t].rows) => items'[i] = items[i]
<1> DEFINE s == session[t]
           held == Held(s.rows)
           new == [i \in Items |-> IF i \in held THEN Changed(s.rows[i], s.change, s.value)
                                                 ELSE s.rows[i]]
<1>1. /\ s \in Sessions /\ SessionSound(s) /\ s.rows \in [Items -> Rows]
      /\ s.plan \in Nat /\ s.value \in Nat /\ s.plan <= plan.version
  BY Types DEF SessionSound
<1>2. /\ items' = [i \in Items |-> IF i \in held THEN Written(i, s.rows[i], new[i]) ELSE items[i]]
      /\ credited' = [i \in Items |->
           IF i \notin held THEN credited[i]
           ELSE IF s.change = "minutes" THEN s.value ELSE credited[i] + s.value]
      /\ raced' = raced \cup {i \in held : s.rows[i] # items[i]}
      /\ IF held = {} THEN UNCHANGED <<plan, revisions>> ELSE Revise(s.plan, new)
  BY DEF WriteItems
<1>3. \A i \in Items : s.rows[i].minutes \in Nat /\ s.rows[i].version \in Nat
  BY <1>1 DEF Rows
<1>4. \A i \in held :
        /\ new[i] \in Rows /\ new[i].version = s.rows[i].version + 1
        /\ new[i].minutes = IF s.change = "minutes" THEN s.value ELSE s.rows[i].minutes + s.value
  BY <1>1, <1>3 DEF Changed, Rows, Held
<1>5. new \in [Items -> Rows] /\ Held(new) = held
  BY <1>1, <1>3, <1>4 DEF Held
<1>6. \A i \in held :
        /\ items'[i] \in Rows /\ items'[i].version = s.rows[i].version + 1
        /\ items'[i].minutes = IF new[i].minutes = s.rows[i].minutes THEN items[i].minutes
                                                                    ELSE new[i].minutes
  <2> TAKE i \in held
  <2>1. i \in Items /\ new[i] \in Rows /\ items[i].minutes \in Nat
        /\ new[i].version = s.rows[i].version + 1
    BY <1>4, Types DEF Held
  <2>2. items'[i] = Written(i, s.rows[i], new[i])
    BY <1>2, <2>1
  <2> HIDE DEF new, s
  <2> QED
    BY <2>1, <2>2 DEF Written, Rows
<1>7. \A i \in Items : i \notin held => items'[i] = items[i] /\ credited'[i] = credited[i]
  BY <1>2
<1>8. held \in SUBSET Items
  BY DEF Held
<1> HIDE DEF new, held
<1>9. items' \in [Items -> Rows]
  <2>1. \A i \in Items : items'[i] \in Rows
    BY <1>6, <1>7, Types
  <2> QED
    BY <1>2, <2>1
<1>10. credited' \in [Items -> Nat] /\ raced' \in SUBSET Items
  BY <1>1, <1>2, <1>8, Types DEF PlanInv, TypeOK
<1>11. \A i \in Items : Exists(i) => Exists(i)'
  <2>1. \A i \in held : items'[i].version > 0
    BY <1>3, <1>6, <1>8
  <2> QED
    BY <1>7, <2>1 DEF Exists
<1>12. CreditsSound'
  <2>1. \A i \in held : i \notin raced' => items'[i].minutes = credited'[i]
    <3> SUFFICES ASSUME NEW i \in held, i \notin raced' PROVE items'[i].minutes = credited'[i]
      OBVIOUS
    <3>1. s.rows[i] = items[i] /\ i \notin raced /\ i \in Items
      BY <1>2, <1>8
    <3>2. items[i].minutes = credited[i] /\ credited[i] \in Nat
      BY <3>1, Types DEF PlanInv, CreditsSound, MinutesCredited
    <3>3. credited'[i] = new[i].minutes
      BY <1>2, <1>4, <3>1, <3>2
    <3> QED
      BY <1>6, <3>1, <3>3
  <2>2. \A i \in Items \ held : i \notin raced' => items'[i].minutes = credited'[i]
    BY <1>2, <1>7 DEF PlanInv, CreditsSound, MinutesCredited
  <2>3. \A i \in Items : ~Exists(i)' => credited'[i] = 0
    <3>1. \A i \in held : Exists(i)
      BY <1>1 DEF SessionSound, held
    <3> QED
      BY <1>7, <1>11, <3>1 DEF PlanInv, CreditsSound
  <2> QED
    BY <2>1, <2>2, <2>3 DEF CreditsSound, MinutesCredited
<1>13. CASE held = {}
  <2>1. plan' = plan /\ revisions' = revisions /\ \A i \in Items : items'[i] = items[i]
    BY <1>2, <1>7, <1>13
  <2>2. raced' = raced
    BY <1>2, <1>13
  <2>3. RevisionPerVersion' /\ NewestRevisionIsPlan'
    BY <2>1, <2>2 DEF PlanInv, RevisionPerVersion, NewestRevisionIsPlan, Exists
  <2>4. plan' \in Plans /\ plan.version <= plan'.version
        /\ revisions' \in Seq([Items -> Nat \cup {Absent}])
    BY <2>1, Types DEF PlanInv, TypeOK
  <2> QED
    BY <1>7, <1>9, <1>10, <1>11, <1>12, <2>3, <2>4 DEF held
<1>14. CASE held # {}
  <2>1. /\ plan' = [plan EXCEPT !.version = s.plan + 1] /\ NumberFree(s.plan + 1)
        /\ revisions' = Append(revisions, Snapshot(new))
    BY <1>2, <1>14 DEF Revise
  <2>2. plan' \in Plans /\ plan'.version = s.plan + 1
    BY <1>1, <2>1, Types DEF Plans
  <2>3. /\ plan.version <= plan'.version
        /\ revisions' \in Seq([Items -> Nat \cup {Absent}])
        /\ RevisionPerVersion' /\ revisions'[Len(revisions')] = Snapshot(new)
    BY <1>1, <1>5, <2>1, <2>2, Revised
  <2>4. NewestRevisionIsPlan'
    <3>1. \A i \in held : i \notin raced' => items'[i].minutes = new[i].minutes
      BY <1>2, <1>6, <1>8
    <3>2. \A i \in held : Exists(i)'
      BY <1>3, <1>6, <1>8 DEF Exists
    <3>3. \A i \in Items \ held : Exists(i)' = Exists(i)
      BY <1>7 DEF Exists
    <3>4. \A i \in Items \ raced' :
            Snapshot(new)[i] = IF Exists(i)' THEN items'[i].minutes ELSE Absent
      BY <1>5, <1>7, <3>1, <3>2, <3>3 DEF Snapshot
    <3> QED
      BY <2>3, <3>4 DEF NewestRevisionIsPlan
  <2> QED
    BY <1>7, <1>9, <1>10, <1>11, <1>12, <2>2, <2>3, <2>4 DEF held
<1> QED
  BY <1>13, <1>14

\* An approval under way keeps every row that another request writes away from it.
LEMMA OthersLocked ==
  ASSUME PlanInv, NEW t \in Tabs, Locks(session[t])
  PROVE  \A u \in Tabs \ {t} : Locks(session[u]) =>
           \A i \in Held(session[u].rows) : i \notin Held(session[t].rows)
BY DEF PlanInv, RowsExclusive, Apart, Held

\* A request commits what it holds (phase1.py:1060-1110).
LEMMA CommitStep ==
  ASSUME PlanAssumption, PlanInv, NEW t \in Tabs, Commit(t)
  PROVE  PlanInv'
<1>1. /\ WriteItems(session[t]) /\ Put(t, Idle) /\ UNCHANGED <<mastery, evidence>>
      /\ Locks(session[t])
  BY DEF Commit, Locks
<1>2. /\ plan' \in Plans /\ plan.version <= plan'.version
      /\ items' \in [Items -> Rows] /\ credited' \in [Items -> Nat] /\ raced' \in SUBSET Items
      /\ revisions' \in Seq([Items -> Nat \cup {Absent}])
      /\ RevisionPerVersion' /\ NewestRevisionIsPlan' /\ CreditsSound'
      /\ \A i \in Items : Exists(i) => Exists(i)'
      /\ \A i \in Items : i \notin Held(session[t].rows) => items'[i] = items[i]
  BY <1>1, ItemsWritten
<1>3. /\ session' \in [Tabs -> Sessions] /\ session'[t] = Idle
      /\ \A u \in Tabs \ {t} : session'[u] = session[u]
  BY <1>1, IdleSession DEF Put, PlanInv, TypeOK
<1>4. TypeOK' /\ EvidenceChain'
  BY <1>1, <1>2, <1>3 DEF PlanInv, TypeOK, EvidenceChain
<1>5. \A u \in Tabs : session'[u] = session[u] /\ Locks(session[u]) =>
        \A i \in Held(session[u].rows) : items'[i] = items[i]
  BY <1>1, <1>2, <1>3, IdleSession, OthersLocked DEF Held
<1>6. \A u \in Tabs : session'[u] = session[u] \/ session'[u] = Idle
  BY <1>3
<1> QED
  BY <1>1, <1>2, <1>4, <1>5, <1>6, WriteStep

\* An approval replaces the level it read, and the evidence records both
\* (phase3.py:509-538).
LEMMA CommitApprovalStep ==
  ASSUME PlanAssumption, PlanInv, NEW t \in Tabs, NEW new \in Levels, CommitApproval(t, new)
  PROVE  PlanInv'
<1> DEFINE entry == [previous |-> session[t].level, new |-> new]
<1>1. /\ WriteItems(session[t]) /\ Put(t, Idle) /\ Locks(session[t])
      /\ session[t].stage = "assessed" /\ MasteryAsRead(session[t].level)
      /\ mastery' = new /\ evidence' = Append(evidence, entry)
  BY DEF CommitApproval, Assess, Locks
<1>2. /\ plan' \in Plans /\ plan.version <= plan'.version
      /\ items' \in [Items -> Rows] /\ credited' \in [Items -> Nat] /\ raced' \in SUBSET Items
      /\ revisions' \in Seq([Items -> Nat \cup {Absent}])
      /\ RevisionPerVersion' /\ NewestRevisionIsPlan' /\ CreditsSound'
      /\ \A i \in Items : Exists(i) => Exists(i)'
      /\ \A i \in Items : i \notin Held(session[t].rows) => items'[i] = items[i]
  BY <1>1, ItemsWritten
<1>3. /\ session' \in [Tabs -> Sessions] /\ session'[t] = Idle
      /\ \A u \in Tabs \ {t} : session'[u] = session[u]
  BY <1>1, IdleSession DEF Put, PlanInv, TypeOK
<1>4. entry \in Evidence /\ entry.previous = session[t].level /\ entry.new = new
  BY Types DEF Evidence, Sessions
<1> HIDE DEF entry
<1>5. /\ evidence' \in Seq(Evidence) /\ Len(evidence') = Len(evidence) + 1
      /\ \A n \in 1 .. Len(evidence) : evidence'[n] = evidence[n]
      /\ evidence'[Len(evidence) + 1] = entry
      /\ DOMAIN evidence' = 1 .. Len(evidence) + 1
  <2>1. evidence \in Seq(Evidence)
    BY DEF PlanInv, TypeOK
  <2> QED
    BY <1>1, <1>4, <2>1, AppendProperties
<1>6. session[t].level = mastery
  BY <1>1 DEF PlanInv, LevelsSound, MasteryAsRead
<1>7. EvidenceChain'
  <2>1. Len(evidence) \in Nat /\ DOMAIN evidence = 1 .. Len(evidence)
    BY Types
  <2>2. entry.previous = IF Len(evidence) = 0 THEN Unlearned ELSE evidence[Len(evidence)].new
    <3>1. evidence = << >> <=> Len(evidence) = 0
      BY EmptySeq DEF PlanInv, TypeOK
    <3> QED
      BY <1>4, <1>6, <3>1 DEF PlanInv, EvidenceChain
  <2>3. \A n \in 1 .. Len(evidence) + 1 :
          evidence'[n].previous = IF n = 1 THEN Unlearned ELSE evidence'[n - 1].new
    <3> SUFFICES ASSUME NEW n \in 1 .. Len(evidence) + 1
                 PROVE  evidence'[n].previous = IF n = 1 THEN Unlearned ELSE evidence'[n - 1].new
      OBVIOUS
    <3>1. CASE n = Len(evidence) + 1
      <4>1. n = 1 <=> Len(evidence) = 0
        BY <2>1, <3>1
      <4>2. n # 1 => n - 1 \in 1 .. Len(evidence) /\ n - 1 = Len(evidence)
        BY <2>1, <3>1
      <4> QED
        BY <1>5, <2>2, <3>1, <4>1, <4>2
    <3>2. CASE n \in 1 .. Len(evidence)
      <4>1. n # 1 => n - 1 \in 1 .. Len(evidence)
        BY <2>1, <3>2
      <4> QED
        BY <1>5, <2>1, <3>2, <4>1 DEF PlanInv, EvidenceChain
    <3> QED
      BY <2>1, <3>1, <3>2
  <2>4. evidence' # << >> /\ mastery' = evidence'[Len(evidence')].new
    BY <1>1, <1>4, <1>5, <2>1
  <2> QED
    BY <1>5, <2>3, <2>4 DEF EvidenceChain
<1>8. TypeOK'
  BY <1>1, <1>2, <1>3, <1>5 DEF PlanInv, TypeOK, Proposals
<1>9. \A u \in Tabs : session'[u] = session[u] /\ Locks(session[u]) =>
        \A i \in Held(session[u].rows) : items'[i] = items[i]
  BY <1>1, <1>2, <1>3, IdleSession, OthersLocked DEF Held
<1>10. \A u \in Tabs : session'[u].stage = "assessed" => session[u].level = Unlearned
  <2> SUFFICES ASSUME NEW u \in Tabs, session'[u].stage = "assessed"
               PROVE  session[u].level = Unlearned
    OBVIOUS
  <2>1. u # t /\ session[u].stage = "assessed"
    BY <1>3, IdleSession
  <2> QED
    BY <1>1, <2>1 DEF PlanInv, LevelsSound
<1>11. \A u \in Tabs : session'[u] = session[u] \/ session'[u] = Idle
  BY <1>3
<1> QED
  BY <1>2, <1>7, <1>8, <1>9, <1>10, <1>11, WriteStep
-----------------------------------------------------------------------------
(* The invariant, and what follows from it.                                *)

\* It holds before there is a plan.
LEMMA PlanStart == ASSUME PlanAssumption, Init PROVE PlanInv
<1> USE DEF Init
<1>1. TypeOK
  BY IdleSession DEF TypeOK, Plans, Proposals
<1>2. RevisionPerVersion /\ NewestRevisionIsPlan /\ EvidenceChain
  BY DEF RevisionPerVersion, NewestRevisionIsPlan, EvidenceChain
<1>3. CreditsSound
  BY DEF CreditsSound, MinutesCredited, NoRows
<1>4. SessionsSound
  <2>1. plan.version = 0 /\ \A t \in Tabs : session[t] = Idle
    OBVIOUS
  <2>2. SessionSound(Idle)
    BY <2>1, IdleSession DEF SessionSound
  <2> QED
    BY <2>1, <2>2 DEF SessionsSound
<1>5. RowsExclusive /\ LevelsSound
  BY IdleSession DEF RowsExclusive, Apart, LevelsSound
<1> QED
  BY <1>1, <1>2, <1>3, <1>4, <1>5 DEF PlanInv

\* Every step keeps it.
LEMMA PlanSteps == ASSUME PlanAssumption, PlanInv, [Next]_vars PROVE PlanInv'
<1>1. CASE CreatePlan
  BY <1>1, PlanStep
<1>2. ASSUME NEW t \in Tabs,
             \/ ReadPlan(t) \/ LockPlan(t) \/ ReadMastery(t) \/ Commit(t) \/ Refuse(t)
             \/ \E i \in Items : CreateItem(t, i) \/ \E value \in Deltas : LockItem(t, i, value)
             \/ \E archive \in BOOLEAN : ChangePlan(t, archive)
             \/ \E S \in SUBSET Items : ReadItems(t, S)
             \/ \E change \in Changes, value \in Deltas : Flush(t, change, value)
             \/ \E new \in Levels : CommitApproval(t, new)
      PROVE  PlanInv'
  BY <1>2, FreshSteps, LockOnStep, CommitStep, CreateItemStep, LockItemStep, PlanStep, FlushStep,
     CommitApprovalStep
<1>3. CASE UNCHANGED vars
  BY <1>3 DEF vars, PlanInv, TypeOK, RevisionPerVersion, NewestRevisionIsPlan, CreditsSound,
              MinutesCredited, SessionsSound, SessionSound, RowsExclusive, Apart, Locks, Held,
              EvidenceChain, LevelsSound, Exists
<1> QED
  BY <1>1, <1>2, <1>3 DEF Next

\* The inductive invariant is one of the specification.
LEMMA PlanInvariance == ASSUME PlanAssumption PROVE Spec => []PlanInv
<1>1. Init => PlanInv
  BY PlanStart
<1>2. PlanInv /\ [Next]_vars => PlanInv'
  BY PlanSteps
<1> QED
  BY <1>1, <1>2, PTL DEF Spec

(* However edits, completions and approvals overlap, each version of the    *)
(* plan has one revision, the newest shows the plan as it stands wherever   *)
(* no request wrote from an older row, and the evidence leads without a gap *)
(* to the present level (phase1.py:280-319, 818, phase3.py:509-538).        *)
THEOREM HistoryAlwaysAgrees == Spec => []HistoryAgrees
<1>1. PlanInv => HistoryAgrees
  BY DEF PlanInv, HistoryAgrees
<1> QED
  BY <1>1, PlanInvariance, PlanAssumption, PTL

(* No minutes are lost or counted twice, except at items that a request     *)
(* wrote from an older row (phase1.py:1070, phase3.py:474).                 *)
THEOREM MinutesAlwaysCredited == Spec => []MinutesCredited
<1>1. PlanInv => MinutesCredited
  BY DEF PlanInv, CreditsSound
<1> QED
  BY <1>1, PlanInvariance, PlanAssumption, PTL

(* An approval never writes from an older row, whatever edits and           *)
(* completions do to the same items (phase3.py:463-472, phase1.py:852).     *)
THEOREM ApprovalsAreCurrent == Spec => ApprovalsNeverRace
<1> DEFINE Kept ==
      \A t \in Tabs : Approving(t) /\ items' # items /\ session'[t] = Idle => raced' = raced
<1>1. ASSUME PlanInv, [Next]_vars PROVE Kept
  <2> SUFFICES ASSUME NEW t \in Tabs, Approving(t), items' # items, session'[t] = Idle
               PROVE  raced' = raced
    OBVIOUS
  <2>1. session[t] # Idle /\ Locks(session[t]) /\ session[t].change = "approval"
    BY IdleSession DEF Approving, Writing, Locks
  <2>2. ASSUME NEW u \in Tabs, u # t, NEW s, Put(u, s) PROVE FALSE
    <3>1. session'[t] = session[t]
      BY <1>1, <2>2 DEF Put, PlanInv, TypeOK
    <3> QED
      BY <2>1, <3>1
  <2>3. CASE UNCHANGED items \/ UNCHANGED raced
    BY <2>3
  <2>4. ASSUME NEW u \in Tabs, WriteItems(session[u]), Put(u, Idle) PROVE raced' = raced
    <3>1. u = t
      BY <2>2, <2>4
    <3>2. \A i \in Held(session[t].rows) : session[t].rows[i] = items[i]
      BY <1>1, <2>1, Types DEF SessionSound
    <3>3. raced' = raced \cup {i \in Held(session[t].rows) : session[t].rows[i] # items[i]}
      BY <2>4, <3>1 DEF WriteItems
    <3> QED
      BY <3>2, <3>3
  <2> QED
    BY <1>1, <2>3, <2>4 DEF Next, vars, CreatePlan, ReadPlan, LockPlan, ReadMastery, Refuse,
       CreateItem, LockItem, ChangePlan, ReadItems, Flush, Commit, CommitApproval
<1>2. PlanInv /\ [Next]_vars => [Kept]_vars
  BY <1>1
<1> HIDE DEF Kept
<1>3. Spec => [][Kept]_vars
  BY <1>2, PlanInvariance, PlanAssumption, PTL DEF Spec
<1> QED
  BY <1>3 DEF Kept, ApprovalsNeverRace
-----------------------------------------------------------------------------
(* The schedule: the requests of LessonSchedule.                           *)

\* A lesson that is not there yet has an empty row.
AbsentIsEmpty == \A l \in Lessons : lessons[l].status = "ABSENT" => lessons[l] = NoRow

\* A request has read a lesson that is there, and a lesson keeps its link.
ReadsSound ==
  \A r \in Requests : reads[r].stage = "lesson" =>
    /\ reads[r].lesson \in Lessons
    /\ lessons[reads[r].lesson].status # "ABSENT"
    /\ lessons[reads[r].lesson].link = reads[r].row.link

\* OneReplacement without counting: the lessons that are to come after a rescheduled one.
ReplacedOnce ==
  \A l \in Lessons \ overlapped :
    /\ lessons[l].status # "RESCHEDULED" => \A m \in Lessons : lessons[m].from # l
    /\ lessons[l].status = "RESCHEDULED" =>
         \E n \in Lessons : \A m \in Lessons : lessons[m].from = l <=> m = n
    /\ \A m \in Lessons : lessons[m].from = l => lessons[m].link = lessons[l].link

\* What a lesson costs, in cents times minutes.
Exact(row) == row.price * (IF row.status = "COMPLETED" THEN row.actual ELSE row.planned)

\* What ReceivableFollowsRules says of one row.
RowFollows(row) ==
  /\ row.status = "RESCHEDULED" => ~row.overridden
  /\ ~row.overridden /\ row.status \in {"PLANNED", "COMPLETED"} =>
       2 * (60 * row.receivable - Exact(row)) \in -59 .. 60
  /\ ~row.overridden /\ row.status \in {"CANCELED", "RESCHEDULED"} => row.receivable = 0

\* The invariant of the schedule.
ScheduleInv ==
  /\ ScheduleTypeOK
  /\ AbsentIsEmpty
  /\ ReadsSound
  /\ ArchivedIsUnused
  /\ ReplacedOnce
  /\ ReceivableFollowsRules
-----------------------------------------------------------------------------
\* Rounding to the nearest cent.
LEMMA Rounded ==
  ASSUME NEW x \in Nat
  PROVE  (x + 30) \div 60 \in Nat /\ 2 * (60 * ((x + 30) \div 60) - x) \in -59 .. 60
OBVIOUS

\* Numbers multiply to numbers.
LEMMA Products ==
  ASSUME NEW x \in Nat, NEW y \in Nat
  PROVE  x * y \in Nat
OBVIOUS

\* What refreshing does to a row.
LEMMA RefreshedRow ==
  ASSUME NEW row \in LessonRows
  PROVE  /\ Refreshed(row) \in LessonRows
         /\ Refreshed(row).status = row.status /\ Refreshed(row).link = row.link
         /\ Refreshed(row).from = row.from
         /\ (row.status = "RESCHEDULED" => ~row.overridden) => RowFollows(Refreshed(row))
<1>1. /\ row.price * row.actual \in Nat /\ row.price * row.planned \in Nat
      /\ row.status \in LessonStatus /\ row.overridden \in BOOLEAN /\ row.receivable \in Nat
  BY Products DEF LessonRows
<1> DEFINE due == IF row.overridden THEN row.receivable
                  ELSE IF row.status \in {"CANCELED", "RESCHEDULED"} THEN 0
                  ELSE IF row.status = "COMPLETED" THEN Calculated(row.price, row.actual)
                  ELSE Calculated(row.price, row.planned)
<1>2. Refreshed(row) = [row EXCEPT !.receivable = due]
  BY <1>1 DEF Refreshed, LessonRows
<1>3. due \in Nat
  BY <1>1, Rounded DEF Calculated
<1>4. ~row.overridden /\ row.status \in {"PLANNED", "COMPLETED"} =>
        2 * (60 * due - Exact(row)) \in -59 .. 60
  <2>1. CASE row.status = "COMPLETED"
    <3>1. ~row.overridden => due = (row.price * row.actual + 30) \div 60
      BY <2>1 DEF Calculated
    <3> HIDE DEF due
    <3> QED
      BY <1>1, <2>1, <3>1, Rounded DEF Exact
  <2>2. CASE row.status = "PLANNED"
    <3>1. ~row.overridden => due = (row.price * row.planned + 30) \div 60
      BY <2>2 DEF Calculated
    <3> HIDE DEF due
    <3> QED
      BY <1>1, <2>2, <3>1, Rounded DEF Exact
  <2> QED
    BY <2>1, <2>2
<1>5. ~row.overridden /\ row.status \in {"CANCELED", "RESCHEDULED"} => due = 0
  OBVIOUS
<1> HIDE DEF due
<1> DEFINE new == [row EXCEPT !.receivable = due]
<1>6. new \in LessonRows
  BY <1>3 DEF LessonRows
<1>7. /\ new.status = row.status /\ new.link = row.link /\ new.from = row.from
      /\ new.overridden = row.overridden /\ new.receivable = due
      /\ new.price = row.price /\ new.actual = row.actual /\ new.planned = row.planned
  BY DEF LessonRows
<1> HIDE DEF new
<1>8. Refreshed(row) = new
  BY <1>2 DEF new
<1>9. Exact(new) = Exact(row)
  BY <1>7 DEF Exact
<1> QED
  BY <1>4, <1>5, <1>6, <1>7, <1>8, <1>9 DEF RowFollows

\* Nothing is there for the placeholders to differ in.
LEMMA Placeholders ==
  /\ NoRow \in LessonRows /\ NoRow.status = "ABSENT" /\ NoRow.from = NoLesson
  /\ NoReads \in Reads /\ NoReads.stage = "idle"
<1>1. \E k : k \in Links
  <2> PICK s \in Students, t \in Subjects : TRUE
    BY ScheduleAssumption DEF ScheduleAssumption
  <2>1. <<s, t>> \in Links
    BY DEF Links
  <2> QED
    BY <2>1
<1>2. NoRow.link \in Links
  BY <1>1 DEF NoRow
<1>3. NoRow \in LessonRows /\ NoRow.status = "ABSENT" /\ NoRow.from = NoLesson
  BY <1>1 DEF NoRow, LessonRows, LessonStatus
<1> QED
  BY <1>2, <1>3 DEF NoReads, Reads, Record

\* What an UPDATE with new leaves of the lesson x that a request has read as read: its
\* link and where it comes from, and exactly new if nobody wrote it in the meantime.
Updated(x, read, new) ==
  /\ lessons'[x].link = lessons[x].link /\ lessons'[x].from = lessons[x].from
  /\ lessons'[x].status = IF new.status = read.status THEN lessons[x].status ELSE new.status
  /\ \/ x \in overlapped' /\ lessons[x].link \in overlapped'
     \/ lessons[x] = read /\ \A c \in DOMAIN NoRow \ {"version"} : lessons'[x][c] = new[c]

\* The rows that are written at once with the one that was read are those in more.
Effect(r, new, more) ==
  /\ ScheduleTypeOK'
  /\ UNCHANGED <<students, subjects, links>>
  /\ reads' = [reads EXCEPT ![r] = NoReads]
  /\ overlapped \subseteq overlapped'
  /\ Updated(reads[r].lesson, reads[r].row, new)
  /\ \A l \in Lessons \ {reads[r].lesson} :
       lessons'[l] = IF l \in DOMAIN more THEN more[l] ELSE lessons[l]

\* The row that an UPDATE makes of the row as it is now.
MergeOf(row, now, read, new) ==
  /\ row \in LessonRows
  /\ row.link = now.link /\ row.from = now.from
  /\ row.status = IF new.status = read.status THEN now.status ELSE new.status
  /\ now = read => \A c \in DOMAIN NoRow \ {"version"} : row[c] = new[c]

\* A row as an UPDATE leaves it.
LEMMA MergedRow ==
  ASSUME NEW now \in LessonRows, NEW read \in LessonRows, NEW new \in LessonRows,
         new.link = read.link, new.from = read.from
  PROVE  MergeOf(Merged(now, read, [new EXCEPT !.version = read.version + 1]), now, read, new)
<1> DEFINE next == [new EXCEPT !.version = read.version + 1]
<1>1. /\ next \in LessonRows
      /\ \A c \in DOMAIN NoRow \ {"version"} : next[c] = new[c]
  BY DEF LessonRows, NoRow
<1>2. next.link = read.link /\ next.from = read.from /\ next.status = new.status
  BY DEF LessonRows
<1> HIDE DEF next
<1> DEFINE row == Merged(now, read, next)
<1>3. row \in LessonRows
  BY <1>1 DEF Merged, LessonRows
<1>4. row.link = now.link /\ row.from = now.from
  BY <1>1, <1>2 DEF Merged, LessonRows
<1>5. row.status = IF new.status = read.status THEN now.status ELSE new.status
  BY <1>1, <1>2 DEF Merged, LessonRows
<1>6. now = read => row = next
  BY <1>1 DEF Merged, LessonRows
<1> QED
  BY <1>1, <1>3, <1>4, <1>5, <1>6 DEF MergeOf, next

\* Writing a lesson has this effect.
LEMMA WriteEffect ==
  ASSUME ScheduleInv, NEW r \in Requests, reads[r].stage = "lesson", NEW new \in LessonRows,
         new.link = reads[r].row.link, new.from = reads[r].row.from,
         NEW more, DOMAIN more \subseteq Lessons,
         \A l \in DOMAIN more : more[l] \in LessonRows /\ lessons[l].status = "ABSENT",
         WriteLesson(r, new, more)
  PROVE  Effect(r, new, more)
<1> DEFINE x == reads[r].lesson
           read == reads[r].row
           row == Merged(lessons[x], read, [new EXCEPT !.version = read.version + 1])
<1>1. /\ x \in Lessons /\ lessons[x].status # "ABSENT" /\ lessons[x].link = read.link
      /\ read \in LessonRows /\ lessons[x] \in LessonRows
  BY DEF ScheduleInv, ReadsSound, ScheduleTypeOK, Reads
<1>2. MergeOf(row, lessons[x], read, new)
  <2> HIDE DEF x, read
  <2>1. new.link = read.link /\ new.from = read.from
    BY DEF read
  <2> QED
    BY <1>1, <2>1, MergedRow
<1>3. /\ lessons' = [l \in Lessons |-> IF l = x THEN row
                       ELSE IF l \in DOMAIN more THEN more[l] ELSE lessons[l]]
      /\ overlapped' = IF lessons[x] = read THEN overlapped ELSE overlapped \cup {x, read.link}
      /\ reads' = [reads EXCEPT ![r] = NoReads]
      /\ UNCHANGED <<students, subjects, links>>
  BY DEF WriteLesson, Done
<1> HIDE DEF x, read, row
<1>4. /\ lessons' \in [Lessons -> LessonRows]
      /\ lessons'[x] = row
      /\ \A l \in Lessons \ {x} : lessons'[l] = IF l \in DOMAIN more THEN more[l] ELSE lessons[l]
  <2>1. lessons \in [Lessons -> LessonRows]
    BY DEF ScheduleInv, ScheduleTypeOK
  <2> QED
    BY <1>1, <1>2, <1>3, <2>1 DEF MergeOf
<1>5. /\ overlapped' \subseteq Lessons \cup Links
      /\ overlapped \subseteq overlapped'
      /\ lessons[x] # read => x \in overlapped' /\ lessons[x].link \in overlapped'
  <2>1. lessons[x].link \in Links /\ overlapped \subseteq Lessons \cup Links
    BY <1>1 DEF ScheduleInv, ScheduleTypeOK, LessonRows
  <2> QED
    BY <1>1, <1>3, <2>1
<1>6. reads' \in [Requests -> Reads]
  BY <1>3, Placeholders DEF ScheduleInv, ScheduleTypeOK
<1>7. ScheduleTypeOK'
  BY <1>3, <1>4, <1>5, <1>6 DEF ScheduleInv, ScheduleTypeOK
<1>8. Updated(x, read, new)
  BY <1>2, <1>4, <1>5 DEF Updated, MergeOf
<1> QED
  BY <1>3, <1>4, <1>5, <1>7, <1>8 DEF Effect, x, read

\* No lesson disappears, and what was read of the others stays true.
LEMMA EffectKeeps ==
  ASSUME ScheduleInv, NEW r \in Requests, reads[r].stage = "lesson", NEW new, NEW more,
         Effect(r, new, more),
         new.status \in {reads[r].row.status, "COMPLETED", "CANCELED", "RESCHEDULED"},
         \A l \in DOMAIN more : lessons[l].status = "ABSENT" /\ more[l].status # "ABSENT"
  PROVE  AbsentIsEmpty' /\ ReadsSound'
<1> DEFINE x == reads[r].lesson
<1>1. /\ x \in Lessons /\ lessons[x].status # "ABSENT"
      /\ lessons'[x].status # "ABSENT" /\ lessons'[x].link = lessons[x].link
  BY DEF ScheduleInv, ReadsSound, Effect, Updated
<1>2. \A l \in Lessons \ {x} : lessons'[l] = IF l \in DOMAIN more THEN more[l] ELSE lessons[l]
  BY DEF Effect
<1>3. \A q \in Requests : reads'[q] = IF q = r THEN NoReads ELSE reads[q]
  BY DEF Effect, ScheduleInv, ScheduleTypeOK
<1> HIDE DEF x
<1>4. AbsentIsEmpty'
  BY <1>1, <1>2 DEF ScheduleInv, AbsentIsEmpty
<1>5. \A l \in Lessons : lessons[l].status # "ABSENT" =>
        lessons'[l].status # "ABSENT" /\ lessons'[l].link = lessons[l].link
  BY <1>1, <1>2
<1>6. ReadsSound'
  BY <1>3, <1>5, Placeholders DEF ScheduleInv, ReadsSound
<1> QED
  BY <1>4, <1>6

\* Receivables follow the rules if those of the rows that are written do.
LEMMA EffectFollows ==
  ASSUME ScheduleInv, NEW r \in Requests, reads[r].stage = "lesson", NEW new, NEW more,
         Effect(r, new, more), RowFollows(new), \A l \in DOMAIN more : RowFollows(more[l])
  PROVE  ReceivableFollowsRules'
<1> DEFINE x == reads[r].lesson
<1>1. /\ \A l \in Lessons \ {x} : lessons'[l] = IF l \in DOMAIN more THEN more[l] ELSE lessons[l]
      /\ overlapped \subseteq overlapped'
  BY DEF Effect
<1>2. ASSUME x \notin overlapped' PROVE RowFollows(lessons'[x])
  <2>1. \A c \in DOMAIN NoRow \ {"version"} : lessons'[x][c] = new[c]
    BY <1>2 DEF Effect, Updated
  <2>2. /\ lessons'[x].status = new.status /\ lessons'[x].overridden = new.overridden
        /\ lessons'[x].receivable = new.receivable /\ lessons'[x].price = new.price
        /\ lessons'[x].actual = new.actual /\ lessons'[x].planned = new.planned
    BY <2>1 DEF NoRow
  <2> QED
    BY <2>2 DEF RowFollows, Exact
<1>3. \A l \in Lessons \ overlapped : RowFollows(lessons[l])
  BY DEF ScheduleInv, ReceivableFollowsRules, RowFollows, Exact
<1> HIDE DEF x
<1>4. \A l \in Lessons \ overlapped' : RowFollows(lessons'[l])
  BY <1>1, <1>2, <1>3
<1> QED
  BY <1>4 DEF ReceivableFollowsRules, RowFollows, Exact

\* A link that is archived gets no planned lesson.
LEMMA EffectUnused ==
  ASSUME ScheduleInv, NEW r \in Requests, reads[r].stage = "lesson", NEW new, NEW more,
         Effect(r, new, more), new.status = "PLANNED" => reads[r].row.status = "PLANNED",
         \A l \in DOMAIN more : more[l].link = reads[r].row.link /\ reads[r].row.status = "PLANNED"
  PROVE  ArchivedIsUnused'
<1> DEFINE x == reads[r].lesson
           read == reads[r].row
<1>1. x \in Lessons /\ lessons[x].link = read.link
  BY DEF ScheduleInv, ReadsSound
<1>2. /\ \A l \in Lessons \ {x} : lessons'[l] = IF l \in DOMAIN more THEN more[l] ELSE lessons[l]
      /\ overlapped \subseteq overlapped' /\ UNCHANGED <<subjects, links>>
      /\ Updated(x, read, new)
  BY DEF Effect
<1> SUFFICES ASSUME NEW k \in Links \ overlapped', links[k] = "ARCHIVED", NEW m \in Planned(k)'
             PROVE  FALSE
  BY <1>2 DEF ScheduleInv, ArchivedIsUnused, HasPlanned
<1>3. m \in Lessons /\ lessons'[m].link = k /\ lessons'[m].status = "PLANNED"
  BY DEF Planned, OfLink
<1>4. Planned(k) = {}
  BY <1>2 DEF ScheduleInv, ArchivedIsUnused, HasPlanned
<1>5. lessons[x].link = k => read.status # "PLANNED"
  <2>1. lessons[x].link = k => lessons[x] = read
    BY <1>2 DEF Updated
  <2> QED
    BY <1>1, <1>4, <2>1 DEF Planned, OfLink
<1>6. CASE m = x
  <2>1. lessons[x].link = k
    BY <1>2, <1>3, <1>6 DEF Updated
  <2>2. lessons[x] = read /\ (new.status = read.status \/ new.status = "PLANNED")
    BY <1>2, <1>3, <1>6, <2>1 DEF Updated
  <2>3. read.status = "PLANNED"
    BY <1>2, <1>3, <1>6, <2>2 DEF Updated
  <2> QED
    BY <1>5, <2>1, <2>3
<1>7. CASE m # x /\ m \in DOMAIN more
  BY <1>1, <1>2, <1>3, <1>5, <1>7
<1>8. CASE m # x /\ m \notin DOMAIN more
  BY <1>2, <1>3, <1>4, <1>8 DEF Planned, OfLink
<1> QED
  BY <1>6, <1>7, <1>8

\* An UPDATE alone that neither begins nor ends a rescheduling.
LEMMA UpdateReplaced ==
  ASSUME ScheduleInv, NEW r \in Requests, reads[r].stage = "lesson", NEW new,
         Effect(r, new, None),
         new.status # reads[r].row.status =>
           new.status # "RESCHEDULED" /\ reads[r].row.status # "RESCHEDULED"
  PROVE  ReplacedOnce'
<1> DEFINE x == reads[r].lesson
           read == reads[r].row
<1>1. x \in Lessons /\ Updated(x, read, new) /\ overlapped \subseteq overlapped'
  BY DEF ScheduleInv, ReadsSound, Effect
<1>2. \A l \in Lessons \ {x} : lessons'[l] = lessons[l]
  BY DEF Effect, None
<1>3. \A l \in Lessons : lessons'[l].from = lessons[l].from /\ lessons'[l].link = lessons[l].link
  BY <1>1, <1>2 DEF Updated
<1>4. \A l \in Lessons \ overlapped' :
        lessons'[l].status = "RESCHEDULED" <=> lessons[l].status = "RESCHEDULED"
  BY <1>1, <1>2 DEF Updated
<1> HIDE DEF x, read
<1> QED
  BY <1>1, <1>3, <1>4 DEF ScheduleInv, ReplacedOnce

\* A rescheduling gives the lesson its one replacement.
LEMMA RescheduleReplaced ==
  ASSUME ScheduleInv, NEW r \in Requests, reads[r].stage = "lesson", NEW new, NEW n \in Lessons,
         NEW next, Effect(r, new, [m \in {n} |-> next]),
         lessons[n].status = "ABSENT", next.status = "PLANNED",
         next.from = reads[r].lesson, next.link = reads[r].row.link,
         reads[r].row.status = "PLANNED", new.status = "RESCHEDULED"
  PROVE  ReplacedOnce'
<1> DEFINE x == reads[r].lesson
           read == reads[r].row
<1>1. /\ x \in Lessons /\ lessons[x].status # "ABSENT" /\ lessons[x].link = read.link
      /\ Updated(x, read, new) /\ overlapped \subseteq overlapped'
  BY DEF ScheduleInv, ReadsSound, Effect
<1>2. x # n /\ lessons[n].from = NoLesson /\ NoLesson \notin Lessons
  BY <1>1, Placeholders, ScheduleAssumption DEF ScheduleInv, AbsentIsEmpty, ScheduleAssumption
<1>3. lessons'[n] = next /\ \A l \in Lessons \ {x, n} : lessons'[l] = lessons[l]
  BY <1>2 DEF Effect
<1>4. /\ lessons'[x].from = lessons[x].from /\ lessons'[x].link = lessons[x].link
      /\ x \notin overlapped' => lessons[x] = read /\ lessons'[x].status = "RESCHEDULED"
  BY <1>1 DEF Updated
<1>5. next.from = x /\ next.link = lessons[x].link /\ read.status = "PLANNED"
  BY <1>1
<1> HIDE DEF x, read
<1> SUFFICES ASSUME NEW l \in Lessons \ overlapped'
             PROVE  /\ lessons'[l].status # "RESCHEDULED" => \A m \in Lessons : lessons'[m].from # l
                    /\ lessons'[l].status = "RESCHEDULED" =>
                         \E o \in Lessons : \A m \in Lessons : lessons'[m].from = l <=> m = o
                    /\ \A m \in Lessons : lessons'[m].from = l => lessons'[m].link = lessons'[l].link
  BY DEF ReplacedOnce
<1>6. /\ lessons[l].status # "RESCHEDULED" => \A m \in Lessons : lessons[m].from # l
      /\ lessons[l].status = "RESCHEDULED" =>
           \E o \in Lessons : \A m \in Lessons : lessons[m].from = l <=> m = o
      /\ \A m \in Lessons : lessons[m].from = l => lessons[m].link = lessons[l].link
  BY <1>1 DEF ScheduleInv, ReplacedOnce
<1>7. CASE l = x
  <2>1. \A m \in Lessons : lessons'[m].from = x <=> m = n
    BY <1>2, <1>3, <1>4, <1>5, <1>6, <1>7
  <2> QED
    BY <1>2, <1>3, <1>4, <1>5, <1>7, <2>1
<1>8. CASE l = n
  <2>1. \A m \in Lessons : lessons'[m].from # n
    BY <1>2, <1>3, <1>4, <1>5, <1>6, <1>8
  <2> QED
    BY <1>3, <1>8, <2>1
<1>9. CASE l \notin {x, n}
  <2>1. \A m \in Lessons : lessons'[m].from = l <=> lessons[m].from = l
    BY <1>2, <1>3, <1>4, <1>5, <1>9
  <2>2. \A m \in Lessons : lessons[m].from = l => lessons'[m].link = lessons[m].link
    BY <1>2, <1>3, <1>4, <1>9
  <2> QED
    BY <1>3, <1>6, <1>9, <2>1, <2>2
<1> QED
  BY <1>7, <1>8, <1>9
-----------------------------------------------------------------------------
\* An UPDATE of a lesson that was planned, or that keeps its status.
LEMMA PlainWrite ==
  ASSUME ScheduleInv, NEW r \in Requests, reads[r].stage = "lesson", NEW new \in LessonRows,
         new.link = reads[r].row.link, new.from = reads[r].row.from, RowFollows(new),
         \/ new.status = reads[r].row.status
         \/ reads[r].row.status = "PLANNED" /\ new.status \in {"COMPLETED", "CANCELED"},
         WriteLesson(r, new, None)
  PROVE  ScheduleInv'
<1>1. DOMAIN None = {}
  BY DEF None
<1>2. Effect(r, new, None)
  BY <1>1, WriteEffect
<1>3. AbsentIsEmpty' /\ ReadsSound'
  BY <1>1, <1>2, EffectKeeps
<1>4. ReceivableFollowsRules'
  BY <1>1, <1>2, EffectFollows
<1>5. ArchivedIsUnused'
  BY <1>1, <1>2, EffectUnused
<1>6. ReplacedOnce'
  BY <1>2, UpdateReplaced
<1>7. ScheduleTypeOK'
  BY <1>2 DEF Effect
<1> QED
  BY <1>3, <1>4, <1>5, <1>6, <1>7 DEF ScheduleInv

\* The row that a request has read.
LEMMA ReadRow ==
  ASSUME ScheduleInv, NEW r \in Requests
  PROVE  reads[r].row \in LessonRows /\ reads[r].link \in Links
BY DEF ScheduleInv, ScheduleTypeOK, Reads

\* update_lesson keeps the invariant of the schedule.
LEMMA UpdateStep ==
  ASSUME ScheduleInv, NEW r \in Requests, NEW planned \in Minutes, NEW price \in Prices,
         UpdateLesson(r, planned, price)
  PROVE  ScheduleInv'
<1> DEFINE read == reads[r].row
           row == [read EXCEPT !.planned = planned, !.price = price]
<1>1. read \in LessonRows /\ reads[r].stage = "lesson" /\ read.status = "PLANNED"
  BY ReadRow DEF UpdateLesson, IsPlanned
<1>2. row \in LessonRows
  BY <1>1, ScheduleAssumption DEF ScheduleAssumption, LessonRows
<1>3. row.status = "PLANNED" /\ row.link = read.link /\ row.from = read.from
  BY <1>1 DEF LessonRows
<1>4. WriteLesson(r, Refreshed(row), None)
  BY DEF UpdateLesson
<1> HIDE DEF row
<1> QED
  BY <1>1, <1>2, <1>3, <1>4, RefreshedRow, PlainWrite

\* complete_lesson keeps the invariant of the schedule.
LEMMA CompleteStep ==
  ASSUME ScheduleInv, NEW r \in Requests, NEW actual \in Minutes, CompleteLesson(r, actual)
  PROVE  ScheduleInv'
<1> DEFINE read == reads[r].row
           row == [read EXCEPT !.status = "COMPLETED", !.actual = actual]
<1>1. read \in LessonRows /\ reads[r].stage = "lesson" /\ read.status = "PLANNED"
  BY ReadRow DEF CompleteLesson, IsPlanned
<1>2. row \in LessonRows
  BY <1>1, ScheduleAssumption DEF ScheduleAssumption, LessonRows, LessonStatus
<1>3. row.status = "COMPLETED" /\ row.link = read.link /\ row.from = read.from
  BY <1>1 DEF LessonRows
<1>4. WriteLesson(r, Refreshed(row), None)
  BY DEF CompleteLesson
<1> HIDE DEF row
<1> QED
  BY <1>1, <1>2, <1>3, <1>4, RefreshedRow, PlainWrite

\* A lesson that ends before it takes place.
LEMMA EndedRow ==
  ASSUME NEW row \in LessonRows, NEW status \in {"CANCELED", "RESCHEDULED"}
  PROVE  /\ Ended(row, status) \in LessonRows /\ Ended(row, status).status = status
         /\ Ended(row, status).link = row.link /\ Ended(row, status).from = row.from
         /\ RowFollows(Ended(row, status))
<1> DEFINE ended == [row EXCEPT !.status = status, !.overridden = FALSE]
<1>1. ended \in LessonRows
  BY DEF LessonRows, LessonStatus
<1>2. ended.status = status /\ ended.link = row.link /\ ended.from = row.from /\ ~ended.overridden
  BY DEF LessonRows
<1>3. Ended(row, status) = Refreshed(ended)
  BY DEF Ended
<1> HIDE DEF ended
<1> QED
  BY <1>1, <1>2, <1>3, RefreshedRow

\* cancel_lesson keeps the invariant of the schedule.
LEMMA CancelStep ==
  ASSUME ScheduleInv, NEW r \in Requests, CancelLesson(r)
  PROVE  ScheduleInv'
<1>1. /\ reads[r].row \in LessonRows /\ reads[r].stage = "lesson"
      /\ reads[r].row.status = "PLANNED" /\ WriteLesson(r, Ended(reads[r].row, "CANCELED"), None)
  BY ReadRow DEF CancelLesson, IsPlanned
<1> QED
  BY <1>1, EndedRow, PlainWrite

\* The first row of a lesson.
FirstRow(link, planned, price, from) ==
  [NoRow EXCEPT !.status = "PLANNED", !.link = link, !.planned = planned, !.price = price,
                !.from = from, !.version = 1]

\* The row of a lesson that is planned.
LEMMA PlannedRow ==
  ASSUME NEW link \in Links, NEW planned \in Nat, NEW price \in Nat,
         NEW from \in Lessons \cup {NoLesson}
  PROVE  LET row == Refreshed(FirstRow(link, planned, price, from)) IN
         /\ row \in LessonRows /\ row.status = "PLANNED" /\ row.link = link
         /\ row.from = from /\ RowFollows(row)
<1> DEFINE first == FirstRow(link, planned, price, from)
<1>1. first \in LessonRows
  BY Placeholders DEF LessonRows, LessonStatus, FirstRow
<1>2. first.status = "PLANNED" /\ first.link = link /\ first.from = from
  BY Placeholders DEF LessonRows, FirstRow
<1> HIDE DEF first
<1>3. /\ Refreshed(first) \in LessonRows /\ Refreshed(first).status = "PLANNED"
      /\ Refreshed(first).link = link /\ Refreshed(first).from = from
      /\ RowFollows(Refreshed(first))
  BY <1>1, <1>2, RefreshedRow
<1> QED
  BY <1>3 DEF first

\* reschedule_lesson ends the lesson and inserts its replacement at once.
LEMMA RescheduleStep ==
  ASSUME ScheduleInv, NEW r \in Requests, NEW n \in Lessons, NEW planned \in Minutes,
         RescheduleLesson(r, n, planned)
  PROVE  ScheduleInv'
<1> DEFINE read == reads[r].row
           next == Refreshed(FirstRow(read.link, planned, read.price, reads[r].lesson))
           new == Ended(read, "RESCHEDULED")
           more == [m \in {n} |-> next]
<1>1. /\ read \in LessonRows /\ reads[r].stage = "lesson" /\ read.status = "PLANNED"
      /\ lessons[n].status = "ABSENT" /\ WriteLesson(r, new, more)
  BY ReadRow DEF RescheduleLesson, IsPlanned, FirstRow
<1>2. /\ next \in LessonRows /\ next.status = "PLANNED" /\ next.link = read.link
      /\ next.from = reads[r].lesson /\ RowFollows(next)
  <2>1. /\ read.link \in Links /\ planned \in Nat /\ read.price \in Nat
        /\ reads[r].lesson \in Lessons \cup {NoLesson}
    BY <1>1, ScheduleAssumption
    DEF ScheduleAssumption, LessonRows, ScheduleInv, ScheduleTypeOK, Reads
  <2> QED
    BY <2>1, PlannedRow
<1>3. /\ new \in LessonRows /\ new.status = "RESCHEDULED" /\ new.link = read.link
      /\ new.from = read.from /\ RowFollows(new)
  BY <1>1, EndedRow
<1> HIDE DEF next, new
<1>4. DOMAIN more = {n} /\ more[n] = next
  OBVIOUS
<1>5. Effect(r, new, more)
  <2> HIDE DEF more
  <2> QED
    BY <1>1, <1>2, <1>3, <1>4, WriteEffect
<1>6. ReplacedOnce'
  BY <1>1, <1>2, <1>3, <1>5, RescheduleReplaced
<1> HIDE DEF more
<1>7. AbsentIsEmpty' /\ ReadsSound'
  BY <1>1, <1>2, <1>3, <1>4, <1>5, EffectKeeps
<1>8. ReceivableFollowsRules'
  BY <1>1, <1>2, <1>3, <1>4, <1>5, EffectFollows
<1>9. ArchivedIsUnused'
  BY <1>1, <1>2, <1>3, <1>4, <1>5, EffectUnused
<1>10. ScheduleTypeOK'
  BY <1>5 DEF Effect
<1> QED
  BY <1>6, <1>7, <1>8, <1>9, <1>10 DEF ScheduleInv

\* update_lesson_pricing keeps the invariant of the schedule.
LEMMA PricingStep ==
  ASSUME ScheduleInv, NEW r \in Requests, NEW price \in Prices, UpdateLessonPricing(r, price)
  PROVE  ScheduleInv'
<1> DEFINE read == reads[r].row
           row == [read EXCEPT !.price = price, !.overridden = FALSE]
<1>1. read \in LessonRows /\ reads[r].stage = "lesson"
  BY ReadRow DEF UpdateLessonPricing, Billable
<1>2. row \in LessonRows
  BY <1>1, ScheduleAssumption DEF ScheduleAssumption, LessonRows
<1>3. /\ row.status = read.status /\ row.link = read.link /\ row.from = read.from
      /\ ~row.overridden
  BY <1>1 DEF LessonRows
<1>4. WriteLesson(r, Refreshed(row), None)
  BY DEF UpdateLessonPricing
<1> HIDE DEF row
<1> QED
  BY <1>1, <1>2, <1>3, <1>4, RefreshedRow, PlainWrite

\* override_lesson_receivable keeps the invariant of the schedule.
LEMMA OverrideStep ==
  ASSUME ScheduleInv, NEW r \in Requests, NEW amount \in Amounts, OverrideReceivable(r, amount)
  PROVE  ScheduleInv'
<1> DEFINE read == reads[r].row
           row == [read EXCEPT !.receivable = amount, !.overridden = TRUE]
<1>1. read \in LessonRows /\ reads[r].stage = "lesson" /\ read.status # "RESCHEDULED"
  BY ReadRow DEF OverrideReceivable, Billable
<1>2. row \in LessonRows
  BY <1>1, BillingAssumption DEF BillingAssumption, LessonRows
<1>3. /\ row.status = read.status /\ row.link = read.link /\ row.from = read.from
      /\ row.overridden
  BY <1>1 DEF LessonRows
<1>4. WriteLesson(r, row, None)
  BY DEF OverrideReceivable
<1>5. RowFollows(row)
  BY <1>1, <1>3 DEF RowFollows
<1> HIDE DEF row
<1> QED
  BY <1>1, <1>2, <1>3, <1>4, <1>5, PlainWrite

\* reset_lesson_receivable keeps the invariant of the schedule.
LEMMA ResetStep ==
  ASSUME ScheduleInv, NEW r \in Requests, ResetReceivable(r)
  PROVE  ScheduleInv'
<1> DEFINE read == reads[r].row
           row == [read EXCEPT !.overridden = FALSE]
<1>1. read \in LessonRows /\ reads[r].stage = "lesson"
  BY ReadRow DEF ResetReceivable
<1>2. row \in LessonRows
  BY <1>1 DEF LessonRows
<1>3. /\ row.status = read.status /\ row.link = read.link /\ row.from = read.from
      /\ ~row.overridden
  BY <1>1 DEF LessonRows
<1>4. WriteLesson(r, Refreshed(row), None)
  BY DEF ResetReceivable
<1> HIDE DEF row
<1> QED
  BY <1>1, <1>2, <1>3, <1>4, RefreshedRow, PlainWrite
-----------------------------------------------------------------------------
\* A step that only reads, or forgets what was read.
LEMMA ForgetOrReadStep ==
  ASSUME ScheduleInv, UNCHANGED <<students, subjects, links, lessons, overlapped>>,
         reads' \in [Requests -> Reads], ReadsSound'
  PROVE  ScheduleInv'
<1>1. ScheduleTypeOK'
  BY DEF ScheduleInv, ScheduleTypeOK
<1>2. AbsentIsEmpty' /\ ReplacedOnce' /\ ReceivableFollowsRules'
  BY DEF ScheduleInv, AbsentIsEmpty, ReplacedOnce, ReceivableFollowsRules
<1>3. ArchivedIsUnused'
  BY DEF ScheduleInv, ArchivedIsUnused, HasPlanned, Planned, OfLink
<1> QED
  BY <1>1, <1>2, <1>3 DEF ScheduleInv

\* A request that is over holds nothing that could be wrong.
LEMMA ForgottenSound ==
  ASSUME ScheduleInv, NEW r \in Requests, Done(r), lessons' = lessons
  PROVE  reads' \in [Requests -> Reads] /\ ReadsSound'
<1>1. reads' = [reads EXCEPT ![r] = NoReads] /\ reads \in [Requests -> Reads]
  BY DEF Done, ScheduleInv, ScheduleTypeOK
<1>2. reads' \in [Requests -> Reads]
  BY <1>1, Placeholders
<1>3. \A q \in Requests : reads'[q] = IF q = r THEN NoReads ELSE reads[q]
  BY <1>1
<1> QED
  BY <1>2, <1>3, Placeholders DEF ReadsSound, ScheduleInv

\* A request that ends without a write.
LEMMA ForgetStep ==
  ASSUME ScheduleInv, NEW r \in Requests, Done(r),
         UNCHANGED <<students, subjects, links, lessons, overlapped>>
  PROVE  ScheduleInv'
BY ForgottenSound, ForgetOrReadStep

\* Reading a link writes nothing.
LEMMA ReadLinkStep ==
  ASSUME ScheduleInv, NEW r \in Requests, NEW k \in Links, ReadLink(r, k)
  PROVE  ScheduleInv'
<1> DEFINE s == [NoReads EXCEPT !.stage = "link", !.link = k, !.student = students[k[1]],
                    !.subject = subjects[k[2]], !.linked = links[k],
                    !.planned = HasPlanned(k), !.ofStudent = StudentHasPlanned(k[1]),
                    !.ofSubject = SubjectInUse(k[2])]
<1>1. /\ reads' = [reads EXCEPT ![r] = s]
      /\ UNCHANGED <<students, subjects, links, lessons, overlapped>>
  BY DEF ReadLink
<1>2. /\ HasPlanned(k) \in BOOLEAN /\ StudentHasPlanned(k[1]) \in BOOLEAN
      /\ SubjectInUse(k[2]) \in BOOLEAN
  BY DEF HasPlanned, StudentHasPlanned, SubjectInUse
<1>3. students[k[1]] \in Record /\ subjects[k[2]] \in Record /\ links[k] \in Record
  BY DEF ScheduleInv, ScheduleTypeOK, Links
<1>4. s \in Reads /\ s.stage = "link"
  <2> DEFINE a == students[k[1]]
             b == subjects[k[2]]
             c == links[k]
             d == HasPlanned(k)
             e == StudentHasPlanned(k[1])
             f == SubjectInUse(k[2])
  <2>1. a \in Record /\ b \in Record /\ c \in Record
        /\ d \in BOOLEAN /\ e \in BOOLEAN /\ f \in BOOLEAN
    BY <1>2, <1>3
  <2>2. s = [NoReads EXCEPT !.stage = "link", !.link = k, !.student = a, !.subject = b,
               !.linked = c, !.planned = d, !.ofStudent = e, !.ofSubject = f]
    OBVIOUS
  <2> HIDE DEF a, b, c, d, e, f, s
  <2> QED
    BY <2>1, <2>2, Placeholders DEF Reads
<1> HIDE DEF s
<1>5. /\ reads' \in [Requests -> Reads]
      /\ \A q \in Requests : reads'[q] = IF q = r THEN s ELSE reads[q]
  BY <1>1, <1>4 DEF ScheduleInv, ScheduleTypeOK
<1>6. ReadsSound'
  BY <1>1, <1>4, <1>5 DEF ReadsSound, ScheduleInv
<1> QED
  BY <1>1, <1>5, <1>6, ForgetOrReadStep

\* Reading a lesson, which exists, writes nothing.
LEMMA ReadLessonStep ==
  ASSUME ScheduleInv, NEW r \in Requests, NEW l \in Lessons, ReadLesson(r, l)
  PROVE  ScheduleInv'
<1> DEFINE row == lessons[l]
           s == [NoReads EXCEPT !.stage = "lesson", !.lesson = l, !.row = row]
<1>1. /\ reads' = [reads EXCEPT ![r] = s] /\ row.status # "ABSENT"
      /\ UNCHANGED <<students, subjects, links, lessons, overlapped>>
  BY DEF ReadLesson
<1>2. row \in LessonRows
  BY DEF ScheduleInv, ScheduleTypeOK
<1>3. s \in Reads /\ s.lesson = l /\ s.row = row
  <2> HIDE DEF row
  <2> QED
    BY <1>2, Placeholders DEF Reads
<1> HIDE DEF s
<1>4. /\ reads' \in [Requests -> Reads]
      /\ \A q \in Requests : reads'[q] = IF q = r THEN s ELSE reads[q]
  BY <1>1, <1>3 DEF ScheduleInv, ScheduleTypeOK
<1>5. ReadsSound'
  BY <1>1, <1>3, <1>4 DEF ReadsSound, ScheduleInv
<1> QED
  BY <1>1, <1>4, <1>5, ForgetOrReadStep

\* A step on students, subjects or links.
LEMMA MarkStep ==
  ASSUME ScheduleInv, lessons' = lessons, overlapped \subseteq overlapped',
         overlapped' \subseteq Lessons \cup Links,
         students' \in [Students -> Record], subjects' \in [Subjects -> Record],
         links' \in [Links -> Record], reads' \in [Requests -> Reads], ReadsSound',
         \A k \in Links \ overlapped' :
           /\ links'[k] = "ARCHIVED" => links[k] = "ARCHIVED" \/ ~HasPlanned(k)
           /\ subjects'[k[2]] = "ARCHIVED" /\ links'[k] = "ACTIVE" =>
                subjects[k[2]] = "ARCHIVED" /\ links[k] = "ACTIVE"
  PROVE  ScheduleInv'
<1>1. ScheduleTypeOK'
  BY DEF ScheduleInv, ScheduleTypeOK
<1>2. AbsentIsEmpty' /\ ReplacedOnce' /\ ReceivableFollowsRules'
  BY DEF ScheduleInv, AbsentIsEmpty, ReplacedOnce, ReceivableFollowsRules
<1>3. ArchivedIsUnused'
  <2>1. \A k \in Links : Planned(k)' = Planned(k)
    BY DEF Planned, OfLink
  <2> QED
    BY <2>1 DEF ScheduleInv, ArchivedIsUnused, HasPlanned
<1> QED
  BY <1>1, <1>2, <1>3 DEF ScheduleInv

\* create_student and create_subject touch no link and no lesson.
LEMMA NewMarkStep ==
  ASSUME ScheduleInv, \/ \E s \in Students : CreateStudent(s)
                      \/ \E s \in Subjects : CreateSubject(s)
  PROVE  ScheduleInv'
<1>1. /\ UNCHANGED <<links, lessons, reads, overlapped>>
      /\ students' \in [Students -> Record] /\ subjects' \in [Subjects -> Record]
  BY DEF CreateStudent, CreateSubject, ScheduleInv, ScheduleTypeOK, Record
<1>2. \A k \in Links : subjects'[k[2]] = "ARCHIVED" => subjects[k[2]] = "ARCHIVED"
  BY DEF CreateStudent, CreateSubject, ScheduleInv, ScheduleTypeOK, Links
<1>3. /\ reads' \in [Requests -> Reads] /\ links' \in [Links -> Record]
      /\ overlapped' \subseteq Lessons \cup Links
  BY <1>1 DEF ScheduleInv, ScheduleTypeOK
<1>4. ReadsSound'
  BY <1>1 DEF ScheduleInv, ReadsSound
<1> QED
  BY <1>1, <1>2, <1>3, <1>4, MarkStep

\* Whoever decides by what is no longer so excuses links, and only then.
LEMMA Excused ==
  ASSUME ScheduleInv, NEW current, NEW ks \in SUBSET Links, Decided(current, ks)
  PROVE  /\ overlapped \subseteq overlapped' /\ overlapped' \subseteq Lessons \cup Links
         /\ \A k \in ks : k \notin overlapped' => current
BY DEF Decided, ScheduleInv, ScheduleTypeOK

\* create_student_subject makes an active link, whatever it has read.
LEMMA CreateLinkStep ==
  ASSUME ScheduleInv, NEW r \in Requests, CreateLink(r)
  PROVE  ScheduleInv'
<1> DEFINE k == reads[r].link
<1>1. /\ reads[r].subject = "ACTIVE" /\ links' = [links EXCEPT ![k] = "ACTIVE"]
      /\ Decided(students[k[1]] = reads[r].student /\ subjects[k[2]] = reads[r].subject, {k})
      /\ Done(r) /\ UNCHANGED <<students, subjects, lessons>>
  BY DEF CreateLink
<1>2. k \in Links
  BY ReadRow
<1>3. /\ overlapped \subseteq overlapped' /\ overlapped' \subseteq Lessons \cup Links
      /\ k \notin overlapped' => subjects[k[2]] = "ACTIVE"
  BY <1>1, <1>2, Excused
<1>4. reads' \in [Requests -> Reads] /\ ReadsSound'
  BY <1>1, ForgottenSound
<1> HIDE DEF k
<1>5. /\ links' \in [Links -> Record]
      /\ \A j \in Links : links'[j] = IF j = k THEN "ACTIVE" ELSE links[j]
  BY <1>1, <1>2 DEF ScheduleInv, ScheduleTypeOK, Record
<1>6. students' \in [Students -> Record] /\ subjects' \in [Subjects -> Record]
  BY <1>1 DEF ScheduleInv, ScheduleTypeOK
<1> QED
  BY <1>1, <1>3, <1>4, <1>5, <1>6, MarkStep

\* archive_student_subject: no lesson is planned on the link, or it is marked as overlapped.
LEMMA ArchiveLinkStep ==
  ASSUME ScheduleInv, NEW r \in Requests, ArchiveLink(r)
  PROVE  ScheduleInv'
<1> DEFINE k == reads[r].link
<1>1. /\ ~reads[r].planned /\ links' = [links EXCEPT ![k] = "ARCHIVED"]
      /\ Decided(HasPlanned(k) = reads[r].planned, {k})
      /\ Done(r) /\ UNCHANGED <<students, subjects, lessons>>
  BY DEF ArchiveLink, MayArchive
<1>2. k \in Links
  BY ReadRow
<1>3. /\ overlapped \subseteq overlapped' /\ overlapped' \subseteq Lessons \cup Links
      /\ k \notin overlapped' => ~HasPlanned(k)
  BY <1>1, <1>2, Excused
<1>4. reads' \in [Requests -> Reads] /\ ReadsSound'
  BY <1>1, ForgottenSound
<1> HIDE DEF k
<1>5. /\ links' \in [Links -> Record]
      /\ \A j \in Links : links'[j] = IF j = k THEN "ARCHIVED" ELSE links[j]
  BY <1>1, <1>2 DEF ScheduleInv, ScheduleTypeOK, Record
<1>6. students' \in [Students -> Record] /\ subjects' \in [Subjects -> Record]
  BY <1>1 DEF ScheduleInv, ScheduleTypeOK
<1> QED
  BY <1>1, <1>3, <1>4, <1>5, <1>6, MarkStep

\* archive_student keeps the invariant of the schedule.
LEMMA ArchiveStudentStep ==
  ASSUME ScheduleInv, NEW r \in Requests, ArchiveStudent(r)
  PROVE  ScheduleInv'
<1>1. /\ students' = [students EXCEPT ![reads[r].link[1]] = "ARCHIVED"]
      /\ Done(r) /\ UNCHANGED <<subjects, links, lessons, overlapped>>
  BY DEF ArchiveStudent
<1>2. overlapped' \subseteq Lessons \cup Links
  BY <1>1 DEF ScheduleInv, ScheduleTypeOK
<1>3. reads' \in [Requests -> Reads] /\ ReadsSound'
  BY <1>1, ForgottenSound
<1>4. /\ students' \in [Students -> Record] /\ subjects' \in [Subjects -> Record]
      /\ links' \in [Links -> Record]
  BY <1>1 DEF ScheduleInv, ScheduleTypeOK, Record
<1> QED
  BY <1>1, <1>2, <1>3, <1>4, MarkStep

\* archive_subject: none of its links is active, or they are all excused.
LEMMA ArchiveSubjectStep ==
  ASSUME ScheduleInv, NEW r \in Requests, ArchiveSubject(r)
  PROVE  ScheduleInv'
<1> DEFINE k == reads[r].link
           ks == {j \in Links : j[2] = k[2]}
<1>1. /\ ~reads[r].ofSubject
      /\ subjects' = [subjects EXCEPT ![k[2]] = "ARCHIVED"]
      /\ Decided(SubjectInUse(k[2]) = reads[r].ofSubject, ks)
      /\ Done(r) /\ UNCHANGED <<students, links, lessons>>
  BY DEF ArchiveSubject, SubjectUnused
<1>2. k \in Links
  BY ReadRow
<1>3. /\ overlapped \subseteq overlapped' /\ overlapped' \subseteq Lessons \cup Links
      /\ \A j \in ks : j \notin overlapped' => links[j] # "ACTIVE"
  <2>1. /\ overlapped \subseteq overlapped' /\ overlapped' \subseteq Lessons \cup Links
        /\ \A j \in ks : j \notin overlapped' => SubjectInUse(k[2]) = reads[r].ofSubject
    BY <1>1, Excused
  <2> QED
    BY <1>1, <2>1 DEF SubjectInUse
<1>4. reads' \in [Requests -> Reads] /\ ReadsSound'
  BY <1>1, ForgottenSound
<1> HIDE DEF k
<1>5. /\ students' \in [Students -> Record] /\ subjects' \in [Subjects -> Record]
      /\ links' \in [Links -> Record]
  BY <1>1 DEF ScheduleInv, ScheduleTypeOK, Record
<1>6. \A j \in Links : subjects'[j[2]] = IF j[2] = k[2] THEN "ARCHIVED" ELSE subjects[j[2]]
  BY <1>1, <1>2 DEF ScheduleInv, ScheduleTypeOK, Links
<1> QED
  BY <1>1, <1>3, <1>4, <1>5, <1>6, MarkStep

\* create_lesson: the link is active, or it is marked as overlapped.
LEMMA CreateLessonStep ==
  ASSUME ScheduleInv, NEW r \in Requests, NEW n \in Lessons, NEW planned \in Minutes,
         NEW price \in Prices, CreateLesson(r, n, planned, price)
  PROVE  ScheduleInv'
<1> DEFINE k == reads[r].link
           row == Refreshed(FirstRow(k, planned, price, NoLesson))
<1>1. k \in Links
  BY ReadRow
<1>2. /\ row \in LessonRows /\ row.status = "PLANNED" /\ row.link = k
      /\ row.from = NoLesson /\ RowFollows(row)
  <2>1. planned \in Nat /\ price \in Nat
    BY ScheduleAssumption DEF ScheduleAssumption
  <2> QED
    BY <1>1, <2>1, PlannedRow
<1>3. [NoRow EXCEPT !.status = "PLANNED", !.link = k, !.planned = planned, !.price = price,
                    !.version = 1] = FirstRow(k, planned, price, NoLesson)
  BY Placeholders DEF FirstRow, LessonRows
<1>4. /\ reads[r].linked = "ACTIVE" /\ lessons[n].status = "ABSENT"
      /\ lessons' = [lessons EXCEPT ![n] = row]
      /\ Decided(links[k] = reads[r].linked, {k})
      /\ Done(r) /\ UNCHANGED <<students, subjects, links>>
  BY <1>3 DEF CreateLesson
<1>5. /\ overlapped \subseteq overlapped' /\ overlapped' \subseteq Lessons \cup Links
      /\ k \notin overlapped' => links[k] = "ACTIVE"
  BY <1>1, <1>4, Excused
<1>6. /\ reads' \in [Requests -> Reads]
      /\ \A q \in Requests : reads'[q] = IF q = r THEN NoReads ELSE reads[q]
  BY <1>4, Placeholders DEF Done, ScheduleInv, ScheduleTypeOK
<1> HIDE DEF k, row
<1>7. /\ lessons' \in [Lessons -> LessonRows]
      /\ \A l \in Lessons : lessons'[l] = IF l = n THEN row ELSE lessons[l]
  BY <1>2, <1>4 DEF ScheduleInv, ScheduleTypeOK
<1>8. ScheduleTypeOK'
  BY <1>4, <1>5, <1>6, <1>7 DEF ScheduleInv, ScheduleTypeOK
<1>9. AbsentIsEmpty'
  BY <1>2, <1>7 DEF ScheduleInv, AbsentIsEmpty
<1>10. ReadsSound'
  BY <1>4, <1>6, <1>7, Placeholders DEF ScheduleInv, ReadsSound
<1>11. ArchivedIsUnused'
  <2> SUFFICES ASSUME NEW j \in Links \ overlapped', links[j] = "ARCHIVED", NEW m \in Planned(j)'
               PROVE  FALSE
    BY <1>4, <1>5 DEF ScheduleInv, ArchivedIsUnused, HasPlanned
  <2>1. m \in Lessons /\ lessons'[m].link = j /\ lessons'[m].status = "PLANNED"
    BY DEF Planned, OfLink
  <2>2. m # n
    BY <1>2, <1>5, <1>7, <2>1
  <2>3. m \in Planned(j)
    BY <1>7, <2>1, <2>2 DEF Planned, OfLink
  <2> QED
    BY <1>5, <2>3 DEF ScheduleInv, ArchivedIsUnused, HasPlanned
<1>12. ReplacedOnce'
  <2>1. lessons[n].from = NoLesson /\ NoLesson \notin Lessons
    BY <1>4, Placeholders, ScheduleAssumption DEF ScheduleInv, AbsentIsEmpty, ScheduleAssumption
  <2>2. \A m, l \in Lessons : lessons'[m].from = l <=> lessons[m].from = l
    BY <1>2, <1>7, <2>1
  <2>3. \A l \in Lessons : lessons'[l].status = "RESCHEDULED" <=> lessons[l].status = "RESCHEDULED"
    BY <1>2, <1>4, <1>7
  <2>4. \A l \in Lessons \ overlapped : \A m \in Lessons :
          lessons[m].from = l => lessons[m].link = lessons[l].link /\ l # n /\ m # n
    BY <1>4, <2>1 DEF ScheduleInv, ReplacedOnce
  <2>5. ASSUME NEW l \in Lessons \ overlapped'
        PROVE  /\ lessons'[l].status # "RESCHEDULED" => \A m \in Lessons : lessons'[m].from # l
               /\ lessons'[l].status = "RESCHEDULED" =>
                    \E o \in Lessons : \A m \in Lessons : lessons'[m].from = l <=> m = o
    BY <1>5, <2>2, <2>3 DEF ScheduleInv, ReplacedOnce
  <2>6. \A l \in Lessons \ overlapped' : \A m \in Lessons :
          lessons'[m].from = l => lessons'[m].link = lessons'[l].link
    BY <1>5, <1>7, <2>2, <2>4
  <2> QED
    BY <2>5, <2>6 DEF ReplacedOnce
<1>13. ReceivableFollowsRules'
  <2>1. \A l \in Lessons \ overlapped : RowFollows(lessons[l])
    BY DEF ScheduleInv, ReceivableFollowsRules, RowFollows, Exact
  <2>2. \A l \in Lessons \ overlapped' : RowFollows(lessons'[l])
    BY <1>2, <1>5, <1>7, <2>1
  <2> QED
    BY <2>2 DEF ReceivableFollowsRules, RowFollows, Exact
<1> QED
  BY <1>8, <1>9, <1>10, <1>11, <1>12, <1>13 DEF ScheduleInv

\* Initially there are no rows.
LEMMA ScheduleStart == ScheduleInit => ScheduleInv
<1> SUFFICES ASSUME ScheduleInit PROVE ScheduleInv
  OBVIOUS
<1> USE DEF ScheduleInit
<1>1. ScheduleTypeOK
  BY Placeholders DEF ScheduleTypeOK, Record
<1>2. \A l \in Lessons : lessons[l] = NoRow
  OBVIOUS
<1>3. AbsentIsEmpty /\ ReadsSound
  BY <1>2, Placeholders DEF AbsentIsEmpty, ReadsSound
<1>4. ArchivedIsUnused
  BY DEF ArchivedIsUnused
<1>5. ReplacedOnce
  BY <1>2, Placeholders, ScheduleAssumption DEF ReplacedOnce, ScheduleAssumption
<1>6. ReceivableFollowsRules
  BY <1>2, Placeholders DEF ReceivableFollowsRules
<1> QED
  BY <1>1, <1>3, <1>4, <1>5, <1>6 DEF ScheduleInv

\* The handlers of students, subjects, links and lessons.
LEMMA ScheduleStep == ScheduleInv /\ ScheduleNext => ScheduleInv'
<1> SUFFICES ASSUME ScheduleInv, ScheduleNext PROVE ScheduleInv'
  OBVIOUS
<1>1. CASE \/ \E s \in Students : CreateStudent(s)
           \/ \E s \in Subjects : CreateSubject(s)
  BY <1>1, NewMarkStep
<1>2. ASSUME NEW r \in Requests,
             CreateLink(r) \/ ArchiveLink(r) \/ ArchiveStudent(r) \/ ArchiveSubject(r)
      PROVE  ScheduleInv'
  BY <1>2, CreateLinkStep, ArchiveLinkStep, ArchiveStudentStep, ArchiveSubjectStep
<1>3. ASSUME NEW r \in Requests, CancelLesson(r) \/ RefuseLesson(r)
      PROVE  ScheduleInv'
  <2>1. CASE RefuseLesson(r)
    BY <2>1, ForgetStep DEF RefuseLesson
  <2> QED
    BY <1>3, <2>1, CancelStep
<1>4. ASSUME NEW r \in Requests,
             (\E k \in Links : ReadLink(r, k)) \/ (\E l \in Lessons : ReadLesson(r, l))
      PROVE  ScheduleInv'
  BY <1>4, ReadLinkStep, ReadLessonStep
<1>5. ASSUME NEW r \in Requests, NEW minutes \in Minutes,
             \/ CompleteLesson(r, minutes)
             \/ \E l \in Lessons : RescheduleLesson(r, l, minutes)
             \/ \E price \in Prices :
                  \/ UpdateLesson(r, minutes, price)
                  \/ \E l \in Lessons : CreateLesson(r, l, minutes, price)
      PROVE  ScheduleInv'
  BY <1>5, CompleteStep, RescheduleStep, UpdateStep, CreateLessonStep
<1> QED
  BY <1>1, <1>2, <1>3, <1>4, <1>5 DEF ScheduleNext
-----------------------------------------------------------------------------
(* Payments and allocations.                                               *)

\* The types of the payments.
PaymentTypes ==
  /\ payments \in [Payments -> PaymentRows]
  /\ allocations \in [Payments -> [Lessons -> Nat]]
  /\ paying \in [Requests -> Paying]

\* A payment that is not recorded pays nothing, and who has locked a payment is alone with
\* it and knows what it pays.
LocksSound ==
  /\ \A p \in Payments : payments[p].amount = 0 => \A l \in Lessons : allocations[p][l] = 0
  /\ \A r \in Requests : \A p \in Payments : paying[r].payment = p =>
       /\ paying[r].allocated = Allocated(p)
       /\ payments[p].amount > 0
       /\ \A q \in Requests : paying[q].payment = p => q = r

\* The invariant of the payments.
PaymentInv == PaymentTypes /\ AllocatedWithinPayment /\ LocksSound

\* The invariant that the theorems on lessons and payments rest on.
BillingInv == ScheduleInv /\ PaymentInv

\* What is allocated of a payment, as a sum.
LEMMA AllocatedSum ==
  /\ \A p : Allocated(p) = SumOver(allocations[p], Lessons)
  /\ \A p : Allocated(p)' = SumOver(allocations'[p], Lessons)
<1>1. \A p : Allocated(p) = SumOver(allocations[p], Lessons)
  BY DEF Allocated, SumOver
<1>2. \A p : Allocated(p)' = SumOver(allocations'[p], Lessons)
  BY DEF Allocated, SumOver, MapThenSumSet, MapThenFoldSet
<1> QED
  BY <1>1, <1>2

\* What is allocated is a number.
LEMMA AllocatedNat ==
  ASSUME PaymentTypes, NEW p \in Payments
  PROVE  Allocated(p) \in Nat
<1> DEFINE g == allocations[p]
<1>1. IsFiniteSet(Lessons) /\ \A l \in Lessons : g[l] \in Nat
  BY ScheduleAssumption DEF ScheduleAssumption, PaymentTypes
<1> HIDE DEF g
<1>2. SumOver(g, Lessons) \in Nat
  BY <1>1, SumOverNat
<1> QED
  BY <1>2, AllocatedSum DEF g

\* What is allocated after one more allocation.
LEMMA AllocatedMore ==
  ASSUME PaymentTypes, NEW p \in Payments, NEW l \in Lessons, NEW amount \in Nat,
         allocations[p][l] = 0, allocations' = [allocations EXCEPT ![p][l] = amount]
  PROVE  /\ allocations' \in [Payments -> [Lessons -> Nat]]
         /\ Allocated(p)' = Allocated(p) + amount
         /\ \A q \in Payments \ {p} : allocations'[q] = allocations[q]
         /\ \A q \in Payments \ {p} : Allocated(q)' = Allocated(q)
<1>1. /\ allocations' \in [Payments -> [Lessons -> Nat]]
      /\ allocations'[p] = [allocations[p] EXCEPT ![l] = amount]
      /\ \A q \in Payments \ {p} : allocations'[q] = allocations[q]
  BY DEF PaymentTypes
<1>2. \A q \in Payments \ {p} : Allocated(q)' = Allocated(q)
  BY <1>1, AllocatedSum
<1> DEFINE g == allocations[p]
           h == allocations'[p]
<1>3. /\ \A i \in Lessons : g[i] \in Int /\ h[i] \in Int
      /\ \A i \in Lessons \ {l} : h[i] = g[i]
      /\ g[l] = 0 /\ h[l] = amount
  BY <1>1 DEF PaymentTypes
<1>4. SumOver(h, Lessons) = SumOver(g, Lessons) - 0 + amount
  <2>1. IsFiniteSet(Lessons)
    BY ScheduleAssumption DEF ScheduleAssumption
  <2> HIDE DEF g, h
  <2>2. SumOver(h, Lessons) = SumOver(g, Lessons) - g[l] + h[l]
    BY <1>3, <2>1, SumOverChanged
  <2> QED
    BY <1>3, <2>2
<1>5. Allocated(p)' = Allocated(p) - 0 + amount
  BY <1>4, AllocatedSum
<1>6. Allocated(p) \in Nat
  BY AllocatedNat
<1> QED
  BY <1>1, <1>2, <1>5, <1>6

\* Who holds a payment.
LEMMA Holder ==
  ASSUME PaymentInv, NEW r \in Requests, paying[r].payment # NoPayment
  PROVE  /\ paying[r].payment \in Payments
         /\ paying[r].lesson # NoLesson => paying[r].lesson \in Lessons
BY DEF PaymentInv, PaymentTypes, LocksSound, Paying

\* The request lets its payment go.
LEMMA LetGo ==
  ASSUME PaymentTypes, NEW r \in Requests, EndPayment(r)
  PROVE  /\ paying' \in [Requests -> Paying]
         /\ \A q \in Requests : paying'[q] = IF q = r THEN NotPaying ELSE paying[q]
         /\ NotPaying.payment = NoPayment
BY DEF PaymentTypes, EndPayment, NotPaying, Paying

\* The schedule stays as it is when a request with a payment ends.
LEMMA EndStep ==
  ASSUME BillingInv, NEW r \in Requests, EndPayment(r)
  PROVE  ScheduleInv'
BY ForgetStep DEF BillingInv, EndPayment

\* add_payment_allocation: its holder alone adds to what it has read.
LEMMA AddAllocationStep ==
  ASSUME BillingInv, NEW r \in Requests, NEW amount \in Amounts, AddAllocation(r, amount)
  PROVE  BillingInv'
<1>1. ScheduleInv'
  BY EndStep DEF AddAllocation
<1>2. PaymentInv /\ PaymentTypes /\ LocksSound /\ AllocatedWithinPayment /\ amount \in Nat
  BY BillingAssumption DEF BillingInv, PaymentInv, BillingAssumption
<1>3. paying[r].payment \in Payments /\ paying[r].lesson \in Lessons
  BY <1>2, Holder DEF AddAllocation
<1>4. PICK p \in Payments, l \in Lessons : p = paying[r].payment /\ l = paying[r].lesson
  BY <1>3
<1>5. /\ allocations[p][l] = 0
      /\ paying[r].allocated + amount <= payments[p].amount
      /\ allocations' = [allocations EXCEPT ![p][l] = amount]
      /\ EndPayment(r) /\ payments' = payments
  BY <1>4 DEF AddAllocation
<1>6. /\ paying[r].allocated = Allocated(p) /\ payments[p].amount > 0
      /\ \A q \in Requests : paying[q].payment = p => q = r
  BY <1>2, <1>4 DEF LocksSound
<1>7. /\ paying' \in [Requests -> Paying]
      /\ \A q \in Requests : paying'[q] = IF q = r THEN NotPaying ELSE paying[q]
      /\ NotPaying.payment = NoPayment
  BY <1>2, <1>5, LetGo
<1>8. /\ allocations' \in [Payments -> [Lessons -> Nat]]
      /\ Allocated(p)' = Allocated(p) + amount
      /\ \A q \in Payments \ {p} : allocations'[q] = allocations[q]
      /\ \A q \in Payments \ {p} : Allocated(q)' = Allocated(q)
  BY <1>2, <1>5, AllocatedMore
<1>9. PaymentTypes'
  BY <1>2, <1>5, <1>7, <1>8 DEF PaymentTypes
<1>10. AllocatedWithinPayment'
  <2>1. ASSUME NEW q \in Payments PROVE Allocated(q)' <= payments'[q].amount
    <3>1. CASE q = p
      BY <1>5, <1>6, <1>8, <3>1
    <3>2. CASE q # p
      BY <1>2, <1>5, <1>8, <3>2 DEF AllocatedWithinPayment
    <3> QED
      BY <3>1, <3>2
  <2> QED
    BY <2>1 DEF AllocatedWithinPayment
<1>11. LocksSound'
  <2>1. \A q \in Payments : payments'[q].amount = 0 => \A i \in Lessons : allocations'[q][i] = 0
    BY <1>2, <1>5, <1>6, <1>8 DEF LocksSound
  <2>2. ASSUME NEW q \in Requests, NEW o \in Payments, paying'[q].payment = o
        PROVE  /\ paying'[q].allocated = Allocated(o)'
               /\ payments'[o].amount > 0
               /\ \A u \in Requests : paying'[u].payment = o => u = q
    <3>1. q # r /\ paying'[q] = paying[q] /\ o # p
      BY <1>6, <1>7, <2>2, BillingAssumption DEF BillingAssumption
    <3>2. Allocated(o)' = Allocated(o)
      BY <1>8, <3>1
    <3>3. /\ paying[q].allocated = Allocated(o) /\ payments[o].amount > 0
          /\ \A u \in Requests : paying[u].payment = o => u = q
      BY <1>2, <2>2, <3>1 DEF LocksSound
    <3> QED
      BY <1>5, <1>7, <3>1, <3>2, <3>3, BillingAssumption DEF BillingAssumption
  <2> QED
    BY <2>1, <2>2 DEF LocksSound
<1> QED
  BY <1>1, <1>9, <1>10, <1>11 DEF BillingInv, PaymentInv

\* A step that allocates nothing and records no payment.
LEMMA SameSums ==
  ASSUME allocations' = allocations
  PROVE  \A p : Allocated(p)' = Allocated(p)
BY AllocatedSum

\* A request ends and allocates nothing.
LEMMA LetGoStep ==
  ASSUME BillingInv, NEW r \in Requests, EndPayment(r), allocations' = allocations,
         payments' \in [Payments -> PaymentRows],
         \A p \in Payments : payments'[p].amount = payments[p].amount
  PROVE  BillingInv'
<1>1. ScheduleInv'
  BY EndStep
<1>2. PaymentTypes /\ LocksSound /\ AllocatedWithinPayment
  BY DEF BillingInv, PaymentInv
<1>3. /\ paying' \in [Requests -> Paying]
      /\ \A q \in Requests : paying'[q] = IF q = r THEN NotPaying ELSE paying[q]
      /\ NotPaying.payment = NoPayment
  BY <1>2, LetGo
<1>4. PaymentTypes'
  BY <1>2, <1>3 DEF PaymentTypes
<1>5. AllocatedWithinPayment'
  BY <1>2, SameSums DEF AllocatedWithinPayment
<1>6. LocksSound'
  <2>1. \A q \in Requests : \A p \in Payments : paying'[q].payment = p => paying'[q] = paying[q]
    BY <1>3, BillingAssumption DEF BillingAssumption
  <2> QED
    BY <1>2, <1>3, <2>1, SameSums, BillingAssumption DEF LocksSound, BillingAssumption
<1> QED
  BY <1>1, <1>4, <1>5, <1>6 DEF BillingInv, PaymentInv

\* void_payment, or a refusal, changes no amount and no allocation.
LEMMA VoidStep ==
  ASSUME BillingInv, NEW r \in Requests, VoidPayment(r) \/ RefusePayment(r)
  PROVE  BillingInv'
<1>1. EndPayment(r) /\ allocations' = allocations
  BY DEF VoidPayment, RefusePayment
<1>2. /\ payments' \in [Payments -> PaymentRows]
      /\ \A p \in Payments : payments'[p].amount = payments[p].amount
  <2>1. payments \in [Payments -> PaymentRows]
    BY DEF BillingInv, PaymentInv, PaymentTypes
  <2>2. CASE RefusePayment(r)
    BY <2>1, <2>2 DEF RefusePayment
  <2>3. CASE VoidPayment(r)
    BY <2>1, <2>3 DEF VoidPayment, PaymentRows
  <2> QED
    BY <2>2, <2>3
<1> QED
  BY <1>1, <1>2, LetGoStep

\* Whoever locks a payment is alone with it and reads what it pays.
LEMMA LockStep ==
  ASSUME BillingInv, NEW r \in Requests, NEW p \in Payments, NEW l \in Lessons \cup {NoLesson},
         LockPayment(r, p, l)
  PROVE  BillingInv'
<1> DEFINE held == [payment |-> p, lesson |-> l, allocated |-> Allocated(p),
                    voided |-> payments[p].voided]
<1>1. PaymentTypes /\ LocksSound /\ AllocatedWithinPayment /\ ScheduleInv
  BY DEF BillingInv, PaymentInv
<1>2. /\ payments[p].amount > 0 /\ \A q \in Requests : paying[q].payment # p
      /\ paying' = [paying EXCEPT ![r] = held]
      /\ reads' = [reads EXCEPT ![r].stage = "paying"]
      /\ UNCHANGED <<students, subjects, links, lessons, overlapped, payments, allocations>>
  BY DEF LockPayment, PaymentLocked
<1>3. held \in Paying /\ held.payment = p /\ held.allocated = Allocated(p)
  BY <1>1, AllocatedNat DEF Paying, PaymentTypes, PaymentRows
<1> HIDE DEF held
<1>4. /\ paying' \in [Requests -> Paying]
      /\ \A q \in Requests : paying'[q] = IF q = r THEN held ELSE paying[q]
  BY <1>1, <1>2, <1>3 DEF PaymentTypes
<1>5. PaymentTypes'
  BY <1>1, <1>2, <1>4 DEF PaymentTypes
<1>6. AllocatedWithinPayment'
  BY <1>1, <1>2, SameSums DEF AllocatedWithinPayment
<1>7. LocksSound'
  <2>1. \A q \in Payments : payments'[q].amount = 0 => \A i \in Lessons : allocations'[q][i] = 0
    BY <1>1, <1>2 DEF LocksSound
  <2>2. ASSUME NEW q \in Requests, NEW o \in Payments, paying'[q].payment = o
        PROVE  /\ paying'[q].allocated = Allocated(o)'
               /\ payments'[o].amount > 0
               /\ \A u \in Requests : paying'[u].payment = o => u = q
    <3>1. Allocated(o)' = Allocated(o)
      BY <1>2, SameSums
    <3>2. CASE q = r
      BY <1>2, <1>3, <1>4, <2>2, <3>1, <3>2
    <3>3. CASE q # r
      BY <1>1, <1>2, <1>3, <1>4, <2>2, <3>1, <3>3 DEF LocksSound
    <3> QED
      BY <3>2, <3>3
  <2> QED
    BY <2>1, <2>2 DEF LocksSound
<1>8. ScheduleInv'
  <2>1. reads \in [Requests -> Reads]
    BY <1>1 DEF ScheduleInv, ScheduleTypeOK
  <2>2. [reads[r] EXCEPT !.stage = "paying"] \in Reads /\ reads' = [reads EXCEPT ![r] =
          [reads[r] EXCEPT !.stage = "paying"]]
    BY <1>2, <2>1 DEF Reads
  <2>3. reads' \in [Requests -> Reads]
    BY <2>1, <2>2
  <2>4. \A q \in Requests : reads'[q].stage = "lesson" => reads'[q] = reads[q]
    BY <1>2, <2>1 DEF Reads
  <2>5. ReadsSound'
    BY <1>1, <1>2, <2>4 DEF ScheduleInv, ReadsSound
  <2> QED
    BY <1>1, <1>2, <2>3, <2>5, ForgetOrReadStep
<1> QED
  BY <1>5, <1>6, <1>7, <1>8 DEF BillingInv, PaymentInv

\* create_payment: nobody has allocated a payment that is not recorded.
LEMMA CreatePaymentStep ==
  ASSUME BillingInv, NEW r \in Requests, NEW p \in Payments, NEW amount \in Amounts,
         NEW part \in {0} \cup Amounts, CreatePayment(r, p, amount, part)
  PROVE  BillingInv'
<1>1. PaymentTypes /\ LocksSound /\ AllocatedWithinPayment /\ ScheduleInv
  BY DEF BillingInv, PaymentInv
<1>2. amount \in Nat /\ amount > 0 /\ part \in Nat
  BY BillingAssumption DEF BillingAssumption
<1>3. /\ payments[p].amount = 0 /\ part <= amount
      /\ payments' = [payments EXCEPT ![p].amount = amount]
      /\ Done(r) /\ UNCHANGED <<students, subjects, links, lessons, overlapped, paying>>
  BY DEF CreatePayment
<1>4. ScheduleInv'
  BY <1>1, <1>3, ForgetStep
<1>5. /\ payments' \in [Payments -> PaymentRows] /\ payments'[p].amount = amount
      /\ \A q \in Payments \ {p} : payments'[q] = payments[q]
  BY <1>1, <1>2, <1>3 DEF PaymentTypes, PaymentRows
<1>6. Allocated(p) = 0 /\ \A i \in Lessons : allocations[p][i] = 0
  <2>1. Allocated(p) \in Nat /\ Allocated(p) <= payments[p].amount
    BY <1>1, AllocatedNat DEF AllocatedWithinPayment
  <2> QED
    BY <1>1, <1>3, <2>1 DEF LocksSound
<1>7. /\ allocations' \in [Payments -> [Lessons -> Nat]]
      /\ Allocated(p)' = part
      /\ \A q \in Payments \ {p} : allocations'[q] = allocations[q] /\ Allocated(q)' = Allocated(q)
  <2>1. CASE part = 0
    <3>1. allocations' = allocations
      BY <2>1 DEF CreatePayment
    <3> QED
      BY <1>1, <1>6, <2>1, <3>1, SameSums DEF PaymentTypes
  <2>2. CASE part # 0
    <3>1. reads[r].lesson \in Lessons
      BY <1>1, <2>2 DEF CreatePayment, Billable, ScheduleInv, ReadsSound
    <3>2. PICK l \in Lessons : l = reads[r].lesson
      BY <3>1
    <3>3. allocations' = [allocations EXCEPT ![p][l] = part] /\ allocations[p][l] = 0
      BY <1>6, <2>2, <3>2 DEF CreatePayment
    <3>4. Allocated(p)' = Allocated(p) + part
      BY <1>1, <1>2, <3>3, AllocatedMore
    <3>5. allocations' \in [Payments -> [Lessons -> Nat]]
      BY <1>1, <1>2, <3>3, AllocatedMore
    <3>6. \A q \in Payments \ {p} :
             allocations'[q] = allocations[q] /\ Allocated(q)' = Allocated(q)
      BY <1>1, <1>2, <3>3, AllocatedMore
    <3>7. Allocated(p)' = part
      BY <1>2, <1>6, <3>4
    <3> QED
      BY <3>5, <3>6, <3>7
  <2> QED
    BY <2>1, <2>2
<1>8. PaymentTypes'
  BY <1>1, <1>3, <1>5, <1>7 DEF PaymentTypes
<1>9. AllocatedWithinPayment'
  <2>1. ASSUME NEW q \in Payments PROVE Allocated(q)' <= payments'[q].amount
    <3>1. CASE q = p
      BY <1>3, <1>5, <1>7, <3>1
    <3>2. CASE q # p
      BY <1>1, <1>5, <1>7, <3>2 DEF AllocatedWithinPayment
    <3> QED
      BY <3>1, <3>2
  <2> QED
    BY <2>1 DEF AllocatedWithinPayment
<1>10. LocksSound'
  <2>1. \A q \in Payments : payments'[q].amount = 0 => \A i \in Lessons : allocations'[q][i] = 0
    <3>1. p \in Payments /\ payments'[p].amount # 0
      BY <1>2, <1>5
    <3> QED
      BY <1>1, <1>5, <1>7, <3>1 DEF LocksSound
  <2>2. ASSUME NEW q \in Requests, NEW o \in Payments, paying'[q].payment = o
        PROVE  /\ paying'[q].allocated = Allocated(o)'
               /\ payments'[o].amount > 0
               /\ \A u \in Requests : paying'[u].payment = o => u = q
    <3>1. /\ paying[q].allocated = Allocated(o) /\ payments[o].amount > 0
          /\ \A u \in Requests : paying[u].payment = o => u = q
      BY <1>1, <1>3, <2>2 DEF LocksSound
    <3>2. o # p
      BY <1>3, <3>1
    <3>3. payments'[o] = payments[o] /\ Allocated(o)' = Allocated(o)
      BY <1>5, <1>7, <3>2
    <3> QED
      BY <1>3, <3>1, <3>3
  <2> QED
    BY <2>1, <2>2 DEF LocksSound
<1> QED
  BY <1>4, <1>8, <1>9, <1>10 DEF BillingInv, PaymentInv

\* The schedule changes and the payments stay as they are.
LEMMA PaymentsAlone ==
  ASSUME BillingInv, ScheduleInv', UNCHANGED paymentVars
  PROVE  BillingInv'
<1>1. payments' = payments /\ allocations' = allocations /\ paying' = paying
  BY DEF paymentVars
<1>2. PaymentTypes /\ LocksSound /\ AllocatedWithinPayment
  BY DEF BillingInv, PaymentInv
<1>3. \A p : Allocated(p)' = Allocated(p)
  BY <1>1, SameSums
<1>4. PaymentTypes'
  BY <1>1, <1>2 DEF PaymentTypes
<1>5. AllocatedWithinPayment'
  BY <1>1, <1>2, <1>3 DEF AllocatedWithinPayment
<1>6. LocksSound'
  BY <1>1, <1>2, <1>3 DEF LocksSound
<1> QED
  BY <1>4, <1>5, <1>6 DEF BillingInv, PaymentInv

\* Initially.
LEMMA BillingStart == BillingInit => BillingInv
<1> SUFFICES ASSUME BillingInit PROVE BillingInv
  OBVIOUS
<1>1. ScheduleInv
  BY ScheduleStart DEF BillingInit
<1>2. /\ payments = [p \in Payments |-> [amount |-> 0, voided |-> FALSE]]
      /\ allocations = [p \in Payments |-> [l \in Lessons |-> 0]]
      /\ paying = [r \in Requests |-> NotPaying]
  BY DEF BillingInit
<1>3. NotPaying \in Paying /\ NotPaying.payment = NoPayment
  BY DEF NotPaying, Paying
<1>4. PaymentTypes
  BY <1>2, <1>3 DEF PaymentTypes, PaymentRows
<1>5. LocksSound
  BY <1>2, <1>3, BillingAssumption DEF LocksSound, BillingAssumption
<1>6. AllocatedWithinPayment
  <2> SUFFICES ASSUME NEW p \in Payments PROVE Allocated(p) <= payments[p].amount
    BY DEF AllocatedWithinPayment
  <2> DEFINE g == allocations[p]
  <2>1. IsFiniteSet(Lessons) /\ {} \in SUBSET Lessons
    BY ScheduleAssumption DEF ScheduleAssumption
  <2>2. \A l \in Lessons : g[l] = 0
    BY <1>2
  <2> HIDE DEF g
  <2>3. SumOver(g, Lessons) = SumOver(g, {})
    BY <2>1, <2>2, SumOverWhere
  <2>4. SumOver(g, Lessons) = 0
    BY <2>3, SumOverNone
  <2>5. payments[p].amount = 0
    BY <1>2
  <2> QED
    BY <2>4, <2>5, AllocatedSum DEF g
<1> QED
  BY <1>1, <1>4, <1>5, <1>6 DEF BillingInv, PaymentInv

\* Every handler keeps the invariant.
LEMMA BillingStep == BillingInv /\ [BillingNext]_billingVars => BillingInv'
<1> SUFFICES ASSUME BillingInv, [BillingNext]_billingVars PROVE BillingInv'
  OBVIOUS
<1>1. ScheduleInv
  BY DEF BillingInv
<1>2. CASE ScheduleNext /\ UNCHANGED paymentVars
  BY <1>1, <1>2, ScheduleStep, PaymentsAlone
<1>3. ASSUME NEW r \in Requests, VoidPayment(r) \/ RefusePayment(r)
      PROVE  BillingInv'
  BY <1>3, VoidStep
<1>4. ASSUME NEW r \in Requests, ResetReceivable(r)
      PROVE  BillingInv'
  <2>1. ScheduleInv' /\ UNCHANGED paymentVars
    BY <1>1, <1>4, ResetStep DEF ResetReceivable
  <2> QED
    BY <2>1, PaymentsAlone
<1>5. ASSUME NEW r \in Requests, NEW price \in Prices, UpdateLessonPricing(r, price)
      PROVE  BillingInv'
  <2>1. ScheduleInv' /\ UNCHANGED paymentVars
    BY <1>1, <1>5, PricingStep DEF UpdateLessonPricing
  <2> QED
    BY <2>1, PaymentsAlone
<1>6. ASSUME NEW r \in Requests, NEW amount \in Amounts, OverrideReceivable(r, amount)
      PROVE  BillingInv'
  <2>1. ScheduleInv' /\ UNCHANGED paymentVars
    BY <1>1, <1>6, OverrideStep DEF OverrideReceivable
  <2> QED
    BY <2>1, PaymentsAlone
<1>7. ASSUME NEW r \in Requests, NEW p \in Payments, NEW l \in Lessons \cup {NoLesson},
             LockPayment(r, p, l)
      PROVE  BillingInv'
  BY <1>7, LockStep
<1>8. ASSUME NEW r \in Requests, NEW amount \in Amounts,
             \/ AddAllocation(r, amount)
             \/ \E p \in Payments, part \in {0} \cup Amounts : CreatePayment(r, p, amount, part)
      PROVE  BillingInv'
  BY <1>8, AddAllocationStep, CreatePaymentStep
<1>9. CASE UNCHANGED billingVars
  <2>1. UNCHANGED scheduleVars /\ UNCHANGED paymentVars
    BY <1>9 DEF billingVars
  <2>2. /\ UNCHANGED <<students, subjects, links, lessons, reads, overlapped>>
    BY <2>1 DEF scheduleVars
  <2>3. ScheduleInv'
    BY <1>1, <2>2 DEF ScheduleInv, ScheduleTypeOK, AbsentIsEmpty, ReadsSound, ArchivedIsUnused,
      ReplacedOnce, ReceivableFollowsRules, HasPlanned, Planned, OfLink
  <2> QED
    BY <2>1, <2>3, PaymentsAlone
<1> QED
  BY <1>2, <1>3, <1>4, <1>5, <1>6, <1>7, <1>8, <1>9 DEF BillingNext

\* The invariant holds in every reachable state.
LEMMA BillingInvariance == BillingSpec => []BillingInv
BY BillingStart, BillingStep, PTL DEF BillingSpec

\* What is shown as outstanding, as a sum.
LEMMA OutstandingSum ==
  ASSUME NEW S, IsFiniteSet(S), NEW g, \A l \in S : g[l] = Outstanding(l)
  PROVE  MapThenSumSet(Outstanding, S) = SumOver(g, S)
<1> DEFINE Chosen(f) ==
             f = [s \in SUBSET S |-> IF s = {} THEN 0 ELSE Outstanding(Some(s)) + f[Rest(s)]]
           F == CHOOSE f : Chosen(f)
<1>1. MapThenSumSet(Outstanding, S) = F[S]
  BY DEF MapThenSumSet, MapThenFoldSet, Some, Rest
<1>2. \A f : Chosen(f) <=> Adds(f, g, SUBSET S)
  <2>1. \A s \in SUBSET S : s # {} => g[Some(s)] = Outstanding(Some(s))
    BY SomeRest
  <2> QED
    BY <2>1 DEF Adds
<1> HIDE DEF Chosen
<1>3. Adds(F, g, SUBSET S)
  BY <1>2, AddsExists
<1> QED
  BY <1>1, <1>3, AddsSum

\* What the lessons of a set cost, as a sum.
LEMMA ReceivableSum ==
  ASSUME NEW S, IsFiniteSet(S), NEW g, \A l \in S : g[l] = lessons[l].receivable
  PROVE  MapThenSumSet(LAMBDA l : lessons[l].receivable, S) = SumOver(g, S)
<1> DEFINE Chosen(f) ==
             f = [s \in SUBSET S |-> IF s = {} THEN 0 ELSE lessons[Some(s)].receivable + f[Rest(s)]]
           F == CHOOSE f : Chosen(f)
<1>1. MapThenSumSet(LAMBDA l : lessons[l].receivable, S) = F[S]
  BY DEF MapThenSumSet, MapThenFoldSet, Some, Rest
<1>2. \A f : Chosen(f) <=> Adds(f, g, SUBSET S)
  <2>1. \A s \in SUBSET S : s # {} => g[Some(s)] = lessons[Some(s)].receivable
    BY SomeRest
  <2> QED
    BY <2>1 DEF Adds
<1> HIDE DEF Chosen
<1>3. Adds(F, g, SUBSET S)
  BY <1>2, AddsExists
<1> QED
  BY <1>1, <1>3, AddsSum

\* What the payments of a set amount to, as a sum.
LEMMA ReceivedSum ==
  ASSUME NEW S, IsFiniteSet(S), NEW g, \A p \in S : g[p] = payments[p].amount
  PROVE  MapThenSumSet(LAMBDA p : payments[p].amount, S) = SumOver(g, S)
<1> DEFINE Chosen(f) ==
             f = [s \in SUBSET S |-> IF s = {} THEN 0 ELSE payments[Some(s)].amount + f[Rest(s)]]
           F == CHOOSE f : Chosen(f)
<1>1. MapThenSumSet(LAMBDA p : payments[p].amount, S) = F[S]
  BY DEF MapThenSumSet, MapThenFoldSet, Some, Rest
<1>2. \A f : Chosen(f) <=> Adds(f, g, SUBSET S)
  <2>1. \A s \in SUBSET S : s # {} => g[Some(s)] = payments[Some(s)].amount
    BY SomeRest
  <2> QED
    BY <2>1 DEF Adds
<1> HIDE DEF Chosen
<1>3. Adds(F, g, SUBSET S)
  BY <1>2, AddsExists
<1> QED
  BY <1>1, <1>3, AddsSum

\* What has been paid for a lesson, as a sum.
LEMMA PaidSum ==
  ASSUME IsFiniteSet(Payments), NEW l, NEW g,
         \A p \in Payments : g[p] = IF payments[p].voided THEN 0 ELSE allocations[p][l]
  PROVE  Paid(l) = SumOver(g, Payments)
<1> DEFINE counted(p) == IF payments[p].voided THEN 0 ELSE allocations[p][l]
           Chosen(f) == f = [s \in SUBSET Payments |->
                               IF s = {} THEN 0 ELSE counted(Some(s)) + f[Rest(s)]]
           F == CHOOSE f : Chosen(f)
<1>1. Paid(l) = F[Payments]
  BY DEF Paid, MapThenSumSet, MapThenFoldSet, Some, Rest
<1>2. \A f : Chosen(f) <=> Adds(f, g, SUBSET Payments)
  <2>1. \A s \in SUBSET Payments : s # {} => g[Some(s)] = counted(Some(s))
    BY SomeRest
  <2> QED
    BY <2>1 DEF Adds
<1> HIDE DEF Chosen, counted
<1>3. Adds(F, g, SUBSET Payments)
  BY <1>2, AddsExists
<1> QED
  BY <1>1, <1>3, AddsSum

\* No debt is hidden if no payment pays for more than its amount.
LEMMA NoDebtHidden ==
  ASSUME ScheduleTypeOK, PaymentTypes, AllocatedWithinPayment
  PROVE  SummaryHidesNoDebt
<1> DEFINE active == {l \in Lessons : lessons[l].status \in {"PLANNED", "COMPLETED"}}
           valid == {p \in Payments : ~payments[p].voided}
           due == [l \in Lessons |-> lessons[l].receivable]
           shown == [l \in Lessons |-> Outstanding(l)]
           amounts == [p \in Payments |-> payments[p].amount]
           counted == [p \in Payments |-> IF payments[p].voided THEN 0 ELSE payments[p].amount]
           table == [p \in Payments |-> [l \in active |->
                       IF payments[p].voided THEN 0 ELSE allocations[p][l]]]
           paid == [l \in active |-> Paid(l)]
           covered == [l \in active |-> shown[l] + paid[l]]
<1>1. /\ active \in SUBSET Lessons /\ valid \in SUBSET Payments
      /\ IsFiniteSet(Lessons) /\ IsFiniteSet(Payments)
      /\ IsFiniteSet(active) /\ IsFiniteSet(valid)
  <2>1. IsFiniteSet(Lessons) /\ IsFiniteSet(Payments)
    BY ScheduleAssumption, BillingAssumption DEF ScheduleAssumption, BillingAssumption
  <2>2. active \in SUBSET Lessons /\ valid \in SUBSET Payments
    OBVIOUS
  <2> HIDE DEF active, valid
  <2> QED
    BY <2>1, <2>2, FS_Subset
<1>2. \A l \in Lessons : lessons[l].receivable \in Nat
  BY DEF ScheduleTypeOK, LessonRows
<1>3. \A p \in Payments : /\ payments[p].amount \in Nat /\ payments[p].voided \in BOOLEAN
                          /\ \A l \in Lessons : allocations[p][l] \in Nat
  BY DEF PaymentTypes, PaymentRows
<1>4. table \in [Payments -> [active -> Nat]]
  BY <1>1, <1>3
<1>5. \A l \in active : Paid(l) = SumOver([p \in Payments |-> table[p][l]], Payments)
  <2> SUFFICES ASSUME NEW l \in active
               PROVE  Paid(l) = SumOver([p \in Payments |-> table[p][l]], Payments)
    OBVIOUS
  <2> DEFINE g == [p \in Payments |-> table[p][l]]
  <2>1. \A p \in Payments : g[p] = IF payments[p].voided THEN 0 ELSE allocations[p][l]
    OBVIOUS
  <2> HIDE DEF g
  <2>2. Paid(l) = SumOver(g, Payments)
    BY <1>1, <2>1, PaidSum
  <2> QED
    BY <2>2 DEF g
<1>6. \A l \in active : Paid(l) \in Nat
  <2> SUFFICES ASSUME NEW l \in active PROVE Paid(l) \in Nat
    OBVIOUS
  <2> DEFINE g == [p \in Payments |-> table[p][l]]
  <2>1. \A p \in Payments : g[p] \in Nat
    BY <1>4
  <2> HIDE DEF g
  <2>2. SumOver(g, Payments) \in Nat
    BY <1>1, <2>1, SumOverNat
  <2> QED
    BY <1>5, <2>2 DEF g
<1>7. \A p \in Payments : counted[p] \in Nat /\ SumOver(table[p], active) <= counted[p]
  <2> SUFFICES ASSUME NEW p \in Payments
               PROVE  counted[p] \in Nat /\ SumOver(table[p], active) <= counted[p]
    OBVIOUS
  <2> DEFINE g == table[p]
             h == allocations[p]
  <2>1. CASE payments[p].voided
    <3>1. (\A l \in active : g[l] = 0) /\ counted[p] = 0
      BY <2>1
    <3>2. SumOver(g, active) = 0
      <4> HIDE DEF g
      <4>1. SumOver(g, active) = SumOver(g, {})
        BY <1>1, <3>1, SumOverWhere
      <4> QED
        BY <4>1, SumOverNone
    <3> QED
      BY <3>1, <3>2
  <2>2. CASE ~payments[p].voided
    <3>1. /\ \A l \in active : g[l] = h[l]
          /\ counted[p] = payments[p].amount /\ counted[p] \in Nat
      BY <1>3, <2>2
    <3>2. \A l \in Lessons : h[l] \in Nat
      BY <1>3
    <3>3. SumOver(g, active) = SumOver(h, active)
      <4> HIDE DEF g, h
      <4> QED
        BY <1>1, <3>1, SumOverAlike
    <3>4. SumOver(h, active) <= SumOver(h, Lessons) /\ SumOver(h, active) \in Nat
      <4>1. \A l \in active : h[l] \in Nat
        BY <1>1, <3>2
      <4> HIDE DEF h, active
      <4> QED
        BY <1>1, <3>2, <4>1, SumOverPart, SumOverNat
    <3>5. SumOver(h, Lessons) <= payments[p].amount /\ SumOver(h, Lessons) \in Nat
      <4>1. Allocated(p) <= payments[p].amount /\ Allocated(p) \in Nat
        BY AllocatedNat DEF AllocatedWithinPayment
      <4> QED
        BY <4>1, AllocatedSum
    <3> HIDE DEF g, h, counted
    <3>6. SumOver(g, active) <= counted[p]
      BY <3>1, <3>3, <3>4, <3>5
    <3> QED
      BY <3>1, <3>6 DEF g
  <2> QED
    BY <1>3, <2>1, <2>2
<1>8. SumOver(paid, active) <= SumOver(counted, Payments)
  <2>1. \A l \in active : paid[l] = SumOver([p \in Payments |-> table[p][l]], Payments)
    BY <1>5
  <2> HIDE DEF active, valid, table, paid, counted
  <2> QED
    BY <1>1, <1>4, <1>7, <2>1, SumOverTable
<1>9. SumOver(counted, Payments) = SumOver(amounts, valid)
  <2>1. /\ \A p \in valid : amounts[p] \in Int /\ counted[p] = amounts[p]
        /\ \A p \in Payments \ valid : counted[p] = 0
    BY <1>3
  <2> HIDE DEF valid, amounts, counted
  <2> QED
    BY <1>1, <2>1, SumOverWhere
<1>10. \A l \in active : /\ shown[l] \in Nat /\ due[l] \in Nat /\ paid[l] \in Nat
                         /\ due[l] <= shown[l] + paid[l]
  <2> SUFFICES ASSUME NEW l \in active
               PROVE  /\ shown[l] \in Nat /\ due[l] \in Nat /\ paid[l] \in Nat
                      /\ due[l] <= shown[l] + paid[l]
    OBVIOUS
  <2>1. shown[l] = Outstanding(l) /\ due[l] = lessons[l].receivable /\ paid[l] = Paid(l)
    OBVIOUS
  <2>2. lessons[l].receivable \in Nat /\ Paid(l) \in Nat
    BY <1>2, <1>6
  <2> HIDE DEF shown, due, paid
  <2> QED
    BY <2>1, <2>2 DEF Outstanding
<1>11. /\ SumOver(shown, active) \in Nat /\ SumOver(due, active) \in Nat
       /\ SumOver(paid, active) \in Nat
       /\ SumOver(due, active) <= SumOver(shown, active) + SumOver(paid, active)
  <2>1. \A l \in active : /\ covered[l] \in Int /\ covered[l] = shown[l] + paid[l]
                          /\ due[l] <= covered[l]
    <3>1. \A l \in active : covered[l] = shown[l] + paid[l]
      OBVIOUS
    <3> HIDE DEF active, shown, due, paid, covered
    <3> QED
      BY <1>10, <3>1
  <2>2. /\ \A l \in active : shown[l] \in Nat
        /\ \A l \in active : due[l] \in Nat
        /\ \A l \in active : paid[l] \in Nat
    BY <1>10
  <2> HIDE DEF active, shown, due, paid, covered
  <2>3. /\ SumOver(shown, active) \in Nat /\ SumOver(due, active) \in Nat
        /\ SumOver(paid, active) \in Nat
    BY <1>1, <2>2, SumOverNat
  <2>4. SumOver(covered, active) = SumOver(shown, active) + SumOver(paid, active)
    BY <1>1, <2>1, <2>2, SumOverPlus
  <2>5. SumOver(due, active) <= SumOver(covered, active)
    BY <1>1, <2>1, <2>2, SumOverMonotone
  <2> QED
    BY <2>3, <2>4, <2>5
<1>12. /\ Summary.receivable = SumOver(due, active)
       /\ Summary.outstanding = SumOver(shown, active)
       /\ Summary.received = SumOver(amounts, valid)
  <2>1. Summary = [receivable  |-> MapThenSumSet(LAMBDA l : lessons[l].receivable, active),
                   outstanding |-> MapThenSumSet(Outstanding, active),
                   received    |-> MapThenSumSet(LAMBDA p : payments[p].amount, valid)]
    BY DEF Summary
  <2>2. /\ \A l \in active : due[l] = lessons[l].receivable
        /\ \A l \in active : shown[l] = Outstanding(l)
        /\ \A p \in valid : amounts[p] = payments[p].amount
    OBVIOUS
  <2> HIDE DEF active, valid, due, shown, amounts
  <2>3. MapThenSumSet(LAMBDA l : lessons[l].receivable, active) = SumOver(due, active)
    BY <1>1, <2>2, ReceivableSum
  <2>4. MapThenSumSet(Outstanding, active) = SumOver(shown, active)
    BY <1>1, <2>2, OutstandingSum
  <2>5. MapThenSumSet(LAMBDA p : payments[p].amount, valid) = SumOver(amounts, valid)
    BY <1>1, <2>2, ReceivedSum
  <2>6. /\ Summary.receivable = MapThenSumSet(LAMBDA l : lessons[l].receivable, active)
        /\ Summary.outstanding = MapThenSumSet(Outstanding, active)
        /\ Summary.received = MapThenSumSet(LAMBDA p : payments[p].amount, valid)
    BY <2>1
  <2> QED
    BY <2>3, <2>4, <2>5, <2>6
<1>13. SumOver(amounts, valid) \in Nat
  <2>1. \A p \in valid : amounts[p] \in Nat
    BY <1>3
  <2> HIDE DEF valid, amounts
  <2> QED
    BY <1>1, <2>1, SumOverNat
<1> HIDE DEF active, valid, due, shown, amounts, counted, table, paid, covered
<1> QED
  BY <1>8, <1>9, <1>11, <1>12, <1>13 DEF SummaryHidesNoDebt

\* Counting the lessons that come after a rescheduled one.
LEMMA Replacements ==
  ASSUME ReplacedOnce
  PROVE  OneReplacement
<1> SUFFICES ASSUME NEW l \in Lessons \ overlapped
             PROVE  LET next == {m \in Lessons : lessons[m].from = l} IN
                    /\ Cardinality(next) = IF lessons[l].status = "RESCHEDULED" THEN 1 ELSE 0
                    /\ \A m \in next : lessons[m].link = lessons[l].link
  BY DEF OneReplacement
<1> DEFINE next == {m \in Lessons : lessons[m].from = l}
<1>1. \A m \in next : lessons[m].link = lessons[l].link
  BY DEF ReplacedOnce
<1>2. CASE lessons[l].status = "RESCHEDULED"
  <2>1. PICK n \in Lessons : \A m \in Lessons : lessons[m].from = l <=> m = n
    BY <1>2 DEF ReplacedOnce
  <2>2. next = {n}
    BY <2>1
  <2> QED
    BY <1>1, <1>2, <2>2, FS_Singleton
<1>3. CASE lessons[l].status # "RESCHEDULED"
  <2>1. next = {}
    BY <1>3 DEF ReplacedOnce
  <2> QED
    BY <1>1, <1>3, <2>1, FS_EmptySet
<1> QED
  BY <1>2, <1>3
-----------------------------------------------------------------------------
\* The ledger agrees with itself whatever the requests do: no payment is allocated beyond
\* its amount, and the summary shows at least what the lessons cost less what was paid
\* (phase5.py:373-513, phase5_service.py:61-140).
THEOREM LedgerAlwaysAgrees == BillingSpec => []LedgerAgrees
<1>1. BillingInv => LedgerAgrees
  <2> SUFFICES ASSUME BillingInv PROVE LedgerAgrees
    OBVIOUS
  <2>1. ScheduleTypeOK /\ PaymentTypes /\ AllocatedWithinPayment
    BY DEF BillingInv, ScheduleInv, PaymentInv
  <2> QED
    BY <2>1, NoDebtHidden DEF LedgerAgrees, BillingTypeOK, PaymentTypes
<1> QED
  BY <1>1, BillingInvariance, PTL

\* A receivable that nobody has overridden is that of the price and the minutes, to the
\* nearest cent, after any edits, completions, overrides and resets that do not overlap
\* (phase5_service.py:22-42, phase5.py:164-265).
THEOREM ReceivablesAlwaysFollow == BillingSpec => []ReceivableFollowsRules
<1>1. BillingInv => ReceivableFollowsRules
  BY DEF BillingInv, ScheduleInv
<1> QED
  BY <1>1, BillingInvariance, PTL

\* Nothing is planned on an archived link, and an archived subject has no active link
\* of any student, unless what a handler had counted or read when it decided was no
\* longer so when it committed (phase1.py:428-465, 534-569, 647-683, 953-997).
THEOREM ArchivedAlwaysUnused == BillingSpec => []ArchivedIsUnused
<1>1. BillingInv => ArchivedIsUnused
  BY DEF BillingInv, ScheduleInv
<1> QED
  BY <1>1, BillingInvariance, PTL

\* A lesson that is rescheduled has one replacement, on its link, and no other lesson has
\* one, unless requests overlapped (phase1.py:1127-1181).
THEOREM ReplacedAtMostOnce == BillingSpec => []OneReplacement
<1>1. BillingInv => OneReplacement
  BY Replacements DEF BillingInv, ScheduleInv
<1> QED
  BY <1>1, BillingInvariance, PTL
=============================================================================
