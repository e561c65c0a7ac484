---------------------------- MODULE ErasureProofs ---------------------------
(***************************************************************************)
(* Proofs about Erasure, for every set of trips, identifiers and tasks,    *)
(* every retention, every bound and every choice of faults; what a table   *)
(* reported erased shows needs that the time travel query fails for no     *)
(* other reason than the one it hopes for.                                 *)
(***************************************************************************)
EXTENDS Erasure, FiniteSetTheorems, TLAPS

(***************************************************************************)
(* Part 1: the snapshots of a table.  Their ids have no gap from the       *)
(* oldest that resolves to the current one, and follow the clock: what     *)
(* expires is a prefix.                                                    *)
(***************************************************************************)
Latest(S) == CHOOSE s \in S : \A u \in S : u.id <= s.id

History(S, t) ==
    /\ S \subseteq Snapshots
    /\ \E s \in S : \A u \in S : u.id <= s.id
    /\ \A s, u \in S : s.id = u.id => s = u
    /\ \A s, u \in S : s.id < u.id => s.at <= u.at
    /\ \A s \in S : s.at <= t
    /\ \A s \in S, n \in Nat :
          s.id <= n /\ n <= Latest(S).id => \E u \in S : u.id = n

\* All ids of S are above n.
Above(S, n) == \A s \in S : s.id > n

LEMMA LatestFacts ==
    ASSUME NEW S, NEW t, History(S, t)
    PROVE  /\ Latest(S) \in S
           /\ \A u \in S : u.id <= Latest(S).id
           /\ Latest(S).id \in Nat \ {0}
           /\ Latest(S).rows \subseteq Trips
           /\ Latest(S).at \in Nat
<1>1. Latest(S) \in S /\ \A u \in S : u.id <= Latest(S).id
  BY DEF History, Latest
<1>2. Latest(S) \in Snapshots
  BY <1>1 DEF History
<1> QED BY <1>1, <1>2 DEF Snapshots

\* A commit puts one snapshot on top.
LEMMA CommitHistory ==
    ASSUME NEW S, NEW t \in Nat, History(S, t), NEW rows \in SUBSET Trips,
           NEW N, N = S \cup {[id |-> Latest(S).id + 1, at |-> t, rows |-> rows]}
    PROVE  /\ History(N, t)
           /\ Latest(N).id = Latest(S).id + 1
           /\ \A n \in Nat : Above(S, n) => Above(N, n)
<1> DEFINE new == [id |-> Latest(S).id + 1, at |-> t, rows |-> rows]
<1>1. /\ Latest(S) \in S /\ \A u \in S : u.id <= Latest(S).id
      /\ Latest(S).id \in Nat \ {0}
  BY LatestFacts
<1>2. new \in Snapshots /\ new.id = Latest(S).id + 1 /\ new.at = t
  BY <1>1 DEF Snapshots
<1>3. \A s \in S : s.id \in Nat \ {0} /\ s.at \in Nat /\ s.id < new.id
  BY <1>1, <1>2 DEF History, Snapshots
<1> HIDE DEF new
<1>4. N = S \cup {new}
  BY DEF new
<1>5. new \in N /\ \A u \in N : u.id <= new.id
  BY <1>2, <1>3, <1>4 DEF Snapshots
<1>6. \A s, u \in N : s.id = u.id => s = u
  BY <1>2, <1>3, <1>4 DEF History, Snapshots
<1>7. Latest(N) = new
  <2>1. Latest(N) \in N /\ \A u \in N : u.id <= Latest(N).id
    BY <1>5 DEF Latest
  <2>2. \A u \in N : u.id \in Nat
    BY <1>1, <1>2, <1>3, <1>4
  <2>3. Latest(N).id <= new.id /\ new.id <= Latest(N).id
    BY <2>1, <1>5
  <2>4. Latest(N).id = new.id
    BY <2>1, <2>2, <2>3, <1>5
  <2> QED BY <2>1, <2>4, <1>5, <1>6
<1>8. \A s, u \in N : s.id < u.id => s.at <= u.at
  BY <1>2, <1>3, <1>4 DEF History, Snapshots
<1>9. \A s \in N, n \in Nat :
          s.id <= n /\ n <= new.id => \E u \in N : u.id = n
  <2> SUFFICES ASSUME NEW s \in N, NEW n \in Nat, s.id <= n, n <= new.id
               PROVE  \E u \in N : u.id = n
    OBVIOUS
  <2>1. CASE n = new.id
    BY <2>1, <1>5
  <2>2. CASE n # new.id
    <3>1. n <= Latest(S).id
      BY <2>2, <1>1, <1>2
    <3>2. s \in S
      BY <2>2, <1>2, <1>4 DEF Snapshots
    <3> QED BY <3>1, <3>2, <1>4 DEF History
  <2> QED BY <2>1, <2>2
<1>10. \A s \in N : s.at <= t
  BY <1>2, <1>4 DEF History
<1>11. N \subseteq Snapshots
  BY <1>2, <1>4 DEF History
<1>12. \A n \in Nat : Above(S, n) => Above(N, n)
  BY <1>1, <1>2, <1>3, <1>4 DEF Above
<1> QED
  BY <1>2, <1>5, <1>6, <1>7, <1>8, <1>9, <1>10, <1>11, <1>12 DEF History

\* VACUUM takes away the oldest ones.
LEMMA VacuumHistory ==
    ASSUME NEW S, NEW t \in Nat, History(S, t), NEW age \in Nat,
           NEW N, N = {s \in S : s = Latest(S) \/ t - s.at <= age}
    PROVE  /\ History(N, t)
           /\ Latest(N) = Latest(S)
           /\ \A n \in Nat : Above(S, n) => Above(N, n)
<1>1. /\ Latest(S) \in S /\ \A u \in S : u.id <= Latest(S).id
      /\ Latest(S).id \in Nat \ {0}
  BY LatestFacts
<1>2. \A s \in S : s.id \in Nat \ {0} /\ s.at \in Nat
  BY DEF History, Snapshots
<1>3. Latest(S) \in N /\ \A u \in N : u.id <= Latest(S).id
  BY <1>1
<1>4. Latest(N) = Latest(S)
  <2>1. Latest(N) \in N /\ \A u \in N : u.id <= Latest(N).id
    BY <1>3 DEF Latest
  <2>2. Latest(N).id = Latest(S).id
    BY <2>1, <1>2, <1>3
  <2> QED BY <2>1, <2>2, <1>1 DEF History
<1>5. \A s \in N, n \in Nat :
          s.id <= n /\ n <= Latest(S).id => \E u \in N : u.id = n
  <2> SUFFICES ASSUME NEW s \in N, NEW n \in Nat,
                      s.id <= n, n <= Latest(S).id
               PROVE  \E u \in N : u.id = n
    OBVIOUS
  <2>1. PICK u \in S : u.id = n
    BY DEF History
  <2>2. CASE s = Latest(S)
    <3>1. n = Latest(S).id
      BY <2>2, <1>1, <1>2
    <3> QED BY <3>1, <1>3
  <2>3. CASE s # Latest(S)
    <3>1. t - s.at <= age
      BY <2>3
    <3>2. s.at <= u.at
      BY <2>1, <1>2 DEF History
    <3>3. t - u.at <= age
      BY <3>1, <3>2, <1>2
    <3> QED BY <3>3, <2>1
  <2> QED BY <2>2, <2>3
<1> QED BY <1>3, <1>4, <1>5 DEF History, Above

-----------------------------------------------------------------------------
(***************************************************************************)
(* Part 2: the inductive invariant.  The snapshot a task captured is never *)
(* above the current one of its table, so when it does not resolve, no     *)
(* snapshot up to it does; and what is above a captured snapshot stays so. *)
(***************************************************************************)
HistoriesOK == \A tb \in Tables : History(snaps[tb], now)

TasksOK == \A e \in Tasks :
    /\ epc[e] \in {"off", "record", "count"} => found[e] = 0
    /\ captured[e] <= Latest(snaps[TableOf(e)]).id

IInv == ErasureTypeOK /\ HistoriesOK /\ TasksOK /\ VerifiedMeansExpired

\* What a commit or a VACUUM leaves as it is.
TablesKept ==
    /\ snaps' \in [Tables -> SUBSET Snapshots]
    /\ HistoriesOK'
    /\ \A tb \in Tables :
          /\ Latest(snaps[tb]).id <= Latest(snaps'[tb]).id
          /\ \A n \in Nat : Above(snaps[tb], n) => Above(snaps'[tb], n)

LEMMA TableOfTypes ==
    ASSUME ErasureTypeOK, NEW e \in Tasks
    PROVE  TableOf(e) \in Tables
BY DEF ErasureTypeOK, TableOf, Targets, Tables

LEMMA LiveTypes ==
    ASSUME ErasureTypeOK, HistoriesOK, NEW tb \in Tables
    PROVE  Live(tb) \subseteq Trips /\ Current(tb) = Latest(snaps[tb])
<1>1. Current(tb) = Latest(snaps[tb])
  BY DEF Current, Latest
<1> QED BY <1>1, LatestFacts DEF HistoriesOK, Live

LEMMA SameTables ==
    ASSUME ErasureTypeOK, HistoriesOK, UNCHANGED <<snaps, now>>
    PROVE  TablesKept
<1>1. \A tb \in Tables : Latest(snaps[tb]).id \in Nat
  BY LatestFacts DEF HistoriesOK
<1> QED BY <1>1 DEF TablesKept, HistoriesOK, ErasureTypeOK

LEMMA CommitKeeps ==
    ASSUME ErasureTypeOK, HistoriesOK, NEW tb \in Tables,
           NEW rows \in SUBSET Trips, Commit(tb, rows), now' = now
    PROVE  TablesKept
<1>1. CASE rows = Live(tb)
  BY <1>1, SameTables DEF Commit
<1>2. CASE rows # Live(tb)
  <2> DEFINE N == snaps[tb] \cup
                {[id |-> Latest(snaps[tb]).id + 1, at |-> now, rows |-> rows]}
  <2>1. snaps' = [snaps EXCEPT ![tb] = N]
    BY <1>2, LiveTypes DEF Commit
  <2>2. History(snaps[tb], now) /\ now \in Nat
    BY DEF HistoriesOK, ErasureTypeOK
  <2>3. /\ History(N, now) /\ Latest(N).id = Latest(snaps[tb]).id + 1
        /\ \A n \in Nat : Above(snaps[tb], n) => Above(N, n)
    BY <2>2, CommitHistory
  <2>4. \A b \in Tables : Latest(snaps[b]).id \in Nat
    BY LatestFacts DEF HistoriesOK
  <2>5. \A b \in Tables : snaps'[b] = IF b = tb THEN N ELSE snaps[b]
    BY <2>1 DEF ErasureTypeOK
  <2> HIDE DEF N
  <2>6. snaps' \in [Tables -> SUBSET Snapshots]
    BY <2>1, <2>3 DEF ErasureTypeOK, History
  <2> QED BY <2>3, <2>4, <2>5, <2>6 DEF TablesKept, HistoriesOK
<1> QED BY <1>1, <1>2

LEMMA VacuumKeeps ==
    ASSUME ErasureTypeOK, HistoriesOK, NEW tb \in Tables, Vacuum(tb), now' = now
    PROVE  TablesKept
<1> DEFINE N == {s \in snaps[tb] : \/ s = Latest(snaps[tb])
                                   \/ now - s.at <= maxAge[tb]}
<1>1. snaps' = [snaps EXCEPT ![tb] = N]
  BY LiveTypes DEF Vacuum, Unexpired
<1>2. History(snaps[tb], now) /\ now \in Nat /\ maxAge[tb] \in Nat
  BY ErasureAssumption DEF HistoriesOK, ErasureTypeOK
<1>3. /\ History(N, now) /\ Latest(N) = Latest(snaps[tb])
      /\ \A n \in Nat : Above(snaps[tb], n) => Above(N, n)
  BY <1>2, VacuumHistory
<1>4. \A b \in Tables : Latest(snaps[b]).id \in Nat
  BY LatestFacts DEF HistoriesOK
<1>5. \A b \in Tables : snaps'[b] = IF b = tb THEN N ELSE snaps[b]
  BY <1>1 DEF ErasureTypeOK
<1> HIDE DEF N
<1>6. snaps' \in [Tables -> SUBSET Snapshots]
  BY <1>1, <1>3 DEF ErasureTypeOK, History
<1> QED BY <1>3, <1>4, <1>5, <1>6 DEF TablesKept, HistoriesOK

\* A statement that commits keeps the tables in order.
LEMMA EffectKeeps ==
    ASSUME ErasureTypeOK, HistoriesOK, NEW s \in Statements, Effect(s),
           now' = now
    PROVE  TablesKept /\ maxAge' \in [Tables -> {TightAge, DefaultAge}]
<1>1. s.table \in Tables
  BY DEF Statements
<1>2. CASE s.kind = "delete" /\ UNCHANGED maxAge
           /\ Commit(s.table, Live(s.table) \ RowsOf(s.identifier))
  <2>1. Live(s.table) \ RowsOf(s.identifier) \in SUBSET Trips
    BY <1>1, LiveTypes
  <2> QED BY <1>1, <1>2, <2>1, CommitKeeps DEF ErasureTypeOK
<1>3. CASE /\ s.kind = "alter"
           /\ maxAge' = [maxAge EXCEPT ![s.table] = TightAge]
           /\ UNCHANGED snaps
  BY <1>1, <1>3, SameTables DEF ErasureTypeOK
<1>4. CASE s.kind = "vacuum" /\ Vacuum(s.table) /\ UNCHANGED maxAge
  BY <1>1, <1>4, VacuumKeeps DEF ErasureTypeOK
<1> QED BY <1>2, <1>3, <1>4 DEF Effect

\* Steps that leave the tasks alone.
LEMMA OthersKeep ==
    ASSUME IInv, TablesKept, UNCHANGED taskVars
    PROVE  TasksOK' /\ VerifiedMeansExpired'
<1>1. \A e \in Tasks : TableOf(e) \in Tables /\ TableOf(e)' = TableOf(e)
  BY TableOfTypes DEF IInv, TableOf, taskVars
<1>2. \A tb \in Tables : /\ Latest(snaps[tb]).id \in Nat
                         /\ Latest(snaps'[tb]).id \in Nat
  BY LatestFacts DEF IInv, HistoriesOK, TablesKept
<1>3. TasksOK'
  BY <1>1, <1>2 DEF IInv, TasksOK, TablesKept, taskVars, ErasureTypeOK
<1>4. VerifiedMeansExpired'
  <2> SUFFICES ASSUME NEW e \in Tasks, NEW tb \in Tables,
                      results[e][tb] # None, results[e][tb].success,
                      results[e][tb].rowsBefore > 0,
                      results[e][tb].probe # "error"
               PROVE  Above(snaps'[tb], results[e][tb].snapshot)
    BY DEF VerifiedMeansExpired, Above, taskVars
  <2>1. results[e][tb] \in Results
    BY DEF IInv, ErasureTypeOK
  <2>2. results[e][tb].snapshot \in Nat
    BY <2>1 DEF Results
  <2>3. Above(snaps[tb], results[e][tb].snapshot)
    BY DEF IInv, VerifiedMeansExpired, Above
  <2> QED BY <2>2, <2>3 DEF TablesKept
<1> QED BY <1>3, <1>4

\* The variables of the tasks that a step of one task changes.
TaskTypes ==
    /\ epc \in [Tasks -> EPCs]
    /\ target \in [Tasks -> 1..2]
    /\ found \in [Tasks -> Nat]
    /\ captured \in [Tasks -> Nat]
    /\ results \in [Tasks -> [Tables -> Results \cup {None}]]

TasksKept == TaskTypes' /\ TasksOK' /\ VerifiedMeansExpired'

\* A task goes on within a table.
LEMMA AdvanceKeeps ==
    ASSUME IInv, TablesKept, NEW e \in Tasks, NEW label \in EPCs, Goto(e, label),
           NEW n \in Nat, NEW c \in Nat,
           found' = [found EXCEPT ![e] = n],
           captured' = [captured EXCEPT ![e] = c],
           label \in {"off", "record", "count"} => n = 0,
           c <= Latest(snaps[TableOf(e)]).id,
           UNCHANGED <<target, results>>
    PROVE  TasksKept
<1>1. TaskTypes'
  BY DEF IInv, ErasureTypeOK, TaskTypes, Goto
<1>2. \A f \in Tasks : TableOf(f) \in Tables /\ TableOf(f)' = TableOf(f)
  BY TableOfTypes DEF IInv, TableOf
<1>3. \A tb \in Tables : /\ Latest(snaps[tb]).id \in Nat
                         /\ Latest(snaps'[tb]).id \in Nat
  BY LatestFacts DEF IInv, HistoriesOK, TablesKept
<1>4. TasksOK'
  <2>1. \A f \in Tasks :
            /\ epc'[f] = IF f = e THEN label ELSE epc[f]
            /\ found'[f] = IF f = e THEN n ELSE found[f]
            /\ captured'[f] = IF f = e THEN c ELSE captured[f]
    BY DEF Goto, IInv, ErasureTypeOK
  <2>2. \A f \in Tasks :
            epc'[f] \in {"off", "record", "count"} => found'[f] = 0
    BY <2>1 DEF IInv, TasksOK
  <2>3. \A f \in Tasks : captured'[f] \in Nat
                         /\ captured'[f] <= Latest(snaps[TableOf(f)]).id
    BY <2>1 DEF IInv, ErasureTypeOK, TasksOK
  <2>4. \A f \in Tasks : captured'[f] <= Latest(snaps'[TableOf(f)]).id
    BY <2>3, <1>2, <1>3 DEF TablesKept
  <2> QED BY <2>2, <2>4, <1>2 DEF TasksOK
<1>5. VerifiedMeansExpired'
  <2> SUFFICES ASSUME NEW f \in Tasks, NEW tb \in Tables,
                      results[f][tb] # None, results[f][tb].success,
                      results[f][tb].rowsBefore > 0,
                      results[f][tb].probe # "error"
               PROVE  Above(snaps'[tb], results[f][tb].snapshot)
    BY DEF VerifiedMeansExpired, Above
  <2>1. results[f][tb] \in Results
    BY DEF IInv, ErasureTypeOK
  <2>2. results[f][tb].snapshot \in Nat
    BY <2>1 DEF Results
  <2>3. Above(snaps[tb], results[f][tb].snapshot)
    BY DEF IInv, VerifiedMeansExpired, Above
  <2> QED BY <2>2, <2>3 DEF TablesKept
<1> QED BY <1>1, <1>4, <1>5 DEF TasksKept

\* A task is done with a table: if it says success, and there were rows, the
\* captured snapshot and all before it are gone.
LEMMA TableDoneKeeps ==
    ASSUME IInv, UNCHANGED snaps, NEW e \in Tasks,
           NEW success \in BOOLEAN, NEW probe \in Probes,
           TableDone(e, success, probe),
           success /\ found[e] > 0 /\ probe # "error"
               => Above(snaps[TableOf(e)], captured[e])
    PROVE  TasksKept
<1> DEFINE r == [rowsBefore |-> IF success THEN found[e] ELSE 0,
                 snapshot |-> IF success THEN captured[e] ELSE 0,
                 probe |-> probe, success |-> success]
<1>1. TableOf(e) \in Tables /\ target[e] \in 1..2 /\ Len(Targets) = 2
  BY TableOfTypes DEF IInv, ErasureTypeOK, Targets
<1>2. r \in Results
  BY DEF IInv, ErasureTypeOK, Results
<1>3. results' = [results EXCEPT ![e][TableOf(e)] = r]
  BY DEF TableDone
<1> HIDE DEF r
<1>4. /\ epc' \in [Tasks -> EPCs]
      /\ target' \in [Tasks -> 1..2]
      /\ found' \in [Tasks -> Nat] /\ captured' \in [Tasks -> Nat]
  <2>1. target[e] < 2 => target[e] + 1 \in 1..2
    BY <1>1
  <2>2. \/ Goto(e, "count") /\ target' = [target EXCEPT ![e] = @ + 1]
                           /\ target[e] < 2
        \/ Goto(e, "finish") /\ UNCHANGED target
    BY <1>1 DEF TableDone
  <2>3. epc' \in [Tasks -> EPCs]
    BY <2>2 DEF Goto, IInv, ErasureTypeOK, EPCs
  <2>4. target' \in [Tasks -> 1..2]
    BY <2>1, <2>2 DEF IInv, ErasureTypeOK
  <2>5. found' \in [Tasks -> Nat] /\ captured' \in [Tasks -> Nat]
    BY DEF TableDone, IInv, ErasureTypeOK
  <2> QED BY <2>3, <2>4, <2>5
<1>5. results' \in [Tasks -> [Tables -> Results \cup {None}]]
  BY <1>1, <1>2, <1>3 DEF IInv, ErasureTypeOK
<1>6. \A f \in Tasks, tb \in Tables :
          results'[f][tb] = IF f = e /\ tb = TableOf(e) THEN r
                            ELSE results[f][tb]
  BY <1>1, <1>3 DEF IInv, ErasureTypeOK
<1>7. TasksOK'
  <2>1. \A tb \in Tables : Latest(snaps[tb]).id \in Nat
    BY LatestFacts DEF IInv, HistoriesOK
  <2>2. \A f \in Tasks : Targets[target'[f]] \in Tables
    BY <1>4 DEF Targets, Tables
  <2> SUFFICES ASSUME NEW f \in Tasks
               PROVE  /\ epc'[f] \in {"off", "record", "count"} => found'[f] = 0
                      /\ captured'[f] <= Latest(snaps[Targets[target'[f]]]).id
    BY DEF TasksOK, TableOf
  <2>3. CASE f = e
    BY <2>1, <2>2, <2>3 DEF TableDone, IInv, ErasureTypeOK
  <2>4. CASE f # e
    <3>1. epc'[f] = epc[f] /\ target'[f] = target[f]
          /\ found'[f] = found[f] /\ captured'[f] = captured[f]
      BY <2>4 DEF TableDone, Goto, IInv, ErasureTypeOK
    <3> QED BY <3>1 DEF IInv, TasksOK, TableOf
  <2> QED BY <2>3, <2>4
<1>8. VerifiedMeansExpired'
  <2> SUFFICES ASSUME NEW f \in Tasks, NEW tb \in Tables,
                      results'[f][tb] # None, results'[f][tb].success,
                      results'[f][tb].rowsBefore > 0,
                      results'[f][tb].probe # "error"
               PROVE  Above(snaps[tb], results'[f][tb].snapshot)
    BY DEF VerifiedMeansExpired, Above
  <2>1. CASE f = e /\ tb = TableOf(e)
    BY <2>1, <1>6 DEF r
  <2>2. CASE ~(f = e /\ tb = TableOf(e))
    BY <2>2, <1>6 DEF IInv, VerifiedMeansExpired, Above
  <2> QED BY <2>1, <2>2
<1> QED BY <1>4, <1>5, <1>7, <1>8 DEF TasksKept, TaskTypes

LEMMA TableFailsKeeps ==
    ASSUME IInv, UNCHANGED snaps, NEW e \in Tasks, TableFails(e)
    PROVE  TasksKept
BY TableDoneKeeps DEF TableFails, Probes

LEMMA CountTypes ==
    ASSUME IInv, NEW e \in Tasks
    PROVE  CountByIdentifier(e) \in Nat
<1>1. Live(TableOf(e)) \subseteq Trips
  BY LiveTypes, TableOfTypes DEF IInv
<1>2. IsFiniteSet(Live(TableOf(e)) \cap RowsOf(subject[e]))
  BY <1>1, FS_Subset, ErasureAssumption
<1> QED BY <1>2, FS_CardinalityType DEF CountByIdentifier

\* A task moves on, and nothing else of it changes.
LEMMA GotoKeeps ==
    ASSUME IInv, TablesKept, NEW e \in Tasks, NEW label \in EPCs, Goto(e, label),
           label \in {"off", "record", "count"} => found[e] = 0,
           UNCHANGED <<target, found, captured, results>>
    PROVE  TasksKept
<1>1. /\ found' = [found EXCEPT ![e] = found[e]] /\ found[e] \in Nat
      /\ captured' = [captured EXCEPT ![e] = captured[e]] /\ captured[e] \in Nat
  BY DEF IInv, ErasureTypeOK
<1>2. captured[e] <= Latest(snaps[TableOf(e)]).id
  BY DEF IInv, TasksOK
<1> QED BY <1>1, <1>2, AdvanceKeeps

-----------------------------------------------------------------------------
(***************************************************************************)
(* Part 3: each step keeps the invariant.                                  *)
(***************************************************************************)

\* The variables that belong neither to the tasks nor to the snapshots.
OtherTypes ==
    /\ hot \subseteq Trips
    /\ read \in [Tables -> SUBSET Trips]
    /\ maxAge \in [Tables -> {TightAge, DefaultAge}]
    /\ now \in Nat
    /\ inflight \subseteq Statements
    /\ requests \in [Identifiers -> Requests \cup {None}]
    /\ subject \in [Tasks -> Identifiers \cup {None}]
    /\ cpc \in Tables \cup {"off", "metrics", "ok", "error"}

LEMMA Together ==
    ASSUME TablesKept, TasksKept, OtherTypes'
    PROVE  IInv'
BY DEF TablesKept, TasksKept, TaskTypes, OtherTypes, IInv, ErasureTypeOK

LEMMA OthersTogether ==
    ASSUME IInv, TablesKept, UNCHANGED taskVars, OtherTypes'
    PROVE  IInv'
<1>1. TaskTypes'
  BY DEF IInv, ErasureTypeOK, TaskTypes, taskVars
<1> QED BY <1>1, OthersKeep, Together DEF TasksKept

LEMMA RequestTypes ==
    ASSUME IInv, NEW e \in Tasks, NEW finished \in BOOLEAN,
           NEW success \in BOOLEAN, PutRequest(e, finished, success)
    PROVE  requests' \in [Identifiers -> Requests \cup {None}]
<1>1. [task |-> e, results |-> results[e], finished |-> finished,
       success |-> success] \in Requests
  BY DEF IInv, ErasureTypeOK, Requests
<1> QED BY <1>1 DEF PutRequest, IInv, ErasureTypeOK

LEMMA TickKeeps ==
    ASSUME IInv, Tick
    PROVE  IInv'
<1>1. OtherTypes'
  BY DEF Tick, tableVars, taskVars, IInv, ErasureTypeOK, OtherTypes
<1>2. TablesKept
  <2>1. \A tb \in Tables : /\ Latest(snaps[tb]).id \in Nat
                           /\ \A s \in snaps[tb] : s.at \in Nat
    BY LatestFacts DEF IInv, HistoriesOK, ErasureTypeOK, Snapshots
  <2>2. now \in Nat /\ now' = now + 1 /\ snaps' = snaps
    BY DEF Tick, IInv, ErasureTypeOK, tableVars
  <2>3. \A tb \in Tables : History(snaps[tb], now')
    BY <2>1, <2>2 DEF IInv, HistoriesOK, History
  <2> QED BY <2>1, <2>2, <2>3 DEF TablesKept, HistoriesOK, IInv, ErasureTypeOK
<1> QED BY <1>1, <1>2, OthersTogether DEF Tick

LEMMA WritersKeep ==
    ASSUME IInv, NEW tb \in Tables, NEW S \in SUBSET Trips,
           WriterDeletes(tb, S) \/ WriterReads(tb, S) \/ WriterInserts(tb)
    PROVE  IInv'
<1>1. OtherTypes'
  BY DEF WriterDeletes, WriterReads, WriterInserts, tableVars, taskVars, IInv,
         ErasureTypeOK, OtherTypes
<1>2. TablesKept
  <2>1. Live(tb) \subseteq Trips /\ read[tb] \subseteq Trips
    BY LiveTypes DEF IInv, ErasureTypeOK
  <2>2. CASE WriterDeletes(tb, S)
    BY <2>1, <2>2, CommitKeeps DEF WriterDeletes, IInv
  <2>3. CASE WriterReads(tb, S)
    BY <2>3, SameTables DEF WriterReads, IInv, tableVars
  <2>4. CASE WriterInserts(tb)
    BY <2>1, <2>4, CommitKeeps DEF WriterInserts, IInv
  <2> QED BY <2>2, <2>3, <2>4
<1> QED
  BY <1>1, <1>2, OthersTogether DEF WriterDeletes, WriterReads, WriterInserts

LEMMA PostgresKeeps ==
    ASSUME IInv, NEW i \in Identifiers, PostgresErases(i)
    PROVE  IInv'
<1>1. OtherTypes'
  BY DEF PostgresErases, tableVars, taskVars, IInv, ErasureTypeOK, OtherTypes
<1>2. TablesKept
  BY SameTables DEF PostgresErases, IInv, tableVars
<1> QED BY <1>1, <1>2, OthersTogether DEF PostgresErases

LEMMA AthenaKeeps ==
    ASSUME IInv, NEW s \in Statements, AthenaEnds(s)
    PROVE  IInv'
<1>1. TablesKept /\ maxAge' \in [Tables -> {TightAge, DefaultAge}]
  BY EffectKeeps, SameTables DEF AthenaEnds, IInv, ErasureTypeOK
<1>2. OtherTypes'
  BY <1>1 DEF AthenaEnds, taskVars, IInv, ErasureTypeOK, OtherTypes
<1> QED BY <1>1, <1>2, OthersTogether DEF AthenaEnds

LEMMA CompactKeeps ==
    ASSUME IInv, StartCompact \/ CompactFails \/ PublishMetrics
                 \/ \E tb \in Tables : CompactVacuum(tb)
    PROVE  IInv'
<1>1. OtherTypes'
  <2>1. CASE StartCompact \/ PublishMetrics
    BY <2>1 DEF StartCompact, PublishMetrics, tableVars, taskVars, IInv,
         ErasureTypeOK, OtherTypes, Tables
  <2>2. CASE CompactFails
    <3>1. cpc \in Tables => [kind |-> "vacuum", table |-> cpc,
                             identifier |-> None] \in Statements
      BY DEF Statements, Kinds
    <3>2. inflight' \subseteq Statements /\ maxAge' = maxAge
      BY <2>2, <3>1 DEF CompactFails, Abandon, tableVars, IInv, ErasureTypeOK
    <3> QED BY <2>2, <3>2 DEF CompactFails, taskVars, IInv, ErasureTypeOK,
              OtherTypes
  <2>3. CASE \E tb \in Tables : CompactVacuum(tb)
    BY <2>3 DEF CompactVacuum, AfterVacuum, taskVars, IInv, ErasureTypeOK,
         OtherTypes, Tables
  <2> QED BY <2>1, <2>2, <2>3
<1>2. TablesKept
  <2>1. CASE \E tb \in Tables : CompactVacuum(tb)
    BY <2>1, VacuumKeeps DEF CompactVacuum, IInv
  <2>2. CASE UNCHANGED <<snaps, now>>
    BY <2>2, SameTables DEF IInv
  <2> QED BY <2>1, <2>2 DEF StartCompact, CompactFails, PublishMetrics, Abandon,
            tableVars
<1>3. UNCHANGED taskVars
  BY DEF StartCompact, CompactFails, PublishMetrics, CompactVacuum
<1> QED BY <1>1, <1>2, <1>3, OthersTogether

LEMMA StartKeeps ==
    ASSUME IInv, NEW e \in Tasks, NEW i \in Identifiers, StartErasure(e, i)
    PROVE  IInv'
<1>1. OtherTypes'
  BY DEF StartErasure, tableVars, IInv, ErasureTypeOK, OtherTypes
<1>2. TablesKept
  BY SameTables DEF StartErasure, IInv, tableVars
<1>3. found[e] = 0
  BY DEF StartErasure, Step, IInv, TasksOK
<1>4. TasksKept
  BY <1>2, <1>3, GotoKeeps DEF StartErasure, Step, EPCs
<1> QED BY <1>1, <1>2, <1>4, Together

LEMMA RecordKeeps ==
    ASSUME IInv, NEW e \in Tasks, RecordRequest(e) \/ FinishErasure(e)
    PROVE  IInv'
<1>1. requests' \in [Identifiers -> Requests \cup {None}]
  <2>1. OverallSuccess(e) \in BOOLEAN
    BY DEF OverallSuccess
  <2>2. \/ PutRequest(e, FALSE, FALSE)
        \/ PutRequest(e, TRUE, OverallSuccess(e))
        \/ UNCHANGED requests
    BY DEF RecordRequest, FinishErasure
  <2>3. CASE UNCHANGED requests
    BY <2>3 DEF IInv, ErasureTypeOK
  <2> QED BY <2>1, <2>2, <2>3, RequestTypes
<1>2. OtherTypes'
  BY <1>1 DEF RecordRequest, FinishErasure, tableVars, IInv, ErasureTypeOK,
       OtherTypes
<1>3. TablesKept
  BY SameTables DEF RecordRequest, FinishErasure, IInv, tableVars
<1>4. TasksKept
  <2>1. epc[e] = "record" => found[e] = 0
    BY DEF IInv, TasksOK
  <2>2. CASE RecordRequest(e)
    BY <2>1, <2>2, <1>3, GotoKeeps DEF RecordRequest, Step, EPCs, Exits
  <2>3. CASE FinishErasure(e)
    BY <2>3, <1>3, GotoKeeps DEF FinishErasure, Step, EPCs, Exits
  <2> QED BY <2>2, <2>3
<1> QED BY <1>2, <1>3, <1>4, Together

\* The queries: nothing changes but the task.
LEMMA CountBeforeKeeps ==
    ASSUME IInv, NEW e \in Tasks, CountBefore(e)
    PROVE  IInv'
<1>1. OtherTypes'
  BY DEF CountBefore, tableVars, IInv, ErasureTypeOK, OtherTypes
<1>2. TablesKept /\ UNCHANGED snaps
  BY SameTables DEF CountBefore, IInv, tableVars
<1>3. TasksKept
  <2>1. found[e] = 0
    BY DEF CountBefore, IInv, TasksOK
  <2>2. CASE TableDone(e, TRUE, "none")
    <3>1. ~(TRUE /\ found[e] > 0)
      BY <2>1
    <3> QED BY <2>2, <3>1, <1>2, TableDoneKeeps DEF Probes
  <2>3. CASE /\ Goto(e, "capture")
             /\ found' = [found EXCEPT ![e] = CountByIdentifier(e)]
             /\ UNCHANGED <<target, captured, results>>
    <3> DEFINE n == CountByIdentifier(e)
               c == captured[e]
    <3>1. /\ captured' = [captured EXCEPT ![e] = c]
          /\ c \in Nat
          /\ c <= Latest(snaps[TableOf(e)]).id
      BY <2>3 DEF IInv, ErasureTypeOK, TasksOK
    <3>2. found' = [found EXCEPT ![e] = n] /\ n \in Nat
      BY <2>3, CountTypes
    <3>3. /\ "capture" \in EPCs
          /\ "capture" \notin {"off", "record", "count"}
          /\ Goto(e, "capture") /\ UNCHANGED <<target, results>>
      BY <2>3 DEF EPCs
    <3> HIDE DEF n, c
    <3> QED BY <3>1, <3>2, <3>3, <1>2, AdvanceKeeps
  <2>4. CASE TableFails(e)
    BY <2>4, <1>2, TableFailsKeeps
  <2> QED BY <2>2, <2>3, <2>4 DEF CountBefore
<1> QED BY <1>1, <1>2, <1>3, Together

LEMMA CaptureKeeps ==
    ASSUME IInv, NEW e \in Tasks, CaptureSnapshot(e)
    PROVE  IInv'
<1>1. OtherTypes'
  BY DEF CaptureSnapshot, tableVars, IInv, ErasureTypeOK, OtherTypes
<1>2. TablesKept /\ UNCHANGED snaps
  BY SameTables DEF CaptureSnapshot, IInv, tableVars
<1>3. TasksKept
  <2>1. CASE /\ Goto(e, "delete")
             /\ captured' = [captured EXCEPT ![e] = Current(TableOf(e)).id]
             /\ UNCHANGED <<target, found, results>>
    <3>1. /\ found' = [found EXCEPT ![e] = found[e]] /\ found[e] \in Nat
      BY <2>1 DEF IInv, ErasureTypeOK
    <3>2. TableOf(e) \in Tables
      BY TableOfTypes DEF IInv
    <3>3. /\ Current(TableOf(e)) = Latest(snaps[TableOf(e)])
          /\ Latest(snaps[TableOf(e)]).id \in Nat
      BY <3>2, LiveTypes, LatestFacts DEF IInv, HistoriesOK
    <3> DEFINE c == Latest(snaps[TableOf(e)]).id
    <3>4. captured' = [captured EXCEPT ![e] = c] /\ c \in Nat
      BY <2>1, <3>3
    <3>5. "delete" \in EPCs /\ Goto(e, "delete") /\ UNCHANGED <<target, results>>
      BY <2>1 DEF EPCs
    <3>6. c <= Latest(snaps[TableOf(e)]).id
      BY <3>4
    <3> HIDE DEF c
    <3> QED BY <3>1, <3>4, <3>5, <3>6, <1>2, AdvanceKeeps
  <2>2. CASE TableFails(e)
    BY <2>2, <1>2, TableFailsKeeps
  <2> QED BY <2>1, <2>2 DEF CaptureSnapshot
<1> QED BY <1>1, <1>2, <1>3, Together

LEMMA StatementKeeps ==
    ASSUME IInv, NEW e \in Tasks, NEW kind \in Kinds,
           NEW next \in {"alter", "vacuum", "after"},
           ErasureStatement(e, kind, next)
    PROVE  IInv'
<1> DEFINE s == [kind |-> kind, table |-> TableOf(e), identifier |-> subject[e]]
<1>1. s \in Statements
  BY TableOfTypes DEF IInv, ErasureTypeOK, Statements
<1>2. /\ \/ /\ Goto(e, next) /\ Effect(s)
            /\ UNCHANGED <<inflight, target, found, captured, results>>
         \/ TableFails(e) /\ Abandon(s)
      /\ UNCHANGED <<hot, read, now, requests, subject, cpc>>
  BY DEF ErasureStatement
<1> HIDE DEF s
<1>3. CASE /\ Goto(e, next) /\ Effect(s)
           /\ UNCHANGED <<inflight, target, found, captured, results>>
  <2>1. TablesKept /\ maxAge' \in [Tables -> {TightAge, DefaultAge}]
    BY <1>1, <1>2, <1>3, EffectKeeps DEF IInv
  <2>2. TasksKept
    BY <2>1, <1>3, GotoKeeps DEF EPCs
  <2>3. OtherTypes'
    BY <2>1, <1>2, <1>3 DEF IInv, ErasureTypeOK, OtherTypes
  <2> QED BY <2>1, <2>2, <2>3, Together
<1>4. CASE TableFails(e) /\ Abandon(s)
  <2>1. UNCHANGED <<snaps, maxAge>> /\ inflight' \subseteq Statements
    BY <1>1, <1>4 DEF Abandon, IInv, ErasureTypeOK
  <2>2. TablesKept
    BY <2>1, <1>2, SameTables DEF IInv
  <2>3. TasksKept
    BY <2>1, <1>4, TableFailsKeeps
  <2>4. OtherTypes'
    BY <2>1, <1>2 DEF IInv, ErasureTypeOK, OtherTypes
  <2> QED BY <2>2, <2>3, <2>4, Together
<1> QED BY <1>2, <1>3, <1>4

LEMMA CountAfterKeeps ==
    ASSUME IInv, NEW e \in Tasks, CountAfter(e)
    PROVE  IInv'
<1>1. OtherTypes'
  BY DEF CountAfter, tableVars, IInv, ErasureTypeOK, OtherTypes
<1>2. TablesKept /\ UNCHANGED snaps
  BY SameTables DEF CountAfter, IInv, tableVars
<1>3. TasksKept
  <2>1. CASE /\ Goto(e, "probe")
             /\ UNCHANGED <<target, found, captured, results>>
    BY <2>1, <1>2, GotoKeeps DEF EPCs
  <2>2. CASE TableFails(e)
    BY <2>2, <1>2, TableFailsKeeps
  <2> QED BY <2>1, <2>2 DEF CountAfter
<1> QED BY <1>1, <1>2, <1>3, Together

\* The captured snapshot does not resolve, and it is not above the current
\* one: then no snapshot at or below it resolves either.
LEMMA Contiguous ==
    ASSUME IInv, NEW e \in Tasks, ~Resolves(TableOf(e), captured[e])
    PROVE  Above(snaps[TableOf(e)], captured[e])
<1> DEFINE S == snaps[TableOf(e)]
<1>1. History(S, now) /\ captured[e] \in Nat /\ captured[e] <= Latest(S).id
  BY TableOfTypes DEF IInv, HistoriesOK, TasksOK, ErasureTypeOK
<1>2. ~\E s \in S : s.id = captured[e]
  BY DEF Resolves
<1> HIDE DEF S
<1>3. \A s \in S : s.id \in Nat
  BY <1>1 DEF History, Snapshots
<1>4. \A s \in S : s.id > captured[e]
  BY <1>1, <1>2, <1>3 DEF History
<1> QED BY <1>4 DEF Above, S

LEMMA ProbeKeeps ==
    ASSUME IInv, NEW e \in Tasks, ProbeTimeTravel(e)
    PROVE  IInv'
<1>1. OtherTypes'
  BY DEF ProbeTimeTravel, tableVars, IInv, ErasureTypeOK, OtherTypes
<1>2. TablesKept /\ UNCHANGED snaps
  BY SameTables DEF ProbeTimeTravel, IInv, tableVars
<1>3. TasksKept
  <2>1. CASE TableFails(e)
    BY <2>1, <1>2, TableFailsKeeps
  <2>2. CASE ~Resolves(TableOf(e), captured[e]) /\ TableDone(e, TRUE, "missing")
    BY <2>2, <1>2, Contiguous, TableDoneKeeps DEF Probes
  <2>3. CASE TableDone(e, TRUE, "error")
    BY <2>3, <1>2, TableDoneKeeps DEF Probes
  <2> QED BY <2>1, <2>2, <2>3 DEF ProbeTimeTravel
<1> QED BY <1>1, <1>2, <1>3, Together

LEMMA CrashKeeps ==
    ASSUME IInv, NEW e \in Tasks, CrashErasure(e)
    PROVE  IInv'
<1>1. TablesKept
  BY SameTables DEF CrashErasure, IInv
<1>2. requests' \in [Identifiers -> Requests \cup {None}]
  <2>1. OverallSuccess(e) \in BOOLEAN
    BY DEF OverallSuccess
  <2>2. \/ PutRequest(e, FALSE, FALSE)
        \/ PutRequest(e, TRUE, OverallSuccess(e))
        \/ UNCHANGED requests
    BY DEF CrashErasure
  <2>3. CASE UNCHANGED requests
    BY <2>3 DEF IInv, ErasureTypeOK
  <2> QED BY <2>1, <2>2, <2>3, RequestTypes
<1>3. inflight' \subseteq Statements
  <2>1. epc[e] \in Kinds => [kind |-> epc[e], table |-> TableOf(e),
                             identifier |-> subject[e]] \in Statements
    BY TableOfTypes DEF IInv, ErasureTypeOK, Statements
  <2> QED BY <2>1 DEF CrashErasure, IInv, ErasureTypeOK
<1>4. OtherTypes'
  BY <1>2, <1>3 DEF CrashErasure, IInv, ErasureTypeOK, OtherTypes
<1>5. TasksKept
  <2>1. Latest(snaps[TableOf(e)]).id \in Nat
    BY TableOfTypes, LatestFacts DEF IInv, HistoriesOK
  <2>2. /\ Goto(e, "crashed") /\ "crashed" \in EPCs
        /\ found' = [found EXCEPT ![e] = 0]
        /\ captured' = [captured EXCEPT ![e] = 0]
        /\ UNCHANGED <<target, results>>
    BY DEF CrashErasure, EPCs, Exits
  <2>3. 0 <= Latest(snaps[TableOf(e)]).id
    BY <2>1
  <2> QED BY <2>2, <2>3, <1>1, AdvanceKeeps
<1> QED BY <1>1, <1>4, <1>5, Together

-----------------------------------------------------------------------------
(***************************************************************************)
(* Part 4: the types, and what a table reported erased shows for good.     *)
(***************************************************************************)
LEMMA ErasureInit == Init => IInv
<1> SUFFICES ASSUME Init PROVE IInv
  OBVIOUS
<1>1. ErasureTypeOK
  BY ErasureAssumption DEF Init, ErasureTypeOK, Snapshots, Tables, EPCs
<1>2. PICK R \in SUBSET Trips : \E C \in SUBSET R :
         snaps = [tb \in Tables |-> {[id |-> 1, at |-> 0,
                                     rows |-> IF tb = "raw" THEN R ELSE C]}]
  BY DEF Init
<1>3. ASSUME NEW tb \in Tables
      PROVE  History(snaps[tb], now) /\ Latest(snaps[tb]).id = 1
  <2> PICK C \in SUBSET R :
           snaps = [b \in Tables |-> {[id |-> 1, at |-> 0,
                                      rows |-> IF b = "raw" THEN R ELSE C]}]
    BY <1>2
  <2> DEFINE s == [id |-> 1, at |-> 0, rows |-> IF tb = "raw" THEN R ELSE C]
  <2>1. snaps[tb] = {s} /\ s \in Snapshots /\ s.id = 1 /\ s.at = 0 /\ now = 0
    BY <1>2 DEF Init, Snapshots
  <2> HIDE DEF s
  <2>2. Latest(snaps[tb]) = s
    BY <2>1 DEF Latest
  <2> QED BY <2>1, <2>2 DEF History
<1>4. TasksOK
  BY <1>3 DEF Init, TasksOK, TableOf, Targets, Tables
<1>5. VerifiedMeansExpired
  BY DEF Init, VerifiedMeansExpired
<1> QED BY <1>1, <1>3, <1>4, <1>5 DEF IInv, HistoriesOK

LEMMA ErasureInductive ==
    ASSUME IInv, [Next]_vars
    PROVE  IInv'
<1>1. CASE Next
  <2>1. CASE Tick
    BY <2>1, TickKeeps
  <2>2. CASE \E i \in Identifiers : PostgresErases(i)
    BY <2>2, PostgresKeeps
  <2>3. CASE \E tb \in Tables, S \in SUBSET Trips :
                 WriterDeletes(tb, S) \/ WriterReads(tb, S)
    BY <2>3, WritersKeep
  <2>4. CASE \E tb \in Tables : WriterInserts(tb)
    BY <2>4, WritersKeep
  <2>5. CASE \E e \in Tasks : \E i \in Identifiers : StartErasure(e, i)
    BY <2>5, StartKeeps
  <2>6. CASE \E e \in Tasks : ErasureStep(e)
    <3> SUFFICES ASSUME NEW e \in Tasks, ErasureStep(e) PROVE IInv'
      BY <2>6
    <3>1. CASE DeleteRows(e) \/ TightenRetention(e) \/ VacuumTable(e)
      BY <3>1, StatementKeeps DEF DeleteRows, TightenRetention, VacuumTable, Kinds
    <3> QED BY <3>1, RecordKeeps, CountBeforeKeeps, CaptureKeeps,
               CountAfterKeeps, ProbeKeeps DEF ErasureStep
  <2>7. CASE \E e \in Tasks : CrashErasure(e)
    BY <2>7, CrashKeeps
  <2>8. CASE StartCompact \/ CompactFails \/ PublishMetrics
             \/ \E tb \in Tables : CompactVacuum(tb)
    BY <2>8, CompactKeeps
  <2>9. CASE \E s \in Statements : AthenaEnds(s)
    BY <2>9, AthenaKeeps
  <2> QED BY <1>1, <2>1, <2>2, <2>3, <2>4, <2>5, <2>6, <2>7, <2>8, <2>9 DEF Next
<1>2. CASE UNCHANGED vars
  <2>1. OtherTypes' /\ UNCHANGED taskVars
    BY <1>2 DEF vars, tableVars, taskVars, IInv, ErasureTypeOK, OtherTypes
  <2>2. TablesKept
    BY <1>2, SameTables DEF vars, tableVars, IInv
  <2> QED BY <2>1, <2>2, OthersTogether
<1> QED BY <1>1, <1>2

\* Every variable of the erasure has its type; the loop over the tables ends
\* with the last one (erasure/main.go:107-117).
THEOREM ErasureTypeCorrect == Spec => []ErasureTypeOK
<1>1. Init => IInv
  BY ErasureInit
<1>2. IInv /\ [Next]_vars => IInv'
  BY ErasureInductive
<1>3. IInv => ErasureTypeOK
  BY DEF IInv
<1> QED BY <1>1, <1>2, <1>3, PTL DEF Spec

\* A table that is reported erased, with rows found before, has lost the
\* captured snapshot and every older one for good: for any number of tasks,
\* writers, crashes and late statements (erasure/main.go:234-249).
THEOREM ErasureVerified == Spec => []VerifiedMeansExpired
<1>1. Init => IInv
  BY ErasureInit
<1>2. IInv /\ [Next]_vars => IInv'
  BY ErasureInductive
<1>3. IInv => VerifiedMeansExpired
  BY DEF IInv, VerifiedMeansExpired
<1> QED BY <1>1, <1>2, <1>3, PTL DEF Spec

-----------------------------------------------------------------------------
(***************************************************************************)
(* Part 5: erasures that run alone.  From its start to its exit an erasure *)
(* is the only one to commit, but for statements on its identifier that it *)
(* or an attempt before it gave up on, and VACUUMs.  If Postgres had lost  *)
(* the rows before, then after it writers have nothing of its subject to   *)
(* write.                                                                  *)
(***************************************************************************)
Clean(tb, i) == Live(tb) \cap RowsOf(i) = {}
Succeeded(e, tb) == results[e][tb] # None /\ results[e][tb].success
AtWork(e) == epc[e] \notin {"finish"} \cup Exits

PostgresFirst == "postgresLater" \notin Deviations

SubjectGone(e) ==
    PostgresFirst /\ epc[e] # "off" =>
        RowsOf(subject[e]) \cap (hot \cup read["raw"]) = {}

Alone(e) == Erasing(e) =>
    /\ \A f \in Tasks : Erasing(f) => f = e
    /\ \A tb \in Tables : read[tb] = {}
    /\ \A s \in inflight : s.kind = "delete" => s.identifier = subject[e]

LoopOrder(e) ==
    /\ epc[e] = "off" => target[e] = 1
    /\ AtWork(e) => results[e]["curated"] = None
    /\ AtWork(e) => (target[e] = 1 <=> results[e]["raw"] = None)
    /\ epc[e] \in {"finish", "ok"} => \A tb \in Tables : results[e][tb] # None
    /\ epc[e] = "ok" => \A tb \in Tables : results[e][tb].success

\* The raw table, once erased, stays so, and with it what is read from it.
ErasedSoFar(e) ==
    /\ epc[e] = "probe" => Clean(TableOf(e), subject[e])
    /\ PostgresFirst /\ Succeeded(e, "raw") => Clean("raw", subject[e])
    /\ PostgresFirst /\ Succeeded(e, "raw") /\ Succeeded(e, "curated") =>
          /\ Clean("curated", subject[e])
          /\ RowsOf(subject[e]) \cap read["curated"] = {}

\* What is committed since the capture holds no row of the subject.
NewestClean(e) ==
    epc[e] \in Kinds \cup {"after", "probe"} =>
        \A s \in snaps[TableOf(e)] : s.id > captured[e] => ~Holds(s, subject[e])

AInv == \A e \in Tasks :
    SubjectGone(e) /\ Alone(e) /\ LoopOrder(e) /\ ErasedSoFar(e) /\ NewestClean(e)

\* The live rows of the tables after a step, and the new snapshots.
Shrinks ==
    \A tb \in Tables : Latest(snaps'[tb]).rows \subseteq Latest(snaps[tb]).rows
NewWithout(i) ==
    \A tb \in Tables : \A u \in snaps'[tb] : u \in snaps[tb] \/ ~Holds(u, i)

LEMMA LiveLatest == \A tb \in Tables : Live(tb) = Latest(snaps[tb]).rows
BY DEF Live, Current, Latest

\* A commit shows what it was given.
LEMMA CommitShows ==
    ASSUME ErasureTypeOK, HistoriesOK, NEW tb \in Tables,
           NEW rows \in SUBSET Trips, Commit(tb, rows)
    PROVE  /\ \A b \in Tables : Latest(snaps'[b]).rows =
                  IF b = tb THEN rows ELSE Latest(snaps[b]).rows
           /\ \A b \in Tables : \A u \in snaps'[b] :
                  u \in snaps[b] \/ u.rows = rows
<1>1. CASE rows = Live(tb)
  BY <1>1, LiveLatest DEF Commit
<1>2. CASE rows # Live(tb)
  <2> DEFINE S == snaps[tb]
             new == [id |-> Latest(S).id + 1, at |-> now, rows |-> rows]
             N == S \cup {new}
  <2>1. snaps' = [snaps EXCEPT ![tb] = N]
    BY <1>2, LiveTypes DEF Commit
  <2>2. \A b \in Tables : snaps'[b] = IF b = tb THEN N ELSE snaps[b]
    BY <2>1 DEF ErasureTypeOK
  <2>3. Latest(N).rows = rows
    <3>1. History(S, now) /\ now \in Nat
      BY DEF HistoriesOK, ErasureTypeOK
    <3>2. /\ \A u \in S : u.id <= Latest(S).id /\ u.id \in Nat
          /\ Latest(S).id \in Nat
      BY <3>1, LatestFacts DEF History, Snapshots
    <3>3. History(N, now) /\ Latest(N).id = Latest(S).id + 1
      BY <3>1, CommitHistory
    <3>4. Latest(N) \in N
      BY <3>3, LatestFacts
    <3>5. Latest(N) \notin S
      BY <3>2, <3>3
    <3>6. Latest(N) = new
      BY <3>4, <3>5
    <3> QED BY <3>6
  <2>4. new.rows = rows
    OBVIOUS
  <2> HIDE DEF new
  <2> QED BY <2>2, <2>3, <2>4
<1> QED BY <1>1, <1>2

\* A VACUUM shows the same rows.
LEMMA VacuumShows ==
    ASSUME ErasureTypeOK, HistoriesOK, NEW tb \in Tables, Vacuum(tb)
    PROVE  /\ \A b \in Tables : Latest(snaps'[b]).rows = Latest(snaps[b]).rows
           /\ \A b \in Tables : snaps'[b] \subseteq snaps[b]
<1> DEFINE N == {s \in snaps[tb] : \/ s = Latest(snaps[tb])
                                   \/ now - s.at <= maxAge[tb]}
<1>1. snaps' = [snaps EXCEPT ![tb] = N]
  BY LiveTypes DEF Vacuum, Unexpired
<1>2. History(snaps[tb], now) /\ now \in Nat /\ maxAge[tb] \in Nat
  BY ErasureAssumption DEF HistoriesOK, ErasureTypeOK
<1>3. Latest(N) = Latest(snaps[tb])
  BY <1>2, VacuumHistory
<1>4. N \subseteq snaps[tb]
  OBVIOUS
<1>5. \A b \in Tables : snaps'[b] = IF b = tb THEN N ELSE snaps[b]
  BY <1>1 DEF ErasureTypeOK
<1> HIDE DEF N
<1> QED BY <1>3, <1>4, <1>5

\* A statement of an erasure only takes rows away; what a DELETE commits has
\* none of its identifier.
LEMMA EffectShows ==
    ASSUME ErasureTypeOK, HistoriesOK, NEW s \in Statements, Effect(s)
    PROVE  /\ Shrinks
           /\ \A i : (s.kind = "delete" => s.identifier = i) => NewWithout(i)
<1>1. s.table \in Tables
  BY DEF Statements
<1>2. CASE /\ s.kind = "delete"
           /\ Commit(s.table, Live(s.table) \ RowsOf(s.identifier))
  <2> DEFINE rows == Live(s.table) \ RowsOf(s.identifier)
  <2>1. rows \in SUBSET Trips
    BY <1>1, LiveTypes
  <2>2. rows \subseteq Latest(snaps[s.table]).rows
    BY <1>1, LiveLatest
  <2>3. rows \cap RowsOf(s.identifier) = {}
    OBVIOUS
  <2>4. Commit(s.table, rows)
    BY <1>2
  <2> HIDE DEF rows
  <2>5. /\ \A b \in Tables : Latest(snaps'[b]).rows =
               IF b = s.table THEN rows ELSE Latest(snaps[b]).rows
        /\ \A b \in Tables : \A u \in snaps'[b] : u \in snaps[b] \/ u.rows = rows
    BY <1>1, <2>1, <2>4, CommitShows
  <2>6. Shrinks
    BY <2>2, <2>5 DEF Shrinks
  <2>7. NewWithout(s.identifier)
    BY <2>3, <2>5 DEF NewWithout, Holds
  <2> QED BY <1>2, <2>6, <2>7
<1>3. CASE UNCHANGED snaps
  BY <1>3 DEF Shrinks, NewWithout
<1>4. CASE Vacuum(s.table)
  BY <1>1, <1>4, VacuumShows DEF Shrinks, NewWithout
<1> QED BY <1>2, <1>3, <1>4 DEF Effect

\* Steps of all but the tasks: writers insert only what they read, and only
\* when no erasure runs.
LEMMA OthersKeepAlone ==
    ASSUME IInv, AInv, UNCHANGED taskVars, hot' \subseteq hot,
           read'["raw"] \subseteq hot \cup read["raw"],
           read'["curated"] \subseteq Live("raw") \cup read["curated"],
           \A tb \in Tables :
               Latest(snaps'[tb]).rows \subseteq Live(tb) \cup read[tb],
           \A e \in Tasks : Erasing(e) => read' = read /\ NewWithout(subject[e]),
           \A s \in inflight' : s \in inflight \/ s.kind # "delete"
    PROVE  AInv'
<1> SUFFICES ASSUME NEW e \in Tasks
             PROVE  /\ SubjectGone(e)' /\ Alone(e)' /\ LoopOrder(e)'
                    /\ ErasedSoFar(e)' /\ NewestClean(e)'
  BY DEF AInv
<1>1. /\ epc' = epc /\ subject' = subject /\ target' = target
      /\ captured' = captured /\ results' = results
  BY DEF taskVars
<1>2. "raw" \in Tables /\ "curated" \in Tables /\ TableOf(e) \in Tables
  BY TableOfTypes DEF IInv, Tables
<1>3. /\ SubjectGone(e) /\ Alone(e) /\ LoopOrder(e) /\ ErasedSoFar(e)
      /\ NewestClean(e)
  BY DEF AInv
<1>4. \A tb \in Tables : Live(tb)' = Latest(snaps'[tb]).rows
  BY DEF Live, Current, Latest
<1>5. SubjectGone(e)'
  BY <1>1, <1>3 DEF SubjectGone
<1>6. Alone(e)'
  BY <1>1, <1>3 DEF Alone, Erasing
<1>7. LoopOrder(e)'
  BY <1>1, <1>3 DEF LoopOrder, AtWork
<1>8. ErasedSoFar(e)'
  <2>1. epc[e] = "probe" => \A tb \in Tables : read[tb] = {}
    BY <1>3 DEF Alone, Erasing, Exits
  <2>2. Succeeded(e, "raw") => epc[e] # "off"
    BY <1>3 DEF LoopOrder, AtWork, Exits, Succeeded
  <2>3. PostgresFirst /\ Succeeded(e, "raw") =>
            RowsOf(subject[e]) \cap (hot \cup read["raw"]) = {}
    BY <2>2, <1>3 DEF SubjectGone
  <2>4. epc'[e] = "probe" => Clean(TableOf(e), subject[e])'
    BY <1>1, <1>2, <1>3, <1>4, <2>1 DEF ErasedSoFar, Clean, TableOf
  <2>5. PostgresFirst /\ Succeeded(e, "raw") => Clean("raw", subject[e])'
    BY <1>1, <1>2, <1>3, <1>4, <2>3 DEF ErasedSoFar, Clean
  <2>6. PostgresFirst /\ Succeeded(e, "raw") /\ Succeeded(e, "curated") =>
            /\ Clean("curated", subject[e])'
            /\ RowsOf(subject[e]) \cap read'["curated"] = {}
    BY <1>1, <1>2, <1>3, <1>4 DEF ErasedSoFar, Clean
  <2> QED BY <2>4, <2>5, <2>6, <1>1 DEF ErasedSoFar, Succeeded
<1>9. NewestClean(e)'
  <2>1. epc[e] \in Kinds \cup {"after", "probe"} => Erasing(e)
    BY DEF Kinds, Erasing, Exits
  <2>2. TableOf(e)' = TableOf(e)
    BY <1>1 DEF TableOf
  <2> QED BY <1>1, <1>2, <1>3, <2>1, <2>2 DEF NewestClean, NewWithout
<1> QED BY <1>5, <1>6, <1>7, <1>8, <1>9

\* Steps of one task: what it leaves of the others.
OwnStep(e) ==
    /\ UNCHANGED <<hot, read, subject>>
    /\ Shrinks
    /\ \A s \in inflight' : \/ s \in inflight
                            \/ s.kind = "delete" => s.identifier = subject[e]
    /\ \A f \in Tasks : f # e =>
          /\ epc'[f] = epc[f] /\ target'[f] = target[f]
          /\ captured'[f] = captured[f] /\ results'[f] = results[f]

LEMMA OwnStepKeeps ==
    ASSUME IInv, AInv, NEW e \in Tasks, Erasing(e), OwnStep(e),
           LoopOrder(e)', ErasedSoFar(e)', NewestClean(e)'
    PROVE  AInv'
<1> SUFFICES ASSUME NEW f \in Tasks
             PROVE  /\ SubjectGone(f)' /\ Alone(f)' /\ LoopOrder(f)'
                    /\ ErasedSoFar(f)' /\ NewestClean(f)'
  BY DEF AInv
<1>1. hot' = hot /\ read' = read /\ subject' = subject
  BY DEF OwnStep
<1>2. \A g \in Tasks : Erasing(g) <=> g = e
  BY DEF AInv, Alone
<1>3. \A g \in Tasks : g # e => ~Erasing(g)' /\ epc'[g] = epc[g]
  BY <1>2 DEF OwnStep, Erasing
<1>4. epc[e] # "off"
  BY DEF Erasing
<1>5. SubjectGone(f)'
  BY <1>1, <1>3, <1>4 DEF AInv, SubjectGone
<1>6. Alone(f)'
  <2>1. Alone(e) /\ Erasing(e)
    BY DEF AInv
  <2>2. CASE f = e
    BY <2>1, <2>2, <1>1, <1>3 DEF Alone, OwnStep
  <2>3. CASE f # e
    BY <2>3, <1>3 DEF Alone
  <2> QED BY <2>2, <2>3
<1>7. CASE f = e
  BY <1>5, <1>6, <1>7
<1>8. CASE f # e
  <2>1. /\ epc'[f] = epc[f] /\ target'[f] = target[f]
        /\ results'[f] = results[f]
    BY <1>8 DEF OwnStep
  <2>2. LoopOrder(f) /\ ErasedSoFar(f)
    BY DEF AInv
  <2>3. LoopOrder(f)'
    BY <2>1, <2>2 DEF LoopOrder, AtWork
  <2>4. epc'[f] # "probe" /\ epc'[f] \notin Kinds \cup {"after", "probe"}
    BY <1>3, <1>8 DEF Erasing, Kinds, Exits
  <2>5. \A tb \in Tables : Clean(tb, subject[f]) => Clean(tb, subject[f])'
    <3>1. \A tb \in Tables : Live(tb)' = Latest(snaps'[tb]).rows
      BY DEF Live, Current, Latest
    <3> QED BY <3>1, <1>1, LiveLatest DEF Clean, OwnStep, Shrinks
  <2>6. ErasedSoFar(f)'
    BY <2>1, <2>2, <2>4, <2>5, <1>1 DEF ErasedSoFar, Succeeded, Tables
  <2> QED BY <1>5, <1>6, <2>3, <2>4, <2>6 DEF NewestClean
<1> QED BY <1>7, <1>8

\* A task goes on within a table, or gives up.
LEMMA OwnAdvance ==
    ASSUME IInv, AInv, NEW e \in Tasks, Erasing(e), OwnStep(e),
           NEW label \in EPCs, Goto(e, label), UNCHANGED <<target, results>>,
           label \notin {"off", "finish", "ok"},
           AtWork(e) \/ label \in Exits,
           label = "probe" => Clean(TableOf(e), subject[e]),
           label \in Kinds \cup {"after", "probe"} =>
              \A s \in snaps'[TableOf(e)] :
                  s.id > captured'[e] => ~Holds(s, subject[e])
    PROVE  AInv'
<1>1. epc'[e] = label
  BY DEF Goto, IInv, ErasureTypeOK
<1>2. LoopOrder(e) /\ ErasedSoFar(e)
  BY DEF AInv
<1>3. LoopOrder(e)'
  <2>1. AtWork(e)' => AtWork(e)
    BY <1>1 DEF AtWork
  <2> QED BY <1>1, <1>2, <2>1 DEF LoopOrder
<1>4. TableOf(e)' = TableOf(e) /\ TableOf(e) \in Tables
  BY TableOfTypes DEF TableOf, IInv
<1>5. ErasedSoFar(e)'
  <2>1. \A tb \in Tables : Live(tb)' = Latest(snaps'[tb]).rows
    BY DEF Live, Current, Latest
  <2>2. subject' = subject /\ read' = read
    BY DEF OwnStep
  <2>3. \A tb \in Tables : Clean(tb, subject[e]) => Clean(tb, subject[e])'
    BY <2>1, <2>2, LiveLatest DEF Clean, OwnStep, Shrinks
  <2>4. epc'[e] = "probe" => Clean(TableOf(e), subject[e])'
    BY <1>1, <1>4, <2>3 DEF Clean
  <2> QED BY <1>2, <2>2, <2>3, <2>4 DEF ErasedSoFar, Succeeded, Tables
<1>6. NewestClean(e)'
  BY <1>1, <1>4 DEF NewestClean, OwnStep
<1> QED BY <1>3, <1>5, <1>6, OwnStepKeeps

\* A task is done with a table, and the loop goes on.
LEMMA OwnTableDone ==
    ASSUME IInv, AInv, NEW e \in Tasks, AtWork(e), Erasing(e),
           NEW success \in BOOLEAN, NEW probe \in Probes,
           TableDone(e, success, probe),
           success => Clean(TableOf(e), subject[e]),
           UNCHANGED <<hot, read, snaps, subject>>,
           \A s \in inflight' : \/ s \in inflight
                                \/ s.kind = "delete" => s.identifier = subject[e]
    PROVE  AInv'
<1> DEFINE r == [rowsBefore |-> IF success THEN found[e] ELSE 0,
                 snapshot |-> IF success THEN captured[e] ELSE 0,
                 probe |-> probe, success |-> success]
<1>1. TableOf(e) \in Tables /\ target[e] \in 1..2 /\ Len(Targets) = 2
  BY TableOfTypes DEF IInv, ErasureTypeOK, Targets
<1>2. r \in Results /\ r.success = success
  BY DEF IInv, ErasureTypeOK, Results
<1>3. results' = [results EXCEPT ![e][TableOf(e)] = r]
  BY DEF TableDone
<1> HIDE DEF r
<1>4. r # None
  BY <1>2, NoneIsNoResult
<1>5. \A f \in Tasks, tb \in Tables :
          results'[f][tb] = IF f = e /\ tb = TableOf(e) THEN r ELSE results[f][tb]
  BY <1>1, <1>3 DEF IInv, ErasureTypeOK
<1>6. OwnStep(e)
  <2>1. Shrinks
    BY DEF Shrinks
  <2>2. \A f \in Tasks : f # e =>
            /\ epc'[f] = epc[f] /\ target'[f] = target[f]
            /\ captured'[f] = captured[f] /\ results'[f] = results[f]
    BY <1>1, <1>3 DEF TableDone, Goto, IInv, ErasureTypeOK
  <2> QED BY <2>1, <2>2 DEF OwnStep
<1>7. /\ TableOf(e) = IF target[e] = 1 THEN "raw" ELSE "curated"
      /\ epc'[e] = IF target[e] = 1 THEN "count" ELSE "finish"
      /\ target'[e] = 2
  BY <1>1 DEF TableDone, Goto, TableOf, Targets, IInv, ErasureTypeOK
<1>8. LoopOrder(e) /\ ErasedSoFar(e) /\ Alone(e)
  BY DEF AInv
<1>9. LoopOrder(e)'
  BY <1>4, <1>5, <1>7, <1>8 DEF LoopOrder, AtWork, Exits, Tables
<1>10. \A tb \in Tables : Clean(tb, subject[e])' <=> Clean(tb, subject[e])
  BY DEF Clean, Live, Current
<1>11. ErasedSoFar(e)'
  <2>1. epc'[e] # "probe"
    BY <1>7
  <2>2. subject' = subject /\ read' = read /\ \A tb \in Tables : read[tb] = {}
    BY <1>8 DEF Alone
  <2>3. \A tb \in Tables : Succeeded(e, tb)' =>
            IF tb = TableOf(e) THEN success ELSE Succeeded(e, tb)
    BY <1>2, <1>5 DEF Succeeded
  <2>4. PostgresFirst /\ Succeeded(e, "raw")' => Clean("raw", subject[e])
    BY <2>3, <1>8 DEF ErasedSoFar, Tables
  <2>5. Succeeded(e, "curated")' => Clean("curated", subject[e])
    BY <2>3, <1>7, <1>8 DEF LoopOrder, Succeeded, Tables
  <2> QED BY <2>1, <2>2, <2>4, <2>5, <1>10 DEF ErasedSoFar, Tables
<1>12. NewestClean(e)'
  BY <1>7 DEF NewestClean, Kinds
<1> QED BY <1>6, <1>9, <1>11, <1>12, OwnStepKeeps

\* No row counted is no row there.
LEMMA CountIsZero ==
    ASSUME IInv, NEW e \in Tasks, CountByIdentifier(e) = 0
    PROVE  Clean(TableOf(e), subject[e])
<1>1. Live(TableOf(e)) \subseteq Trips
  BY LiveTypes, TableOfTypes DEF IInv
<1>2. IsFiniteSet(Live(TableOf(e)) \cap RowsOf(subject[e]))
  BY <1>1, FS_Subset, ErasureAssumption
<1> QED BY <1>2, FS_EmptySet DEF CountByIdentifier, Clean

\* A step that leaves the snapshots and the other tasks alone.
LEMMA OwnQuiet ==
    ASSUME IInv, NEW e \in Tasks, NEW label \in EPCs, Goto(e, label),
           NEW c, captured' = [captured EXCEPT ![e] = c],
           UNCHANGED <<hot, read, subject, snaps, target, results>>,
           \A s \in inflight' : \/ s \in inflight
                                \/ s.kind = "delete" => s.identifier = subject[e]
    PROVE  OwnStep(e)
<1>1. Shrinks
  BY DEF Shrinks
<1>2. \A f \in Tasks : f # e => epc'[f] = epc[f] /\ captured'[f] = captured[f]
  BY DEF Goto, IInv, ErasureTypeOK
<1> QED BY <1>1, <1>2 DEF OwnStep

LEMMA AloneStart ==
    ASSUME "overlap" \notin Deviations, IInv, AInv,
           NEW e \in Tasks, NEW i \in Identifiers,
           StartErasure(e, i)
    PROVE  AInv'
<1>1. /\ epc[e] = "off" /\ Goto(e, "record")
      /\ \A f \in Tasks : ~Erasing(f)
      /\ \A s \in inflight : s.kind = "delete" => s.identifier = i
      /\ \A tb \in Tables : read[tb] = {}
      /\ PostgresFirst => RowsOf(i) \cap hot = {}
      /\ subject' = [subject EXCEPT ![e] = i]
      /\ UNCHANGED <<hot, read, tableVars, target, captured, results>>
  BY DEF StartErasure, Step, PostgresFirst
<1>2. \A f \in Tasks : /\ epc'[f] = IF f = e THEN "record" ELSE epc[f]
                       /\ subject'[f] = IF f = e THEN i ELSE subject[f]
  BY <1>1 DEF Goto, IInv, ErasureTypeOK
<1> SUFFICES ASSUME NEW f \in Tasks
             PROVE  /\ SubjectGone(f)' /\ Alone(f)' /\ LoopOrder(f)'
                    /\ ErasedSoFar(f)' /\ NewestClean(f)'
  BY DEF AInv
<1>3. /\ hot' = hot /\ read' = read /\ inflight' = inflight /\ snaps' = snaps
      /\ target' = target /\ captured' = captured /\ results' = results
  BY <1>1 DEF tableVars
<1>4. \A g \in Tasks : Erasing(g)' => g = e
  BY <1>1, <1>2 DEF Erasing
<1>5. Alone(f)'
  BY <1>1, <1>2, <1>3, <1>4 DEF Alone
<1>6. SubjectGone(f) /\ LoopOrder(f) /\ ErasedSoFar(f)
  BY DEF AInv
<1>7. \A tb \in Tables : \A j : Clean(tb, j)' <=> Clean(tb, j)
  BY <1>3 DEF Clean, Live, Current
<1>8. CASE f = e
  <2>1. SubjectGone(f)'
    BY <1>1, <1>2, <1>3, <1>8 DEF SubjectGone, Tables
  <2>2. LoopOrder(f)'
    BY <1>1, <1>2, <1>3, <1>6, <1>8 DEF LoopOrder, AtWork, Exits
  <2>3. \A tb \in Tables : results'[f][tb] = None
    BY <1>1, <1>3, <1>6, <1>8 DEF LoopOrder, AtWork, Exits, Tables
  <2>4. ErasedSoFar(f)' /\ NewestClean(f)'
    BY <2>3, <1>2, <1>8 DEF ErasedSoFar, NewestClean, Succeeded, Kinds, Tables
  <2> QED BY <2>1, <2>2, <2>4, <1>5
<1>9. CASE f # e
  <2>1. epc'[f] = epc[f] /\ subject'[f] = subject[f]
    BY <1>2, <1>9
  <2>2. SubjectGone(f)' /\ LoopOrder(f)'
    BY <2>1, <1>3, <1>6 DEF SubjectGone, LoopOrder, AtWork
  <2>3. epc[f] \notin Kinds \cup {"after", "probe"}
    BY <1>1 DEF Erasing, Exits, Kinds
  <2>4. ErasedSoFar(f)'
    BY <2>1, <2>3, <1>3, <1>6, <1>7 DEF ErasedSoFar, Succeeded, Tables
  <2>5. NewestClean(f)'
    BY <2>1, <2>3 DEF NewestClean
  <2> QED BY <2>2, <2>4, <2>5, <1>5
<1> QED BY <1>8, <1>9

LEMMA AloneRecord ==
    ASSUME IInv, AInv, NEW e \in Tasks, RecordRequest(e)
    PROVE  AInv'
<1>1. PICK label \in {"count", "error"} : epc[e] = "record" /\ Goto(e, label)
  BY DEF RecordRequest, Step
<1>2. UNCHANGED <<hot, read, subject, snaps, inflight, target, captured, results>>
  BY DEF RecordRequest, tableVars
<1>3. captured' = [captured EXCEPT ![e] = captured[e]]
  BY <1>2 DEF IInv, ErasureTypeOK
<1>4. Erasing(e) /\ AtWork(e) /\ label \in EPCs
  BY <1>1 DEF Erasing, AtWork, Exits, EPCs
<1>5. OwnStep(e)
  BY <1>1, <1>2, <1>3, <1>4, OwnQuiet
<1> QED BY <1>1, <1>2, <1>4, <1>5, OwnAdvance DEF Kinds

LEMMA AloneCountBefore ==
    ASSUME IInv, AInv, NEW e \in Tasks, CountBefore(e)
    PROVE  AInv'
<1>1. epc[e] = "count" /\ Erasing(e) /\ AtWork(e)
  BY DEF CountBefore, Erasing, AtWork, Exits
<1>2. UNCHANGED <<hot, read, subject, snaps, inflight>>
  BY DEF CountBefore, tableVars
<1>3. CASE CountByIdentifier(e) = 0 /\ TableDone(e, TRUE, "none")
  BY <1>1, <1>2, <1>3, CountIsZero, OwnTableDone DEF Probes
<1>4. CASE Goto(e, "capture") /\ UNCHANGED <<target, captured, results>>
  <2>1. captured' = [captured EXCEPT ![e] = captured[e]]
    BY <1>4 DEF IInv, ErasureTypeOK
  <2>2. "capture" \in EPCs
    BY DEF EPCs
  <2>3. OwnStep(e)
    BY <1>2, <1>4, <2>1, <2>2, OwnQuiet
  <2> QED BY <1>1, <1>4, <2>2, <2>3, OwnAdvance DEF Kinds
<1>5. CASE TableDone(e, FALSE, "none")
  BY <1>1, <1>2, <1>5, OwnTableDone DEF Probes
<1> QED BY <1>3, <1>4, <1>5 DEF CountBefore, TableFails

LEMMA AloneCapture ==
    ASSUME IInv, AInv, NEW e \in Tasks, CaptureSnapshot(e)
    PROVE  AInv'
<1>1. epc[e] = "capture" /\ Erasing(e) /\ AtWork(e)
  BY DEF CaptureSnapshot, Erasing, AtWork, Exits
<1>2. UNCHANGED <<hot, read, subject, snaps, inflight>>
  BY DEF CaptureSnapshot, tableVars
<1>3. CASE /\ Goto(e, "delete")
           /\ captured' = [captured EXCEPT ![e] = Current(TableOf(e)).id]
           /\ UNCHANGED <<target, found, results>>
  <2>1. "delete" \in EPCs
    BY DEF EPCs
  <2>2. OwnStep(e)
    BY <1>2, <1>3, <2>1, OwnQuiet
  <2>3. captured'[e] = Latest(snaps[TableOf(e)]).id /\ TableOf(e) \in Tables
    BY <1>3, LiveTypes, TableOfTypes DEF IInv, ErasureTypeOK
  <2>4. \A s \in snaps[TableOf(e)] : s.id <= Latest(snaps[TableOf(e)]).id
                                     /\ s.id \in Nat
    BY <2>3, LatestFacts DEF IInv, HistoriesOK, History, Snapshots
  <2>5. Latest(snaps[TableOf(e)]).id \in Nat
    BY <2>3, LatestFacts DEF IInv, HistoriesOK
  <2>6. \A s \in snaps'[TableOf(e)] : ~(s.id > captured'[e])
    BY <2>3, <2>4, <2>5, <1>2
  <2> QED BY <1>1, <1>3, <2>1, <2>2, <2>6, OwnAdvance
<1>4. CASE TableDone(e, FALSE, "none")
  BY <1>1, <1>2, <1>4, OwnTableDone DEF Probes
<1> QED BY <1>3, <1>4 DEF CaptureSnapshot, TableFails

LEMMA AloneStatement ==
    ASSUME IInv, AInv, NEW e \in Tasks, NEW kind \in Kinds,
           NEW next \in {"alter", "vacuum", "after"},
           ErasureStatement(e, kind, next)
    PROVE  AInv'
<1> DEFINE s == [kind |-> kind, table |-> TableOf(e), identifier |-> subject[e]]
<1>1. s \in Statements /\ s.identifier = subject[e]
  BY TableOfTypes DEF IInv, ErasureTypeOK, Statements
<1>2. /\ epc[e] = kind
      /\ \/ /\ Goto(e, next) /\ Effect(s)
            /\ UNCHANGED <<inflight, target, found, captured, results>>
         \/ TableFails(e) /\ Abandon(s)
      /\ UNCHANGED <<hot, read, now, requests, subject, cpc>>
  BY DEF ErasureStatement
<1> HIDE DEF s
<1>3. Erasing(e) /\ AtWork(e)
  BY <1>2 DEF Erasing, AtWork, Exits, Kinds
<1>4. CASE /\ Goto(e, next) /\ Effect(s)
           /\ UNCHANGED <<inflight, target, found, captured, results>>
  <2>1. Shrinks /\ NewWithout(subject[e])
    BY <1>1, <1>4, EffectShows DEF IInv
  <2>2. \A f \in Tasks : f # e => epc'[f] = epc[f]
    BY <1>4 DEF Goto, IInv, ErasureTypeOK
  <2>3. OwnStep(e)
    BY <1>2, <1>4, <2>1, <2>2 DEF OwnStep
  <2>4. \A u \in snaps[TableOf(e)] : u.id > captured[e] => ~Holds(u, subject[e])
    BY <1>2 DEF AInv, NewestClean
  <2>5. \A u \in snaps'[TableOf(e)] : u.id > captured'[e] => ~Holds(u, subject[e])
    BY <2>1, <2>4, <1>4, TableOfTypes DEF IInv, NewWithout
  <2>6. next \in EPCs
    BY DEF EPCs
  <2> QED BY <1>3, <1>4, <2>3, <2>5, <2>6, OwnAdvance DEF Kinds
<1>5. CASE TableFails(e) /\ Abandon(s)
  <2>1. UNCHANGED snaps /\ \A u \in inflight' : u \in inflight \/ u = s
    BY <1>5 DEF Abandon
  <2> QED BY <1>1, <1>2, <1>3, <1>5, <2>1, OwnTableDone DEF TableFails, Probes
<1> QED BY <1>2, <1>4, <1>5

LEMMA AloneCountAfter ==
    ASSUME IInv, AInv, NEW e \in Tasks, CountAfter(e)
    PROVE  AInv'
<1>1. epc[e] = "after" /\ Erasing(e) /\ AtWork(e)
  BY DEF CountAfter, Erasing, AtWork, Exits
<1>2. UNCHANGED <<hot, read, subject, snaps, inflight>>
  BY DEF CountAfter, tableVars
<1>3. CASE /\ CountByIdentifier(e) = 0 /\ Goto(e, "probe")
           /\ UNCHANGED <<target, found, captured, results>>
  <2>1. captured' = [captured EXCEPT ![e] = captured[e]] /\ captured' = captured
    BY <1>3 DEF IInv, ErasureTypeOK
  <2>2. "probe" \in EPCs
    BY DEF EPCs
  <2>3. OwnStep(e)
    BY <1>2, <1>3, <2>1, <2>2, OwnQuiet
  <2>4. Clean(TableOf(e), subject[e])
    BY <1>3, CountIsZero
  <2>5. \A s \in snaps[TableOf(e)] : s.id > captured[e] => ~Holds(s, subject[e])
    BY <1>1 DEF AInv, NewestClean
  <2> QED BY <1>1, <1>2, <1>3, <2>1, <2>2, <2>3, <2>4, <2>5, OwnAdvance
<1>4. CASE TableDone(e, FALSE, "none")
  BY <1>1, <1>2, <1>4, OwnTableDone DEF Probes
<1> QED BY <1>3, <1>4 DEF CountAfter, TableFails

LEMMA AloneProbe ==
    ASSUME IInv, AInv, NEW e \in Tasks, ProbeTimeTravel(e)
    PROVE  AInv'
<1>1. epc[e] = "probe" /\ Erasing(e) /\ AtWork(e)
  BY DEF ProbeTimeTravel, Erasing, AtWork, Exits
<1>2. UNCHANGED <<hot, read, subject, snaps, inflight>>
  BY DEF ProbeTimeTravel, tableVars
<1>3. Clean(TableOf(e), subject[e])
  BY <1>1 DEF AInv, ErasedSoFar
<1>4. CASE TableDone(e, TRUE, "missing") \/ TableDone(e, TRUE, "error")
  BY <1>1, <1>2, <1>3, <1>4, OwnTableDone DEF Probes
<1>5. CASE TableDone(e, FALSE, "none")
  BY <1>1, <1>2, <1>5, OwnTableDone DEF Probes
<1> QED BY <1>4, <1>5 DEF ProbeTimeTravel, TableFails

LEMMA AloneFinish ==
    ASSUME IInv, AInv, NEW e \in Tasks, FinishErasure(e)
    PROVE  AInv'
<1>1. /\ epc[e] = "finish"
      /\ epc'[e] = IF OverallSuccess(e) THEN "ok" ELSE "error"
  BY DEF FinishErasure, Step, Goto, IInv, ErasureTypeOK
<1>2. UNCHANGED <<hot, read, subject, snaps, inflight, target, captured, results>>
  BY DEF FinishErasure, tableVars
<1>3. \A f \in Tasks : f # e => epc'[f] = epc[f]
  BY DEF FinishErasure, Step, Goto, IInv, ErasureTypeOK
<1>4. Shrinks
  BY <1>2 DEF Shrinks
<1>5. OwnStep(e)
  BY <1>2, <1>3, <1>4 DEF OwnStep
<1>6. LoopOrder(e) /\ ErasedSoFar(e)
  BY DEF AInv
<1>7. LoopOrder(e)'
  BY <1>1, <1>2, <1>6 DEF LoopOrder, AtWork, Exits, OverallSuccess
<1>8. \A tb \in Tables : Clean(tb, subject[e])' <=> Clean(tb, subject[e])
  BY <1>2 DEF Clean, Live, Current
<1>9. ErasedSoFar(e)' /\ NewestClean(e)'
  BY <1>1, <1>2, <1>6, <1>8 DEF ErasedSoFar, NewestClean, Succeeded, Kinds, Tables
<1>10. Erasing(e)
  BY <1>1 DEF Erasing, Exits
<1> QED BY <1>5, <1>7, <1>9, <1>10, OwnStepKeeps

LEMMA AloneCrash ==
    ASSUME IInv, AInv, NEW e \in Tasks, CrashErasure(e)
    PROVE  AInv'
<1>1. Erasing(e) /\ Goto(e, "crashed") /\ captured' = [captured EXCEPT ![e] = 0]
  BY DEF CrashErasure
<1>2. UNCHANGED <<hot, read, subject, snaps, target, results>>
  BY DEF CrashErasure
<1>3. "crashed" \in EPCs
  BY DEF EPCs, Exits
<1>4. \A s \in inflight' : \/ s \in inflight
                           \/ s.kind = "delete" => s.identifier = subject[e]
  <2> DEFINE own == [kind |-> epc[e], table |-> TableOf(e),
                     identifier |-> subject[e]]
  <2>1. inflight' = inflight \/ inflight' = inflight \cup {own}
    BY DEF CrashErasure
  <2>2. own.identifier = subject[e]
    OBVIOUS
  <2> HIDE DEF own
  <2> QED BY <2>1, <2>2
<1>5. OwnStep(e)
  BY <1>1, <1>2, <1>3, <1>4, OwnQuiet
<1> QED BY <1>1, <1>2, <1>3, <1>5, OwnAdvance DEF Kinds, Exits

\* The steps of the others.
LEMMA AloneWriters ==
    ASSUME "overlap" \notin Deviations, IInv, AInv,
           NEW tb \in Tables, NEW S \in SUBSET Trips,
           WriterDeletes(tb, S) \/ WriterReads(tb, S) \/ WriterInserts(tb)
    PROVE  AInv'
<1>1. \A e \in Tasks : ~Erasing(e)
  BY DEF WriterDeletes, WriterReads, WriterInserts, MayWrite
<1>2. UNCHANGED <<taskVars, hot, inflight>>
  BY DEF WriterDeletes, WriterReads, WriterInserts, tableVars
<1>3. /\ read'["raw"] \subseteq hot \cup read["raw"]
      /\ read'["curated"] \subseteq Live("raw") \cup read["curated"]
  <2>1. CASE WriterDeletes(tb, S)
    BY <2>1 DEF WriterDeletes
  <2>2. CASE WriterReads(tb, S)
    BY <2>2 DEF WriterReads, IInv, ErasureTypeOK, Tables
  <2>3. CASE WriterInserts(tb)
    BY <2>3 DEF WriterInserts, IInv, ErasureTypeOK, Tables
  <2> QED BY <2>1, <2>2, <2>3
<1>4. \A b \in Tables : Latest(snaps'[b]).rows \subseteq Live(b) \cup read[b]
  <2>1. Live(tb) \subseteq Trips /\ read[tb] \subseteq Trips
    BY LiveTypes DEF IInv, ErasureTypeOK
  <2>2. CASE WriterDeletes(tb, S)
    <3>1. Live(tb) \ S \in SUBSET Trips /\ Commit(tb, Live(tb) \ S)
      BY <2>1, <2>2 DEF WriterDeletes
    <3>2. \A b \in Tables : Latest(snaps'[b]).rows =
             IF b = tb THEN Live(tb) \ S ELSE Latest(snaps[b]).rows
      BY <3>1, CommitShows DEF IInv
    <3> QED BY <3>2, LiveLatest
  <2>3. CASE WriterReads(tb, S)
    BY <2>3, LiveLatest DEF WriterReads, tableVars
  <2>4. CASE WriterInserts(tb)
    <3>1. /\ Live(tb) \cup read[tb] \in SUBSET Trips
          /\ Commit(tb, Live(tb) \cup read[tb])
      BY <2>1, <2>4 DEF WriterInserts
    <3>2. \A b \in Tables : Latest(snaps'[b]).rows =
             IF b = tb THEN Live(tb) \cup read[tb] ELSE Latest(snaps[b]).rows
      BY <3>1, CommitShows DEF IInv
    <3> QED BY <3>2, LiveLatest
  <2> QED BY <2>2, <2>3, <2>4
<1> QED BY <1>1, <1>2, <1>3, <1>4, OthersKeepAlone

LEMMA AloneAthena ==
    ASSUME IInv, AInv, NEW s \in Statements, AthenaEnds(s)
    PROVE  AInv'
<1>1. UNCHANGED <<taskVars, hot, read>> /\ s \in inflight
      /\ inflight' = inflight \ {s}
  BY DEF AthenaEnds
<1>2. CASE Effect(s)
  <2>1. Shrinks /\ \A i : (s.kind = "delete" => s.identifier = i) => NewWithout(i)
    BY <1>2, EffectShows DEF IInv
  <2>2. \A e \in Tasks : Erasing(e) => NewWithout(subject[e])
    BY <2>1, <1>1 DEF AInv, Alone
  <2>3. \A tb \in Tables : Latest(snaps'[tb]).rows \subseteq Live(tb)
    BY <2>1, LiveLatest DEF Shrinks
  <2> QED BY <1>1, <2>2, <2>3, OthersKeepAlone
<1>3. CASE UNCHANGED snaps
  <2>1. \A tb \in Tables : Latest(snaps'[tb]).rows \subseteq Live(tb)
    BY <1>3, LiveLatest
  <2>2. \A i : NewWithout(i)
    BY <1>3 DEF NewWithout
  <2> QED BY <1>1, <2>1, <2>2, OthersKeepAlone
<1> QED BY <1>2, <1>3 DEF AthenaEnds

LEMMA AloneQuiet ==
    ASSUME IInv, AInv, UNCHANGED <<taskVars, snaps, read>>, hot' \subseteq hot,
           \A s \in inflight' : s \in inflight \/ s.kind # "delete"
    PROVE  AInv'
<1>1. \A tb \in Tables : Latest(snaps'[tb]).rows \subseteq Live(tb)
  BY LiveLatest
<1>2. \A i : NewWithout(i)
  BY DEF NewWithout
<1> QED BY <1>1, <1>2, OthersKeepAlone

LEMMA AloneCompact ==
    ASSUME IInv, AInv,
           StartCompact \/ CompactFails \/ PublishMetrics
               \/ \E tb \in Tables : CompactVacuum(tb)
    PROVE  AInv'
<1>1. CASE StartCompact \/ PublishMetrics
  BY <1>1, AloneQuiet DEF StartCompact, PublishMetrics, tableVars
<1>2. CASE CompactFails
  <2>1. \A s \in inflight' : s \in inflight \/ s.kind # "delete"
    BY <1>2 DEF CompactFails, Abandon, tableVars
  <2>2. UNCHANGED <<hot, taskVars, snaps, read>>
    BY <1>2 DEF CompactFails, Abandon, tableVars
  <2> QED BY <2>1, <2>2, AloneQuiet
<1>3. CASE \E tb \in Tables : CompactVacuum(tb)
  <2> PICK tb \in Tables : CompactVacuum(tb)
    BY <1>3
  <2>1. UNCHANGED <<taskVars, hot, read, inflight>> /\ Vacuum(tb)
    BY DEF CompactVacuum
  <2>2. /\ \A b \in Tables : Latest(snaps'[b]).rows = Latest(snaps[b]).rows
        /\ \A b \in Tables : snaps'[b] \subseteq snaps[b]
    BY <2>1, VacuumShows DEF IInv
  <2>3. \A b \in Tables : Latest(snaps'[b]).rows \subseteq Live(b)
    BY <2>2, LiveLatest
  <2>4. \A i : NewWithout(i)
    BY <2>2 DEF NewWithout
  <2> QED BY <2>1, <2>3, <2>4, OthersKeepAlone
<1> QED BY <1>1, <1>2, <1>3

LEMMA AloneInit == Init => AInv
BY DEF Init, AInv, SubjectGone, Alone, LoopOrder, ErasedSoFar, NewestClean,
       Erasing, AtWork, Succeeded, Exits, Kinds, Tables

LEMMA AloneInductive ==
    ASSUME "overlap" \notin Deviations, IInv, AInv, [Next]_vars
    PROVE  AInv'
<1>1. CASE Next
  <2>1. CASE Tick
    BY <2>1, AloneQuiet DEF Tick, tableVars
  <2>2. CASE \E i \in Identifiers : PostgresErases(i)
    BY <2>2, AloneQuiet DEF PostgresErases, tableVars
  <2>3. CASE \E tb \in Tables, S \in SUBSET Trips :
                 WriterDeletes(tb, S) \/ WriterReads(tb, S)
    BY <2>3, AloneWriters
  <2>4. CASE \E tb \in Tables : WriterInserts(tb)
    BY <2>4, AloneWriters
  <2>5. CASE \E e \in Tasks : \E i \in Identifiers : StartErasure(e, i)
    BY <2>5, AloneStart
  <2>6. CASE \E e \in Tasks : ErasureStep(e)
    <3> SUFFICES ASSUME NEW e \in Tasks, ErasureStep(e) PROVE AInv'
      BY <2>6
    <3>1. CASE DeleteRows(e) \/ TightenRetention(e) \/ VacuumTable(e)
      BY <3>1, AloneStatement DEF DeleteRows, TightenRetention, VacuumTable, Kinds
    <3> QED BY <3>1, AloneRecord, AloneCountBefore, AloneCapture,
               AloneCountAfter, AloneProbe, AloneFinish DEF ErasureStep
  <2>7. CASE \E e \in Tasks : CrashErasure(e)
    BY <2>7, AloneCrash
  <2>8. CASE StartCompact \/ CompactFails \/ PublishMetrics
             \/ \E tb \in Tables : CompactVacuum(tb)
    BY <2>8, AloneCompact
  <2>9. CASE \E s \in Statements : AthenaEnds(s)
    BY <2>9, AloneAthena
  <2> QED BY <1>1, <2>1, <2>2, <2>3, <2>4, <2>5, <2>6, <2>7, <2>8, <2>9 DEF Next
<1>2. CASE UNCHANGED vars
  BY <1>2, AloneQuiet DEF vars, tableVars
<1> QED BY <1>1, <1>2

-----------------------------------------------------------------------------
(***************************************************************************)
(* Part 6: which steps report a table erased.                              *)
(***************************************************************************)
Told(e, tb) ==
    LET r == results'[e][tb] IN
    /\ results[e][tb] = None /\ r # None
    /\ r.success /\ r.rowsBefore > 0 /\ r.probe # "error"

\* Only the time travel check does, of rows that were found.
LEMMA TellerIsProbe ==
    ASSUME IInv, Next, NEW e \in Tasks, NEW tb \in Tables, Told(e, tb)
    PROVE  /\ ProbeTimeTravel(e) /\ tb = TableOf(e)
           /\ ~TableFails(e) /\ ~TableDone(e, TRUE, "error")
<1>1. results'[e][tb] # results[e][tb]
  BY DEF Told
<1>2. \A f \in Tasks : \A success, probe :
          TableDone(f, success, probe) =>
              /\ f = e /\ tb = TableOf(e)
              /\ success /\ found[e] > 0 /\ probe # "error"
  <2> SUFFICES ASSUME NEW f \in Tasks, NEW success, NEW probe,
                      TableDone(f, success, probe)
               PROVE  /\ f = e /\ tb = TableOf(e)
                      /\ success /\ found[e] > 0 /\ probe # "error"
    OBVIOUS
  <2> DEFINE r == [rowsBefore |-> IF success THEN found[f] ELSE 0,
                   snapshot |-> IF success THEN captured[f] ELSE 0,
                   probe |-> probe, success |-> success]
  <2>1. results' = [results EXCEPT ![f][TableOf(f)] = r]
    BY DEF TableDone
  <2>2. r.success = success /\ r.probe = probe
      /\ r.rowsBefore = IF success THEN found[f] ELSE 0
    OBVIOUS
  <2> HIDE DEF r
  <2>3. f = e /\ tb = TableOf(e) /\ results'[e][tb] = r
    BY <1>1, <2>1 DEF IInv, ErasureTypeOK
  <2>4. r.success /\ r.rowsBefore > 0 /\ r.probe # "error"
    BY <2>3 DEF Told
  <2> QED BY <2>2, <2>3, <2>4
<1>3. ~TableFails(e) /\ \A f \in Tasks : ~TableFails(f)
  BY <1>2 DEF TableFails
<1>4. results' # results
  BY <1>1
<1>5. PICK f \in Tasks : ErasureStep(f)
  BY <1>4 DEF Next, Tick, PostgresErases, WriterDeletes, WriterReads,
       WriterInserts, StartErasure, CrashErasure, StartCompact, CompactFails,
       PublishMetrics, CompactVacuum, AthenaEnds, taskVars
<1>6. ProbeTimeTravel(f)
  <2>1. ~CountBefore(f)
    <3>1. epc[f] = "count" => ~(found[f] > 0)
      BY DEF IInv, TasksOK
    <3> QED BY <3>1, <1>2, <1>3, <1>4 DEF CountBefore
  <2>2. ~RecordRequest(f) /\ ~FinishErasure(f)
    BY <1>4 DEF RecordRequest, FinishErasure
  <2>3. ~CaptureSnapshot(f) /\ ~CountAfter(f)
    BY <1>3, <1>4 DEF CaptureSnapshot, CountAfter
  <2>4. ~DeleteRows(f) /\ ~TightenRetention(f) /\ ~VacuumTable(f)
    BY <1>3, <1>4 DEF DeleteRows, TightenRetention, VacuumTable,
         ErasureStatement
  <2> QED BY <1>5, <2>1, <2>2, <2>3, <2>4 DEF ErasureStep
<1>7. f = e /\ tb = TableOf(e)
  BY <1>2, <1>6 DEF ProbeTimeTravel, TableFails
<1>8. ~TableDone(e, TRUE, "error")
  BY <1>2
<1> QED BY <1>3, <1>6, <1>7, <1>8


\* After an erasure that exits with code zero no table shows a row of its
\* subject again, whatever fails, comes late or crashes, before it, in it and
\* after it, for any number of erasures one after the other
\* (erasure/main.go:107-146).
THEOREM AloneStaysErased ==
    ASSUME Deviations = {}
    PROVE  Spec => []ErasedStaysErased
<1>0. "overlap" \notin Deviations /\ PostgresFirst
  BY DEF PostgresFirst
<1>1. Init => IInv /\ AInv
  BY ErasureInit, AloneInit
<1>2. IInv /\ AInv /\ [Next]_vars => IInv' /\ AInv'
  BY <1>0, ErasureInductive, AloneInductive
<1>3. AInv => ErasedStaysErased
  <2> SUFFICES ASSUME AInv, NEW e \in Tasks, epc[e] = "ok", NEW tb \in Tables
               PROVE  Clean(tb, subject[e])
    BY DEF ErasedStaysErased, Clean
  <2>1. LoopOrder(e) /\ ErasedSoFar(e)
    BY DEF AInv
  <2>2. \A b \in Tables : Succeeded(e, b)
    BY <2>1 DEF LoopOrder, Succeeded
  <2> QED BY <1>0, <2>1, <2>2 DEF ErasedSoFar, Tables
<1> QED BY <1>1, <1>2, <1>3, PTL DEF Spec

\* A table that an erasure reports erased, with rows found before, has at that
\* moment no snapshot with a row of the subject: the probe of one snapshot
\* speaks for all of them, whether Postgres still has the rows or not
\* (erasure/main.go:234-249).
THEOREM AloneErasedWhenTold ==
    ASSUME "overlap" \notin Deviations
    PROVE  Spec => ErasedWhenTold
<1>1. Init => IInv /\ AInv
  BY ErasureInit, AloneInit
<1>2. IInv /\ AInv /\ [Next]_vars => IInv' /\ AInv'
  BY ErasureInductive, AloneInductive
<1> DEFINE Erased == \A e \in Tasks, tb \in Tables :
              Told(e, tb) => \A s \in snaps'[tb] : ~Holds(s, subject[e])
<1>3. IInv /\ AInv /\ [Next]_vars => [Erased]_vars
  <2> SUFFICES ASSUME IInv, AInv, Next, NEW e \in Tasks, NEW tb \in Tables,
                      Told(e, tb), NEW s \in snaps'[tb]
               PROVE  ~Holds(s, subject[e])
    OBVIOUS
  <2>1. /\ ProbeTimeTravel(e) /\ tb = TableOf(e)
        /\ ~TableFails(e) /\ ~TableDone(e, TRUE, "error")
    BY TellerIsProbe
  <2>2. /\ epc[e] = "probe" /\ snaps' = snaps
        /\ ~Resolves(TableOf(e), captured[e])
    BY <2>1 DEF ProbeTimeTravel, tableVars
  <2>3. s.id > captured[e]
    BY <2>1, <2>2, Contiguous DEF Above
  <2> QED BY <2>1, <2>2, <2>3 DEF AInv, NewestClean
<1>4. [Erased]_vars <=> [\A e \in Tasks, tb \in Tables :
          LET r == results'[e][tb] IN
          /\ results[e][tb] = None /\ r # None
          /\ r.success /\ r.rowsBefore > 0 /\ r.probe # "error"
          => \A s \in snaps'[tb] : ~Holds(s, subject[e])]_vars
  BY DEF Told
<1> HIDE DEF Erased
<1> QED BY <1>1, <1>2, <1>3, <1>4, PTL DEF Spec, ErasedWhenTold
=============================================================================
