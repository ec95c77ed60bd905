--------------------------- MODULE RagStore_proofs ---------------------------
(***************************************************************************)
(* Theorems about RagStore and the DocumentStore it extends, for any       *)
(* sessions, ids, chunks and failures, and any size of a page.             *)
(***************************************************************************)
EXTENDS RagStore, FiniteSetTheorems, WellFoundedInduction, TLAPS

-----------------------------------------------------------------------------
(* Sets of ids: their least element, and the numbers of their elements.    *)

LEMMA LeastId ==
    ASSUME NEW S \in SUBSET Nat, S # {}
    PROVE  Min(S) \in S /\ \A i \in S : Min(S) <= i
<1> DEFINE less == OpToRel(<, Nat)
<1>1. \E i \in S : \A j \in S : ~(<<j, i>> \in less)
  <2> HIDE DEF less
  <2>1. IsWellFoundedOn(less, Nat)
    BY NatLessThanWellFounded DEF less
  <2> QED BY <2>1, WFMin
<1>2. \A i, j \in S : j < i => <<j, i>> \in less
  BY DEF OpToRel
<1> HIDE DEF less
<1>3. PICK i \in S : \A j \in S : ~(<<j, i>> \in less)
  BY <1>1
<1>4. \A j \in S : ~(j < i)
  BY <1>2, <1>3
<1>5. \A j \in S : i <= j
  BY <1>4
<1> QED BY <1>5 DEF Min

LEMMA IdsFinite ==
    ASSUME NEW D \in SUBSET Id
    PROVE  IsFiniteSet(D) /\ Cardinality(D) \in Nat /\ Cardinality(D) <= MaxId
<1>1. MaxId \in Nat
  BY StoreAssumption
<1>2. IsFiniteSet(Id) /\ Cardinality(Id) = MaxId
  BY <1>1, FS_Interval DEF Id
<1>3. IsFiniteSet(D) /\ Cardinality(D) <= Cardinality(Id)
  BY <1>2, FS_Subset
<1> QED BY <1>2, <1>3, FS_CardinalityType

Below(D, i) == {j \in D : j < i}
Rank(D, i) == Cardinality(Below(D, i))

(* The number of a document among all is its own, and each number is that  *)
(* of a document: DocumentNumber is well-defined.                          *)
LEMMA Ranks ==
    ASSUME NEW D \in SUBSET Id
    PROVE  /\ \A i \in D : Rank(D, i) \in 0 .. Cardinality(D) - 1
           /\ \A i, j \in D : Rank(D, i) = Rank(D, j) => i = j
           /\ \A n \in 0 .. Cardinality(D) - 1 : \E i \in D : Rank(D, i) = n
<1>0. MaxId \in Nat /\ \A i \in D : i \in Nat /\ 1 <= i /\ i <= MaxId
  BY StoreAssumption DEF Id
<1>1. ASSUME NEW T, T \subseteq D
      PROVE  IsFiniteSet(T) /\ Cardinality(T) \in Nat /\ Cardinality(T) <= Cardinality(D)
  BY <1>1, IdsFinite, FS_Subset, FS_CardinalityType
<1>2. ASSUME NEW i \in D, NEW S, S \subseteq D, Below(D, i) \cup {i} \subseteq S
      PROVE  Rank(D, i) < Cardinality(S)
  <2>1. i \notin Below(D, i) /\ Below(D, i) \subseteq D
    BY <1>0 DEF Below
  <2>2. Cardinality(Below(D, i) \cup {i}) = Rank(D, i) + 1
    BY <2>1, <1>1, FS_AddElement DEF Rank
  <2>3. Cardinality(Below(D, i) \cup {i}) <= Cardinality(S)
    BY <1>1, <1>2, FS_Subset
  <2>4. Rank(D, i) \in Nat /\ Cardinality(S) \in Nat
    BY <2>1, <1>1, <1>2 DEF Rank
  <2> QED BY <2>2, <2>3, <2>4
<1>3. ASSUME NEW i \in D
      PROVE  Rank(D, i) \in 0 .. Cardinality(D) - 1
  <2>1. Below(D, i) \cup {i} \subseteq D
    BY DEF Below
  <2>2. Rank(D, i) < Cardinality(D) /\ Rank(D, i) \in Nat /\ Cardinality(D) \in Nat
    BY <2>1, <1>1, <1>2 DEF Rank
  <2> QED BY <2>2
<1>4. ASSUME NEW i \in D, NEW j \in D, i < j
      PROVE  Rank(D, i) < Rank(D, j)
  <2>1. \A k \in D : k < i \/ k = i => k < j
    BY <1>0, <1>4
  <2>2. Below(D, i) \cup {i} \subseteq Below(D, j) /\ Below(D, j) \subseteq D
    BY <2>1 DEF Below
  <2> QED BY <2>2, <1>2 DEF Rank
<1>5. ASSUME NEW i \in D, NEW j \in D, Rank(D, i) = Rank(D, j)
      PROVE  i = j
  <2>1. Rank(D, i) \in Int
    BY <1>3
  <2>2. ~(i < j) /\ ~(j < i)
    BY <2>1, <1>4, <1>5
  <2> QED BY <2>2, <1>0
<1>6. ASSUME NEW n \in 0 .. Cardinality(D) - 1
      PROVE  \E i \in D : Rank(D, i) = n
  <2> DEFINE upTo(i) == {j \in D : j <= i}
             S == {i \in 0 .. MaxId : Cardinality(upTo(i)) > n}
  <2>1. \A i : upTo(i) \subseteq D /\ Cardinality(upTo(i)) \in Nat
    BY <1>1
  <2>2. upTo(MaxId) = D /\ upTo(0) = {}
    BY <1>0
  <2>3. Cardinality(D) \in Nat /\ Cardinality({}) = 0
    BY <1>1, FS_EmptySet
  <2>4. MaxId \in S /\ 0 \notin S /\ S \subseteq 0 .. MaxId
    <3> HIDE DEF upTo
    <3>1. Cardinality(upTo(MaxId)) > n /\ ~(Cardinality(upTo(0)) > n)
      BY <2>2, <2>3
    <3> QED BY <3>1, <1>0
  <2> HIDE DEF S
  <2> DEFINE i == Min(S)
  <2>5. i \in S /\ \A j \in S : i <= j
    <3>1. S \in SUBSET Nat /\ S # {}
      BY <2>4, <1>0
    <3> QED BY <3>1, LeastId
  <2> HIDE DEF i
  <2>6. i \in 1 .. MaxId /\ i - 1 \in 0 .. MaxId /\ i - 1 \notin S
    BY <2>4, <2>5, <1>0
  <2>7. Cardinality(upTo(i - 1)) <= n /\ Cardinality(upTo(i)) > n
    <3> USE DEF S
    <3> HIDE DEF upTo
    <3> QED BY <2>1, <2>5, <2>6
  <2>8. upTo(i - 1) = Below(D, i)
    <3>1. \A j \in D : j <= i - 1 <=> j < i
      BY <2>6, <1>0
    <3> QED BY <3>1 DEF Below
  <2>9. upTo(i) = IF i \in D THEN Below(D, i) \cup {i} ELSE Below(D, i)
    <3>1. \A j \in D : j <= i <=> j < i \/ j = i
      BY <2>6, <1>0
    <3> QED BY <3>1 DEF Below
  <2> HIDE DEF upTo
  <2>10. Rank(D, i) <= n /\ Rank(D, i) \in Nat
    <3>1. Below(D, i) \subseteq D
      BY DEF Below
    <3> QED BY <2>7, <2>8, <3>1, <1>1 DEF Rank
  <2>11. i \in D
    <3>1. Cardinality(upTo(i - 1)) \in Nat
      BY <2>1
    <3> QED BY <2>7, <2>8, <2>9, <3>1
  <2>12. Cardinality(upTo(i)) = Rank(D, i) + 1
    <3>1. i \notin Below(D, i) /\ Below(D, i) \subseteq D
      BY <2>6 DEF Below
    <3>2. Cardinality(Below(D, i) \cup {i}) = Rank(D, i) + 1
      BY <3>1, <1>1, FS_AddElement DEF Rank
    <3> QED BY <3>2, <2>9, <2>11
  <2>13. Rank(D, i) = n
    BY <2>7, <2>10, <2>12
  <2> QED BY <2>11, <2>13
<1> QED BY <1>3, <1>5, <1>6

(* A page holds the documents whose numbers follow the offset, and the     *)
(* offset moves on to the first number that is not on it.                  *)
LEMMA PageIs ==
    ASSUME NEW offset \in Nat, NEW limit \in Nat, Documents(db) \in SUBSET Id
    PROVE  LET D == Documents(db)
               end == offset + Cardinality(Page(offset, limit))
           IN  /\ Page(offset, limit) \subseteq D /\ end \in Nat
               /\ offset <= MaxId => end <= MaxId
               /\ offset <= Cardinality(D) =>
                     /\ end <= Cardinality(D)
                     /\ Page(offset, limit) = {i \in D : offset <= Rank(D, i) /\ Rank(D, i) < end}
<1> DEFINE D == Documents(db)
           P == Page(offset, limit)
           N == Cardinality(D)
           J == {k \in offset .. offset + limit - 1 : k < N}
<1>1. D \in SUBSET Id /\ N \in Nat /\ N <= MaxId /\ IsFiniteSet(D) /\ MaxId \in Nat
  BY IdsFinite, StoreAssumption
<1>2. /\ \A i \in D : Rank(D, i) \in 0 .. N - 1
      /\ \A i, j \in D : Rank(D, i) = Rank(D, j) => i = j
      /\ \A n \in 0 .. N - 1 : \E i \in D : Rank(D, i) = n
  BY <1>1, Ranks
<1>3. P = {DocumentNumber(n) : n \in J}
  BY DEF Page
<1>4. \A n : DocumentNumber(n) = CHOOSE i \in D : Rank(D, i) = n
  BY DEF DocumentNumber, Rank, Below
<1> HIDE DEF D, P, N
<1>5. \A n \in J : n \in 0 .. N - 1
  BY <1>1
<1>6. \A n \in J : DocumentNumber(n) \in D /\ Rank(D, DocumentNumber(n)) = n
  BY <1>2, <1>4, <1>5
<1>7. \A i \in P : i \in D /\ Rank(D, i) \in J
  BY <1>3, <1>6
<1>8. \A i \in D : Rank(D, i) \in J => i \in P
  BY <1>2, <1>3, <1>6
<1>9. P = {i \in D : Rank(D, i) \in J}
  BY <1>7, <1>8
<1>10. IsFiniteSet(P) /\ Cardinality(P) \in Nat /\ IsFiniteSet(J) /\ Cardinality(J) = Cardinality(P)
  <2> DEFINE f == [i \in P |-> Rank(D, i)]
  <2>1. f \in [P -> J]
    BY <1>7
  <2>2. \A i, j \in P : f[i] = f[j] => i = j
    BY <1>2, <1>7
  <2>3. \A n \in J : \E i \in P : f[i] = n
    BY <1>3, <1>6
  <2>4. ExistsBijection(P, J)
    BY <2>1, <2>2, <2>3 DEF ExistsBijection, Bijection, Injection, Surjection, IsInjective
  <2>5. IsFiniteSet(P)
    BY <1>1, <1>7, FS_Subset
  <2> QED BY <2>4, <2>5, FS_Bijection, FS_CardinalityType
<1>11. offset + limit <= N => J = offset .. offset + limit - 1
  BY <1>1
<1>12. offset <= N /\ N < offset + limit => J = offset .. N - 1
  BY <1>1
<1>13. N < offset => J = {}
  BY <1>1
<1> HIDE DEF J
<1>14. \A a, b \in Int : Cardinality(a .. b) = IF a > b THEN 0 ELSE b - a + 1
  BY FS_Interval
<1>15. offset + limit <= N => Cardinality(P) = limit
  BY <1>10, <1>11, <1>14, <1>1
<1>16. offset <= N /\ N < offset + limit => Cardinality(P) = N - offset
  BY <1>10, <1>12, <1>14, <1>1
<1>17. N < offset => Cardinality(P) = 0
  BY <1>10, <1>13, FS_EmptySet
<1> DEFINE end == offset + Cardinality(P)
<1>18. end \in Nat /\ (offset <= MaxId => end <= MaxId) /\ (offset <= N => end <= N)
  BY <1>1, <1>10, <1>15, <1>16, <1>17
<1>19. offset <= N => J = offset .. end - 1
  BY <1>1, <1>11, <1>12, <1>15, <1>16
<1>20. offset <= N => P = {i \in D : offset <= Rank(D, i) /\ Rank(D, i) < end}
  <2>1. \A i \in D : Rank(D, i) \in Int
    BY <1>2
  <2>2. offset <= N => \A i \in D : Rank(D, i) \in J <=> offset <= Rank(D, i) /\ Rank(D, i) < end
    BY <2>1, <1>18, <1>19
  <2> HIDE DEF end
  <2> QED BY <2>2, <1>9
<1>21. P \subseteq D
  BY <1>7
<1> QED BY <1>18, <1>20, <1>21 DEF D, P, N

-----------------------------------------------------------------------------
(* Types. *)

LEMMA Constants ==
    /\ MaxId \in Nat /\ MaxFaults \in Nat /\ NChunks \in Nat \ {0} /\ BatchSize \in Nat \ {0}
    /\ \A i \in Id : i \in Nat /\ i # 0 /\ i # None /\ 1 <= i /\ i <= MaxId
    /\ 0 \in Record /\ None \in Record /\ Id \subseteq Record /\ 0 # None
    /\ NoRecords \in [Id -> Record] /\ \A i \in Id : NoRecords[i] = None
BY StoreAssumption, RagAssumption DEF Id, Record, None, NoRecords

LEMMA Blank ==
    /\ NoJob \in Job /\ NoDelete \in Delete /\ NoSync \in Sync /\ NoReader \in Reader
    /\ \A step \in {"rows", "ok", "failed", "error"} : [NoSync EXCEPT !.step = step] \in Sync
<1>1. NoJob \in Job /\ NoDelete \in Delete
  BY DEF NoJob, Job, NoDelete, Delete
<1>2. NoSync \in Sync /\ \A step \in {"rows", "ok", "failed", "error"} : [NoSync EXCEPT !.step = step] \in Sync
  BY Constants DEF NoSync, Sync
<1>3. NoReader \in Reader
  BY Constants DEF NoReader, Reader
<1> QED BY <1>1, <1>2, <1>3

LEMMA FaultType ==
    ASSUME StoreTypeOK, Fault
    PROVE  faults' \in 0 .. MaxFaults
BY Constants DEF StoreTypeOK, Fault

(* A row is written, or none: ids with a row stay below the counter. *)
LEMMA RowType ==
    ASSUME StoreTypeOK, NEW i, NEW v \in Record,
           db' = [db EXCEPT ![i] = v], v = None \/ db[i] # None, nextId' = nextId
    PROVE  db' \in [Id -> Record] /\ \A j \in Id : db'[j] # None => j < nextId'
BY DEF StoreTypeOK

LEMMA JobTypes ==
    ASSUME StoreTypeOK, NEW s \in Session, JobStep(s)
    PROVE  StoreTypeOK'
<1>0. /\ job \in [Session -> Job] /\ db \in [Id -> Record] /\ dirs \in [Id -> Record]
      /\ \A i \in Id : db[i] # None => i < nextId
      /\ del \in Delete /\ sync \in Sync /\ nextId \in 1 .. MaxId + 1
  BY DEF StoreTypeOK
<1>1. \A step \in {"insert", "mkdir", "commit", "update", "undo dir", "undo row", "ok", "error"} :
         Goto(s, step) => job' \in [Session -> Job]
  <2> SUFFICES ASSUME NEW step \in {"insert", "mkdir", "commit", "update", "undo dir", "undo row", "ok", "error"},
                      Goto(s, step)
               PROVE  job' \in [Session -> Job]
    OBVIOUS
  <2>1. [job[s] EXCEPT !.step = step] \in Job
    BY <1>0 DEF Job
  <2>2. job' = [job EXCEPT ![s] = [job[s] EXCEPT !.step = step]]
    BY <1>0 DEF Goto
  <2> QED BY <1>0, <2>1, <2>2
<1>2. job[s].doc \in Record /\ job[s].id \in {0} \cup Id
  BY <1>0, Constants DEF Job
<1>3. CASE CheckParent(s)
  BY <1>0, <1>1, <1>3 DEF CheckParent, At, StoreTypeOK
<1>4. CASE InsertRow(s)
  <2>1. nextId \in Id /\ nextId' = nextId + 1 /\ db' = [db EXCEPT ![nextId] = 0]
    BY <1>0, <1>4, Constants DEF InsertRow, Id
  <2>2. nextId' \in 1 .. MaxId + 1
    BY <2>1, <1>0, <1>4, Constants DEF InsertRow
  <2>3. db' \in [Id -> Record] /\ \A i \in Id : db'[i] # None => i < nextId'
    BY <2>1, <1>0, Constants
  <2>4. job' \in [Session -> Job]
    <3> DEFINE r == [job[s] EXCEPT !.step = "mkdir", !.id = nextId,
                                   !.doc = IF job[s].kind = "put" THEN nextId ELSE @]
    <3>1. job[s] \in Job
      BY <1>0
    <3>2. r \in Job
      BY <2>1, <3>1 DEF Job
    <3>3. job' = [job EXCEPT ![s] = r]
      BY <1>0, <1>4 DEF InsertRow
    <3> HIDE DEF r
    <3> QED BY <1>0, <3>2, <3>3
  <2> QED BY <2>2, <2>3, <2>4, <1>4 DEF InsertRow, StoreTypeOK
<1>5. CASE MakeDir(s)
  <2>1. dirs' \in [Id -> Record]
    BY <1>0, <1>5, Constants DEF MakeDir
  <2>2. job' \in [Session -> Job]
    BY <1>1, <1>5 DEF MakeDir, AfterError
  <2> QED BY <2>1, <2>2, <1>0, <1>5 DEF MakeDir, StoreTypeOK
<1>6. CASE CommitDir(s)
  <2>1. dirs' \in [Id -> Record]
    BY <1>0, <1>2, <1>6, Constants DEF CommitDir
  <2>2. job' \in [Session -> Job]
    BY <1>1, <1>6 DEF CommitDir, AfterError
  <2> QED BY <2>1, <2>2, <1>0, <1>6 DEF CommitDir, StoreTypeOK
<1>7. CASE UpdateRow(s)
  <2>1. db' = [db EXCEPT ![job[s].id] = IF @ = None THEN None ELSE job[s].doc] /\ nextId' = nextId
    BY <1>7 DEF UpdateRow
  <2>2. db' \in [Id -> Record] /\ \A j \in Id : db'[j] # None => j < nextId'
    BY <2>1, <1>0, <1>2, Constants
  <2> QED BY <2>2, <1>0, <1>1, <1>7 DEF UpdateRow, At, StoreTypeOK
<1>8. CASE UndoDir(s)
  <2>1. dirs' \in [Id -> Record]
    BY <1>0, <1>8, Constants DEF UndoDir
  <2> QED BY <2>1, <1>0, <1>1, <1>8 DEF UndoDir, At, StoreTypeOK
<1>9. CASE UndoRow(s)
  <2>1. db' = [db EXCEPT ![job[s].id] = None] /\ nextId' = nextId
    BY <1>9 DEF UndoRow
  <2>2. db' \in [Id -> Record] /\ \A j \in Id : db'[j] # None => j < nextId'
    BY <2>1, <1>0, Constants
  <2> QED BY <2>2, <1>0, <1>1, <1>9 DEF UndoRow, At, StoreTypeOK
<1>10. CASE JobFails(s)
  <2>1. dirs' \in [Id -> Record]
    BY <1>0, <1>10, Constants DEF JobFails
  <2>2. job' \in [Session -> Job]
    BY <1>1, <1>10 DEF JobFails, AfterError
  <2>3. faults' \in 0 .. MaxFaults
    BY <1>10, FaultType DEF JobFails
  <2> QED BY <2>1, <2>2, <2>3, <1>0, <1>10 DEF JobFails, StoreTypeOK
<1> QED BY <1>3, <1>4, <1>5, <1>6, <1>7, <1>8, <1>9, <1>10 DEF JobStep

LEMMA DeleteTypes ==
    ASSUME StoreTypeOK, DeleteStepTaken, del.step # "none" => del.doc \in Id
    PROVE  StoreTypeOK'
<1>0. /\ db \in [Id -> Record] /\ dirs \in [Id -> Record] /\ del \in Delete
      /\ \A i \in Id : db[i] # None => i < nextId
  BY DEF StoreTypeOK
<1>1. CASE SelectRecords
  <2> DEFINE targets == ChunksOf(db, del.doc) \cup {i \in {del.doc} : db[i] # None}
  <2>1. /\ del' = [del EXCEPT !.step = IF targets = {} THEN "error" ELSE "dirs",
                              !.targets = targets, !.left = targets]
        /\ UNCHANGED <<db, dirs, nextId, job, sync, lost, faults>>
    BY <1>1 DEF SelectRecords
  <2>2. targets \in SUBSET Id
    BY <1>1 DEF SelectRecords, ChunksOf, Chunks
  <2> HIDE DEF targets
  <2>3. del' \in Delete
    BY <2>1, <2>2, <1>0 DEF Delete
  <2> QED BY <2>1, <2>3 DEF StoreTypeOK
<1>2. CASE RemoveDir
  <2>1. dirs' \in [Id -> Record]
    BY <1>0, <1>2, Constants DEF RemoveDir
  <2>2. del' \in Delete
    BY <1>0, <1>2 DEF RemoveDir, Delete
  <2> QED BY <2>1, <2>2, <1>0, <1>2 DEF RemoveDir, StoreTypeOK
<1>3. CASE DeleteRows
  <2>1. db' \in [Id -> Record] /\ \A i \in Id : db'[i] # None => i < nextId
    BY <1>0, <1>3, Constants DEF DeleteRows
  <2>2. del' \in Delete
    BY <1>0, <1>3 DEF DeleteRows, Delete
  <2> QED BY <2>1, <2>2, <1>0, <1>3 DEF DeleteRows, StoreTypeOK
<1>4. CASE DeleteFails
  <2>1. del' \in Delete
    BY <1>0, <1>4 DEF DeleteFails, Delete
  <2>2. faults' \in 0 .. MaxFaults
    BY <1>4, FaultType DEF DeleteFails
  <2> QED BY <2>1, <2>2, <1>0, <1>4 DEF DeleteFails, StoreTypeOK
<1> QED BY <1>1, <1>2, <1>3, <1>4 DEF DeleteStepTaken

LEMMA SyncTypes ==
    ASSUME StoreTypeOK, SyncStep
    PROVE  StoreTypeOK'
<1>0. /\ db \in [Id -> Record] /\ dirs \in [Id -> Record] /\ sync \in Sync
      /\ \A i \in Id : db[i] # None => i < nextId
      /\ nextId \in 1 .. MaxId + 1 /\ sync.rows \in [Id -> Record] /\ sync.files \in [Id -> Record]
  BY DEF StoreTypeOK, Sync
<1>1. SyncError => sync' \in Sync
  BY Blank DEF SyncError
<1>2. \A i : Passed(i, TRUE) \/ Passed(i, sync.fresh) => sync' \in Sync
  <2>1. ASSUME NEW i, NEW fresh \in BOOLEAN, Passed(i, fresh)
        PROVE  sync' \in Sync
    <3>1. CASE sync.todo = {i}
      BY <2>1, <3>1, Blank DEF Passed
    <3>2. CASE sync.todo # {i}
      <4>1. sync' = [sync EXCEPT !.todo = @ \ {i}, !.fresh = fresh]
        BY <2>1, <3>2 DEF Passed
      <4> QED BY <2>1, <4>1, <1>0 DEF Sync
    <3> QED BY <3>1, <3>2
  <2>2. PICK fresh \in BOOLEAN : fresh = sync.fresh
    BY <1>0 DEF Sync
  <2>3. TRUE \in BOOLEAN
    OBVIOUS
  <2> QED BY <2>1, <2>2, <2>3
<1>3. CASE ReadRows
  <2>1. sync' \in Sync
    BY <1>0, <1>3 DEF ReadRows, Sync
  <2> QED BY <2>1, <1>0, <1>3 DEF ReadRows, StoreTypeOK
<1>4. CASE ReadFiles
  <2> DEFINE todo == Recorded(sync.rows) \cup Recorded(dirs)
  <2>1. todo \in SUBSET Id
    BY DEF Recorded
  <2>2. /\ sync' = IF todo = {} THEN [NoSync EXCEPT !.step = "ok"]
                   ELSE [sync EXCEPT !.step = "records", !.files = dirs, !.todo = todo]
        /\ UNCHANGED <<db, dirs, nextId, job, del, lost, faults>>
    BY <1>4 DEF ReadFiles
  <2> HIDE DEF todo
  <2>3. [sync EXCEPT !.step = "records", !.files = dirs, !.todo = todo] \in Sync
    BY <1>0, <2>1 DEF Sync
  <2>4. sync' \in Sync
    BY <2>2, <2>3, Blank
  <2> QED BY <2>2, <2>4, <1>0 DEF StoreTypeOK
<1>5. CASE SyncFails
  <2>1. faults' \in 0 .. MaxFaults
    BY <1>5, FaultType DEF SyncFails
  <2>2. sync' \in Sync
    BY <1>1, <1>5, Blank DEF SyncFails
  <2> QED BY <2>1, <2>2, <1>0, <1>5 DEF SyncFails, StoreTypeOK
<1>6. ASSUME NEW i \in Id, SyncDelete(i) \/ SyncUpdate(i) \/ SyncCreate(i)
      PROVE  StoreTypeOK'
  <2>0. UNCHANGED <<dirs, job, del, lost, faults>>
    BY <1>6 DEF SyncDelete, SyncUpdate, SyncCreate, Synchronizes
  <2>1. sync' \in Sync
    BY <1>1, <1>2, <1>6 DEF SyncDelete, SyncUpdate, SyncCreate, Written
  <2>2. sync.files[i] \in Record
    BY <1>0
  <2>3. CASE SyncDelete(i) \/ SyncUpdate(i)
    <3>1. nextId' = nextId /\ \/ UNCHANGED db \/ db' = [db EXCEPT ![i] = None]
                              \/ db[i] # None /\ db' = [db EXCEPT ![i] = sync.files[i]]
      BY <2>3 DEF SyncDelete, SyncUpdate
    <3>2. db' \in [Id -> Record] /\ \A j \in Id : db'[j] # None => j < nextId'
      BY <3>1, <2>2, <1>0, Constants
    <3> QED BY <3>1, <3>2, <2>0, <2>1 DEF StoreTypeOK
  <2>4. CASE SyncCreate(i)
    <3>1. \/ UNCHANGED <<db, nextId>>
          \/ /\ db' = [db EXCEPT ![i] = sync.files[i]]
             /\ nextId' = IF nextId > i THEN nextId ELSE i + 1
      BY <2>4 DEF SyncCreate
    <3>2. nextId' \in 1 .. MaxId + 1 /\ nextId <= nextId' /\ (UNCHANGED <<db, nextId>> \/ i < nextId')
      BY <3>1, <1>0, Constants
    <3>3. db' \in [Id -> Record] /\ \A j \in Id : db'[j] # None => j < nextId'
      BY <3>1, <3>2, <2>2, <1>0, Constants
    <3> QED BY <3>2, <3>3, <2>0, <2>1 DEF StoreTypeOK
  <2> QED BY <1>6, <2>3, <2>4
<1> QED BY <1>3, <1>4, <1>5, <1>6 DEF SyncStep

LEMMA LossTypes ==
    ASSUME StoreTypeOK, LoseDatabase
    PROVE  StoreTypeOK'
<1>1. faults' \in 0 .. MaxFaults
  BY DEF LoseDatabase, StoreTypeOK
<1>2. db' = NoRecords /\ nextId' = 1 /\ lost' = TRUE /\ UNCHANGED <<dirs, job, del, sync>>
  BY DEF LoseDatabase
<1>3. db' \in [Id -> Record] /\ \A i \in Id : ~(db'[i] # None)
  BY <1>2, Constants
<1>4. 1 \in 1 .. MaxId + 1
  BY Constants
<1> QED BY <1>1, <1>2, <1>3, <1>4 DEF StoreTypeOK

-----------------------------------------------------------------------------
(* Types of the clients' state, with what is known of ids in use: a job    *)
(* past its insert has one, and so do a rag_add past its put_doc and a     *)
(* delete_doc; and a rag_sync reads on as long as its page has a chunk.    *)

Numbered == {"mkdir", "commit", "update", "undo dir", "undo row", "ok"}
Rooted == {"attach", "embed", "rollback", "added", "clean", "dirty"}

Placed ==
    /\ \A s \in Session : job[s].step \in Numbered => job[s].id \in Id
    /\ \A s \in Session : adder[s].at \in Rooted => adder[s].doc \in Id
    /\ del.step # "none" => del.doc \in Id
    /\ rs.at = "read" => rs.page # {}

Typed == TypeOK /\ Placed

LEMMA Fields ==
    ASSUME TypeOK
    PROVE  /\ job \in [Session -> Job] /\ adder \in [Session -> Adder]
           /\ \A s \in Session : /\ job[s] \in Job /\ adder[s] \in Adder
                                 /\ job[s].id \in {0} \cup Id /\ job[s].doc \in {0} \cup Id
                                 /\ adder[s].doc \in {0} \cup Id /\ adder[s].chunks \in SUBSET Id
           /\ del \in Delete /\ sync \in Sync /\ rs \in Reader
           /\ vectors \in [Id -> {None} \cup Id] /\ StoreTypeOK
           /\ db \in [Id -> Record] /\ dirs \in [Id -> Record]
           /\ sync.rows \in [Id -> Record] /\ sync.files \in [Id -> Record]
           /\ nextId \in 1 .. MaxId + 1
           /\ deleter \in [at : {"idle", "delete", "vectors"}, found : SUBSET Id] /\ deleted \subseteq Id
<1>1. job \in [Session -> Job] /\ adder \in [Session -> Adder]
  BY DEF TypeOK, StoreTypeOK
<1>2. \A s \in Session : /\ job[s] \in Job /\ adder[s] \in Adder
                         /\ job[s].id \in {0} \cup Id /\ job[s].doc \in {0} \cup Id
                         /\ adder[s].doc \in {0} \cup Id /\ adder[s].chunks \in SUBSET Id
  BY <1>1 DEF Job, Adder
<1> QED BY <1>1, <1>2 DEF TypeOK, StoreTypeOK, Sync

LEMMA StartType ==
    ASSUME TypeOK, NEW s \in Session, NEW kind \in {"put", "attach"}, NEW doc \in {0} \cup Id,
           Start(s, kind, doc)
    PROVE  /\ job' \in [Session -> Job]
           /\ job'[s].step \notin Numbered /\ job'[s].id = 0 /\ job'[s].doc = doc /\ job'[s].kind = kind
           /\ \A t \in Session \ {s} : job'[t] = job[t]
<1> DEFINE r == [step |-> IF kind = "put" THEN "insert" ELSE "check", kind |-> kind, id |-> 0, doc |-> doc]
<1>1. r \in Job /\ r.step \notin Numbered /\ r.id = 0 /\ r.doc = doc /\ r.kind = kind
  BY DEF Job, Numbered
<1>2. job' = [job EXCEPT ![s] = r]
  BY DEF Start
<1> HIDE DEF r
<1> QED BY <1>1, <1>2, Fields

LEMMA DropType ==
    ASSUME TypeOK, NEW s \in Session, DropAnswer(s)
    PROVE  /\ job' \in [Session -> Job]
           /\ job'[s].step \notin Numbered /\ job'[s].id = 0 /\ job'[s].step = "none"
           /\ \A t \in Session \ {s} : job'[t] = job[t]
<1>1. NoJob.step \notin Numbered /\ NoJob.id = 0 /\ NoJob.step = "none"
  BY DEF NoJob, Numbered
<1>2. job' = [job EXCEPT ![s] = NoJob]
  BY DEF DropAnswer
<1> QED BY <1>1, <1>2, Fields, Blank

LEMMA RequestType ==
    ASSUME NEW owner \in Session \cup {"rag_delete", "nobody"}, NEW doc \in Id, DeleteRequest(owner, doc)
    PROVE  /\ del' \in Delete
           /\ del'.step = "select" /\ del'.doc = doc /\ del'.targets = {} /\ del'.left = {}
BY DEF DeleteRequest, NoDelete, Delete

(* A step of rag_add moves the adder and the job of its session.           *)
LEMMA AdderType ==
    ASSUME TypeOK, NEW s \in Session, NEW r \in Adder, adder' = [adder EXCEPT ![s] = r]
    PROVE  adder' \in [Session -> Adder] /\ adder'[s] = r /\ \A t \in Session \ {s} : adder'[t] = adder[t]
BY Fields

LEMMA ToType ==
    ASSUME TypeOK, NEW s \in Session, NEW there \in {"put", "embed", "rollback", "added", "failed", "clean", "dirty"},
           To(s, there)
    PROVE  /\ adder' \in [Session -> Adder] /\ adder'[s].at = there
           /\ adder'[s].doc = adder[s].doc /\ adder'[s].chunks = adder[s].chunks
           /\ \A t \in Session \ {s} : adder'[t] = adder[t]
<1> DEFINE r == [adder[s] EXCEPT !.at = there]
<1>1. r \in Adder /\ r.at = there /\ r.doc = adder[s].doc /\ r.chunks = adder[s].chunks
  BY Fields DEF Adder
<1>2. adder' = [adder EXCEPT ![s] = r]
  BY DEF To
<1> HIDE DEF r
<1> QED BY <1>1, <1>2, AdderType

LEMMA Others ==
    ASSUME TypeOK, UNCHANGED <<db, dirs, nextId, sync, lost>>,
           job' \in [Session -> Job], del' \in Delete, faults' \in 0 .. MaxFaults
    PROVE  StoreTypeOK'
BY Fields DEF StoreTypeOK

(* What a step of rag_add changes: the state of its own session, and the   *)
(* request at delete_doc when it rolls back.                               *)
DocKept(s) == adder'[s].doc = adder[s].doc /\ adder'[s].chunks = adder[s].chunks
JobGone(s) == job'[s].id = 0 /\ job'[s].step \notin Numbered

Begins(s) ==
    /\ adder[s].at = "idle" /\ adder'[s].at = "put" /\ DocKept(s)
    /\ JobGone(s) /\ job'[s].kind = "put" /\ del' = del
PutDone(s) ==
    /\ adder[s].at = "put" /\ job[s].step = "ok" /\ adder'[s].at = "attach"
    /\ adder'[s].doc = job[s].id /\ adder'[s].chunks = adder[s].chunks
    /\ JobGone(s) /\ job'[s].kind = "attach" /\ job'[s].doc = job[s].id /\ del' = del
ChunkDone(s) ==
    /\ adder[s].at = "attach" /\ job[s].step = "ok" /\ adder'[s].at \in {"attach", "embed"}
    /\ adder'[s].doc = adder[s].doc /\ adder'[s].chunks = adder[s].chunks \cup {job[s].id}
    /\ JobGone(s) /\ del' = del
    /\ adder'[s].at = "attach" => job'[s].kind = "attach" /\ job'[s].doc = adder[s].doc
Leaves(s) ==
    /\ \/ adder[s].at = "put" /\ adder'[s].at = "failed"
       \/ adder[s].at = "attach" /\ adder'[s].at = "rollback"
    /\ DocKept(s) /\ (job' = job \/ (JobGone(s) /\ job'[s].step = "none")) /\ del' = del
Embeds(s) ==
    adder[s].at = "embed" /\ adder'[s].at \in {"added", "rollback"} /\ DocKept(s) /\ job' = job /\ del' = del
Requests(s) ==
    /\ adder[s].at = "rollback" /\ adder' = adder /\ job' = job
    /\ del'.step = "select" /\ del'.doc = adder[s].doc /\ del'.targets = {} /\ del'.left = {}
Finishes(s) ==
    /\ adder[s].at = "rollback" /\ adder'[s].at \in {"clean", "dirty"} /\ DocKept(s) /\ job' = job
    /\ del' = NoDelete \/ (/\ del'.step = del.step /\ del'.doc = del.doc
                           /\ del'.targets = del.targets /\ del'.left = del.left)

LEMMA AddSteps ==
    ASSUME Typed, NEW s \in Session, RagAdd(s)
    PROVE  /\ StoreTypeOK' /\ adder' \in [Session -> Adder] /\ vectors' \in [Id -> {None} \cup Id]
           /\ UNCHANGED <<db, dirs, nextId, sync, lost, deleter, rs, deleted>>
           /\ \A t \in Session \ {s} : job'[t] = job[t] /\ adder'[t] = adder[t]
           /\ \/ Begins(s) \/ PutDone(s) \/ ChunkDone(s) \/ Leaves(s) \/ Embeds(s) \/ Requests(s) \/ Finishes(s)
<1>0. TypeOK /\ Placed /\ faults \in 0 .. MaxFaults
  BY DEF Typed, TypeOK, StoreTypeOK
<1>1. /\ job \in [Session -> Job] /\ adder \in [Session -> Adder] /\ del \in Delete /\ StoreTypeOK
      /\ job[s] \in Job /\ adder[s] \in Adder /\ job[s].id \in {0} \cup Id /\ adder[s].doc \in {0} \cup Id
      /\ adder[s].chunks \in SUBSET Id /\ vectors \in [Id -> {None} \cup Id]
  BY <1>0, Fields
<1>2. job[s].step = "ok" => job[s].id \in Id
  BY <1>0 DEF Placed, Numbered
<1>3. adder[s].at = "rollback" => adder[s].doc \in Id
  BY <1>0 DEF Placed, Rooted
<1>4. Fault => faults' \in 0 .. MaxFaults
  BY <1>1, FaultType
<1>5. CASE AddDocument(s)
  <2>1. /\ adder[s].at = "idle" /\ To(s, "put") /\ Start(s, "put", 0)
        /\ UNCHANGED <<db, dirs, nextId, del, sync, lost, faults, vectors, deleter, rs, deleted>>
    BY <1>5 DEF AddDocument, Adds
  <2>2. 0 \in {0} \cup Id /\ "put" \in {"put", "attach"}
    OBVIOUS
  <2>3. Begins(s) /\ job' \in [Session -> Job] /\ \A t \in Session \ {s} : job'[t] = job[t] /\ adder'[t] = adder[t]
    BY <2>1, <2>2, <1>0, StartType, ToType DEF Begins, DocKept, JobGone
  <2>4. adder' \in [Session -> Adder]
    BY <2>1, <1>0, ToType
  <2> QED BY <2>1, <2>3, <2>4, <1>0, <1>1, Others
<1>6. CASE PutAnswered(s)
  <2>1. /\ adder[s].at = "put"
        /\ UNCHANGED <<db, dirs, nextId, del, sync, lost, faults, vectors, deleter, rs, deleted>>
    BY <1>6 DEF PutAnswered, Adds
  <2>2. CASE /\ job[s].step = "ok"
             /\ adder' = [adder EXCEPT ![s].at = "attach", ![s].doc = job[s].id]
             /\ Start(s, "attach", job[s].id)
    <3> DEFINE r == [adder[s] EXCEPT !.at = "attach", !.doc = job[s].id]
    <3>1. r \in Adder /\ r.at = "attach" /\ r.doc = job[s].id /\ r.chunks = adder[s].chunks
      BY <1>1 DEF Adder
    <3>2. adder' = [adder EXCEPT ![s] = r]
      BY <2>2
    <3> HIDE DEF r
    <3>3. /\ adder' \in [Session -> Adder] /\ adder'[s] = r
          /\ \A t \in Session \ {s} : adder'[t] = adder[t]
      BY <3>1, <3>2, <1>0, AdderType
    <3>4. PutDone(s) /\ job' \in [Session -> Job] /\ \A t \in Session \ {s} : job'[t] = job[t]
      BY <3>1, <3>3, <2>1, <2>2, <1>0, <1>1, StartType DEF PutDone, JobGone
    <3> QED BY <2>1, <3>3, <3>4, <1>0, <1>1, Others
  <2>3. CASE job[s].step = "error" /\ To(s, "failed") /\ DropAnswer(s)
    <3>1. /\ Leaves(s) /\ job' \in [Session -> Job] /\ adder' \in [Session -> Adder]
          /\ \A t \in Session \ {s} : job'[t] = job[t] /\ adder'[t] = adder[t]
      BY <2>1, <2>3, <1>0, ToType, DropType DEF Leaves, DocKept, JobGone
    <3> QED BY <2>1, <3>1, <1>0, <1>1, Others
  <2> QED BY <1>6, <2>2, <2>3 DEF PutAnswered
<1>7. CASE ChunkAnswered(s)
  <2>1. /\ adder[s].at = "attach"
        /\ UNCHANGED <<db, dirs, nextId, del, sync, lost, faults, vectors, deleter, rs, deleted>>
    BY <1>7 DEF ChunkAnswered, Adds
  <2>2. CASE job[s].step = "ok"
    <3> DEFINE chunks == adder[s].chunks \cup {job[s].id}
               all == Cardinality(chunks) = NChunks
               r == [adder[s] EXCEPT !.at = IF all THEN "embed" ELSE "attach", !.chunks = chunks]
    <3>1. /\ adder' = [adder EXCEPT ![s].at = IF all THEN "embed" ELSE "attach", ![s].chunks = chunks]
          /\ IF all THEN DropAnswer(s) ELSE Start(s, "attach", adder[s].doc)
      BY <1>7, <2>2 DEF ChunkAnswered, Attach
    <3>2. chunks \in SUBSET Id
      BY <1>1, <1>2, <2>2
    <3> HIDE DEF chunks, all
    <3>3. r \in Adder /\ r.at = (IF all THEN "embed" ELSE "attach") /\ r.doc = adder[s].doc /\ r.chunks = chunks
      BY <3>2, <1>1 DEF Adder
    <3>4. adder' = [adder EXCEPT ![s] = r]
      BY <3>1
    <3> HIDE DEF r
    <3>5. /\ adder' \in [Session -> Adder] /\ adder'[s] = r
          /\ \A t \in Session \ {s} : adder'[t] = adder[t]
      BY <3>3, <3>4, <1>0, AdderType
    <3>6. /\ job' \in [Session -> Job] /\ JobGone(s) /\ \A t \in Session \ {s} : job'[t] = job[t]
          /\ ~all => job'[s].kind = "attach" /\ job'[s].doc = adder[s].doc
      BY <3>1, <1>0, <1>1, StartType, DropType DEF JobGone
    <3>7. ChunkDone(s)
      BY <3>3, <3>5, <3>6, <2>1, <2>2 DEF ChunkDone, chunks
    <3> QED BY <2>1, <3>5, <3>6, <3>7, <1>0, <1>1, Others
  <2>3. CASE job[s].step = "error" /\ To(s, "rollback") /\ DropAnswer(s)
    <3>1. /\ Leaves(s) /\ job' \in [Session -> Job] /\ adder' \in [Session -> Adder]
          /\ \A t \in Session \ {s} : job'[t] = job[t] /\ adder'[t] = adder[t]
      BY <2>1, <2>3, <1>0, ToType, DropType DEF Leaves, DocKept, JobGone
    <3> QED BY <2>1, <3>1, <1>0, <1>1, Others
  <2> QED BY <1>7, <2>2, <2>3 DEF ChunkAnswered
<1>8. CASE GiveUp(s)
  <2>1. /\ UNCHANGED <<db, dirs, nextId, job, del, sync, lost, vectors, deleter, rs, deleted>> /\ faults' \in 0 .. MaxFaults
        /\ \/ adder[s].at = "put" /\ To(s, "failed")
           \/ adder[s].at = "attach" /\ To(s, "rollback")
    BY <1>4, <1>8 DEF GiveUp, Adds
  <2>2. /\ Leaves(s) /\ adder' \in [Session -> Adder] /\ \A t \in Session \ {s} : adder'[t] = adder[t]
    BY <2>1, <1>0, ToType DEF Leaves, DocKept
  <2> QED BY <2>1, <2>2, <1>0, <1>1, Others
<1>9. CASE Embed(s)
  <2>1. /\ UNCHANGED <<db, dirs, nextId, job, del, sync, lost, deleter, rs, deleted>> /\ faults' \in 0 .. MaxFaults
        /\ adder[s].at = "embed" /\ (To(s, "added") \/ To(s, "rollback"))
        /\ vectors' = vectors \/ vectors' = WithVectors(adder[s].chunks, adder[s].doc)
    BY <1>0, <1>4, <1>9 DEF Embed, Adds
  <2>2. adder[s].doc \in Id
    BY <2>1, <1>0 DEF Placed, Rooted
  <2>3. vectors' \in [Id -> {None} \cup Id]
    BY <2>1, <2>2, <1>1 DEF WithVectors
  <2>4. /\ Embeds(s) /\ adder' \in [Session -> Adder] /\ \A t \in Session \ {s} : adder'[t] = adder[t]
    BY <2>1, <1>0, ToType DEF Embeds, DocKept
  <2> QED BY <2>1, <2>3, <2>4, <1>0, <1>1, Others
<1>10. CASE Rollback(s)
  <2>1. adder[s].at = "rollback" /\ UNCHANGED <<db, dirs, nextId, job, sync, lost, vectors, deleter, rs, deleted>>
    BY <1>10 DEF Rollback, Adds
  <2>2. CASE DeleteRequest(s, adder[s].doc) /\ UNCHANGED <<adder, faults>>
    <3>1. s \in Session \cup {"rag_delete", "nobody"}
      OBVIOUS
    <3>2. Requests(s) /\ del' \in Delete
      BY <2>1, <2>2, <1>3, <3>1, RequestType DEF Requests
    <3> QED BY <2>1, <2>2, <3>2, <1>0, <1>1, Others
  <2>3. CASE /\ del.owner = s /\ del.step \in {"ok", "error"} /\ del' = NoDelete
             /\ To(s, IF del.step = "ok" THEN "clean" ELSE "dirty") /\ UNCHANGED faults
    <3>1. To(s, "clean") \/ To(s, "dirty")
      BY <2>3
    <3>2. Finishes(s) /\ adder' \in [Session -> Adder] /\ \A t \in Session \ {s} : adder'[t] = adder[t]
      BY <2>1, <2>3, <3>1, <1>0, ToType DEF Finishes, DocKept
    <3> QED BY <2>1, <2>3, <3>2, <1>0, <1>1, Blank, Others
  <2>4. CASE Fault /\ To(s, "dirty") /\ del' = IF del.owner = s THEN [del EXCEPT !.owner = "nobody"] ELSE del
    <3>1. /\ del' \in Delete
          /\ del'.step = del.step /\ del'.doc = del.doc /\ del'.targets = del.targets /\ del'.left = del.left
      BY <2>4, <1>1 DEF Delete
    <3>2. Finishes(s) /\ adder' \in [Session -> Adder] /\ \A t \in Session \ {s} : adder'[t] = adder[t]
      BY <2>1, <2>4, <3>1, <1>0, ToType DEF Finishes, DocKept
    <3> QED BY <2>1, <2>4, <3>1, <3>2, <1>0, <1>1, <1>4, Others
  <2> QED BY <1>10, <2>2, <2>3, <2>4 DEF Rollback
<1> QED BY <1>5, <1>6, <1>7, <1>8, <1>9, <1>10 DEF RagAdd

(* What a step of rag_delete changes. *)
Names(d) ==
    /\ d \in Id /\ \E s \in Session : Adds(s, "added") /\ adder[s].doc = d
    /\ del'.step = "select" /\ del'.doc = d /\ del'.targets = {} /\ del'.left = {}
    /\ deleted' = deleted \cup {d}
DeletionKept ==
    /\ deleted' = deleted
    /\ del' = NoDelete \/ (/\ del'.step = del.step /\ del'.doc = del.doc
                           /\ del'.targets = del.targets /\ del'.left = del.left)

LEMMA RemoveSteps ==
    ASSUME Typed, RagDelete, calm' \in BOOLEAN
    PROVE  /\ TypeOK'
           /\ UNCHANGED <<db, dirs, nextId, job, sync, lost, adder, rs>>
           /\ DeletionKept \/ \E d \in Id : Names(d)
<1>0. TypeOK /\ faults \in 0 .. MaxFaults
  BY DEF Typed, TypeOK, StoreTypeOK
<1>1. /\ job \in [Session -> Job] /\ adder \in [Session -> Adder] /\ del \in Delete /\ rs \in Reader
      /\ vectors \in [Id -> {None} \cup Id] /\ deleted \subseteq Id
      /\ deleter \in [at : {"idle", "delete", "vectors"}, found : SUBSET Id]
  BY <1>0, Fields
<1>2. Fault => faults' \in 0 .. MaxFaults
  BY <1>0, FaultType DEF TypeOK
<1>3. ASSUME NEW doc \in Id, RemoveDocument(doc)
      PROVE  TypeOK'
  <2>1. /\ deleter' = [at |-> "delete", found |-> {i \in Id : vectors[i] = doc}]
        /\ DeleteRequest("rag_delete", doc) /\ deleted' = deleted \cup {doc}
        /\ UNCHANGED <<db, dirs, nextId, job, sync, lost, faults, vectors, adder, rs>>
    BY <1>3 DEF RemoveDocument
  <2>2. del' \in Delete
    BY <2>1, RequestType
  <2>3. StoreTypeOK'
    BY <2>1, <2>2, <1>0, <1>1, Others
  <2> QED BY <2>1, <2>3, <1>1 DEF TypeOK
<1>4. ASSUME NEW doc \in Id, RemoveDocument(doc)
      PROVE  Names(doc)
  BY <1>4, RequestType DEF RemoveDocument, Names
<1>5. CASE DeleteAnswered
  <2>1. /\ UNCHANGED <<db, dirs, nextId, job, sync, lost, vectors, adder, rs, deleted>>
        /\ del' = NoDelete \/ del' = [del EXCEPT !.owner = "nobody"]
        /\ deleter' = [deleter EXCEPT !.at = "vectors"] \/ deleter' = [at |-> "idle", found |-> {}]
        /\ faults' \in 0 .. MaxFaults
    BY <1>0, <1>2, <1>5 DEF DeleteAnswered, DeleterEnds
  <2>2. [del EXCEPT !.owner = "nobody"] \in Delete
    BY <1>1 DEF Delete
  <2>3. StoreTypeOK'
    BY <2>1, <2>2, <1>0, <1>1, Blank, Others
  <2>4. DeletionKept
    BY <2>1, <1>1 DEF DeletionKept, Delete
  <2> QED BY <2>1, <2>3, <2>4, <1>1 DEF TypeOK
<1>6. CASE DeleteVectors
  <2>1. /\ UNCHANGED <<db, dirs, nextId, job, del, sync, lost, adder, rs, deleted>>
        /\ vectors' = vectors \/ vectors' = [i \in Id |-> IF i \in deleter.found THEN None ELSE vectors[i]]
        /\ deleter' = [at |-> "idle", found |-> {}] /\ faults' \in 0 .. MaxFaults
    BY <1>0, <1>2, <1>6 DEF DeleteVectors, DeleterEnds
  <2>2. vectors' \in [Id -> {None} \cup Id]
    BY <2>1, <1>1
  <2>3. StoreTypeOK'
    BY <2>1, <1>0, <1>1, Others
  <2>4. DeletionKept
    BY <2>1 DEF DeletionKept
  <2> QED BY <2>1, <2>2, <2>3, <2>4, <1>1 DEF TypeOK
<1>7. UNCHANGED <<db, dirs, nextId, job, sync, lost, adder, rs>>
  BY DEF RagDelete, RemoveDocument, DeleteAnswered, DeleteVectors
<1> QED BY <1>3, <1>4, <1>5, <1>6, <1>7 DEF RagDelete

(* What a step of rag_sync changes. *)
LEMMA ReaderSteps ==
    ASSUME Typed, RagSync \/ SyncRag, calm' \in BOOLEAN
    PROVE  /\ TypeOK'
           /\ UNCHANGED <<db, dirs, nextId, job, del, lost, adder, deleter, deleted>>
           /\ \/ sync' = sync \/ sync' = NoSync \/ sync' = [NoSync EXCEPT !.step = "rows"]
<1>0. TypeOK /\ faults \in 0 .. MaxFaults
  BY DEF Typed, TypeOK, StoreTypeOK
<1>1. /\ job \in [Session -> Job] /\ adder \in [Session -> Adder] /\ del \in Delete /\ rs \in Reader
      /\ sync \in Sync /\ vectors \in [Id -> {None} \cup Id] /\ deleted \subseteq Id
      /\ deleter \in [at : {"idle", "delete", "vectors"}, found : SUBSET Id]
      /\ db \in [Id -> Record] /\ dirs \in [Id -> Record]
  BY <1>0, Fields
<1>2. ASSUME /\ UNCHANGED <<db, dirs, nextId, job, del, lost, adder, deleter, deleted>>
             /\ faults' \in 0 .. MaxFaults /\ sync' \in Sync /\ rs' \in Reader
             /\ vectors' \in [Id -> {None} \cup Id]
      PROVE  TypeOK'
  BY <1>0, <1>1, <1>2 DEF TypeOK, StoreTypeOK
<1>3. CASE SyncRag
  <2>1. /\ UNCHANGED <<db, dirs, nextId, job, del, lost, faults, vectors, adder, deleter, deleted>>
        /\ sync' = [NoSync EXCEPT !.step = "rows"] /\ rs' = [NoReader EXCEPT !.at = "sync"]
    BY <1>3 DEF SyncRag, SyncRequest
  <2>2. rs' \in Reader
    BY <2>1, Blank DEF Reader
  <2> QED BY <2>1, <2>2, <1>0, <1>1, <1>2, Blank
<1>4. CASE SyncAnswered
  <2>1. /\ UNCHANGED <<db, dirs, nextId, job, del, lost, faults, vectors, adder, deleter, deleted>>
        /\ sync' = NoSync
        /\ \E at \in {"initial", "idle"}, synced \in BOOLEAN : rs' = [rs EXCEPT !.at = at, !.synced = synced]
    BY <1>4 DEF SyncAnswered
  <2>2. rs' \in Reader
    BY <2>1, <1>1 DEF Reader
  <2> QED BY <2>1, <2>2, <1>0, <1>1, <1>2, Blank
<1>5. CASE ListVectors
  <2>1. /\ UNCHANGED <<storeVars, vectors, adder, deleter, deleted>>
        /\ rs' = [rs EXCEPT !.at = "page", !.initial = Recorded(vectors)]
    BY <1>5 DEF ListVectors
  <2>2. rs' \in Reader
    BY <2>1, <1>1 DEF Reader, Recorded
  <2> QED BY <2>1, <2>2, <1>0, <1>1, <1>2 DEF storeVars
<1>6. CASE GetPage
  <2> DEFINE docs == Page(rs.offset, BatchSize)
             chunks == {i \in Chunks(db) : db[i] \in docs}
             last == Remaining(rs.offset, BatchSize) <= 0
             end == rs.offset + Cardinality(docs)
  <2>1. /\ UNCHANGED <<storeVars, vectors, adder, deleter, deleted>>
        /\ rs' = IF chunks \cap rs.source # {} THEN NoReader
                 ELSE [rs EXCEPT !.at = IF chunks # {} THEN "read" ELSE IF last THEN "finalize" ELSE "page",
                                 !.page = chunks, !.last = last, !.offset = end]
    BY <1>6, <1>1 DEF GetPage, Reader
  <2>2. Documents(db) \in SUBSET Id /\ rs.offset \in Nat /\ rs.offset <= MaxId /\ BatchSize \in Nat
    BY <1>1, Constants DEF Documents, Reader
  <2>3. end \in 0 .. MaxId
    <3>1. end \in Nat /\ end <= MaxId
      BY <2>2, PageIs
    <3> QED BY <3>1, Constants
  <2>4. chunks \in SUBSET Id /\ last \in BOOLEAN
    BY DEF Chunks
  <2> HIDE DEF docs, chunks, last, end
  <2>5. rs' \in Reader
    <3>1. [rs EXCEPT !.at = IF chunks # {} THEN "read" ELSE IF last THEN "finalize" ELSE "page",
                     !.page = chunks, !.last = last, !.offset = end] \in Reader
      BY <2>3, <2>4, <1>1 DEF Reader
    <3> QED BY <2>1, <3>1, Blank
  <2> QED BY <2>1, <2>5, <1>0, <1>1, <1>2 DEF storeVars
<1>7. CASE UpsertVector
  <2> DEFINE i == Min(rs.page)
             there == IF rs.page # {i} THEN "read" ELSE IF rs.last THEN "finalize" ELSE "page"
  <2>1. /\ UNCHANGED <<storeVars, adder, deleter, deleted>>
        /\ \/ rs' = NoReader /\ UNCHANGED vectors
           \/ /\ Readable(i) /\ vectors' = [vectors EXCEPT ![i] = Parent(i)]
              /\ rs' = [rs EXCEPT !.page = @ \ {i}, !.source = @ \cup {i}, !.at = there]
    BY <1>7 DEF UpsertVector
  <2>2. Readable(i) => Parent(i) \in Id
    BY DEF Readable, Documents
  <2>5. i \in rs.page
    <3>1. rs.page # {} /\ rs.page \in SUBSET Nat
      BY <1>1, <1>7, Constants DEF UpsertVector, Typed, Placed, Reader
    <3> QED BY <3>1, LeastId
  <2>3. CASE /\ Readable(i) /\ vectors' = [vectors EXCEPT ![i] = Parent(i)]
             /\ rs' = [rs EXCEPT !.page = @ \ {i}, !.source = @ \cup {i}, !.at = there]
    <3>1. rs' \in Reader
      <4>1. i \in Id
        BY <2>5, <1>1 DEF Reader
      <4>2. there \in {"read", "finalize", "page"}
        OBVIOUS
      <4> HIDE DEF there, i
      <4> QED BY <4>1, <4>2, <2>3, <1>1 DEF Reader
    <3>2. vectors' \in [Id -> {None} \cup Id]
      BY <2>2, <2>3, <1>1
    <3> QED BY <2>1, <3>1, <3>2, <1>0, <1>1, <1>2 DEF storeVars
  <2>4. CASE rs' = NoReader /\ UNCHANGED vectors
    BY <2>1, <2>4, <1>0, <1>1, <1>2, Blank DEF storeVars
  <2> QED BY <2>1, <2>3, <2>4
<1>8. CASE Finalize
  <2>1. /\ UNCHANGED <<storeVars, adder, deleter, deleted>>
        /\ vectors' = [i \in Id |-> IF i \in rs.initial \ rs.source THEN None ELSE vectors[i]]
        /\ rs' = [NoReader EXCEPT !.at = "done", !.synced = rs.synced]
    BY <1>8 DEF Finalize
  <2>2. vectors' \in [Id -> {None} \cup Id] /\ rs' \in Reader
    BY <2>1, <1>1, Blank DEF Reader
  <2> QED BY <2>1, <2>2, <1>0, <1>1, <1>2 DEF storeVars
<1>9. CASE RagSyncFails
  <2>1. /\ UNCHANGED <<db, dirs, nextId, job, del, sync, lost, vectors, adder, deleter, deleted>>
        /\ rs' = NoReader /\ faults' \in 0 .. MaxFaults
    BY <1>0, <1>9, FaultType DEF RagSyncFails, TypeOK
  <2> QED BY <2>1, <1>0, <1>1, <1>2, Blank
<1> QED BY <1>3, <1>4, <1>5, <1>6, <1>7, <1>8, <1>9 DEF RagSync

LEMMA JobPlaced ==
    ASSUME Typed, NEW s \in Session, JobStep(s)
    PROVE  /\ job'[s].step \in Numbered => job'[s].id \in Id
           /\ \A t \in Session \ {s} : job'[t] = job[t]
<1>0. job \in [Session -> Job] /\ nextId \in 1 .. MaxId + 1 /\ (job[s].step \in Numbered => job[s].id \in Id)
  BY Fields DEF Typed, Placed
<1>1. \A t \in Session \ {s} : job'[t] = job[t]
  BY <1>0 DEF JobStep, CheckParent, InsertRow, MakeDir, CommitDir, UpdateRow, UndoDir, UndoRow, JobFails, At, Goto
<1> SUFFICES job'[s].step \in Numbered => job'[s].id \in Id
  BY <1>1
<1>2. CASE InsertRow(s)
  BY <1>0, <1>2, Constants DEF InsertRow, Id
<1>3. CASE job[s].step \in Numbered /\ job'[s].id = job[s].id
  BY <1>0, <1>3
<1>4. \A step : Goto(s, step) => job'[s].id = job[s].id /\ job'[s].step = step
  BY <1>0 DEF Goto, Job
<1>5. CASE CheckParent(s)
  BY <1>0, <1>5 DEF CheckParent, At, Goto, Job, Numbered
<1>6. CASE MakeDir(s) \/ CommitDir(s) \/ UpdateRow(s) \/ UndoDir(s) \/ UndoRow(s)
  BY <1>3, <1>4, <1>6 DEF MakeDir, CommitDir, UpdateRow, UndoDir, UndoRow, At, Numbered
<1>7. CASE JobFails(s)
  <2>1. CASE Goto(s, "error")
    BY <2>1, <1>0 DEF Goto, Job, Numbered
  <2>2. CASE job[s].step \in Numbered
    BY <2>2, <1>3, <1>4, <1>7 DEF JobFails
  <2> QED BY <2>1, <2>2, <1>7 DEF JobFails, Numbered
<1> QED BY <1>2, <1>5, <1>6, <1>7 DEF JobStep

LEMMA TypedStep ==
    ASSUME Typed, [Next]_vars
    PROVE  Typed'
<1>0. /\ TypeOK /\ StoreTypeOK /\ Placed /\ del \in Delete /\ calm \in BOOLEAN
      /\ del.step # "none" => del.doc \in Id
  BY Fields DEF Typed, TypeOK, Placed
<1>1. Quiet \in BOOLEAN
  BY DEF Quiet
<1>2. ASSUME StoreTypeOK', UNCHANGED ragVars, calm' \in BOOLEAN
      PROVE  TypeOK'
  BY <1>0, <1>2 DEF TypeOK, ragVars
<1>3. CASE (SyncRag /\ calm' = Quiet) \/ (RagSync /\ UNCHANGED calm)
  <2>1. TypeOK' /\ UNCHANGED <<db, dirs, nextId, job, del, lost, adder, deleter, deleted>>
    BY <1>0, <1>1, <1>3, ReaderSteps
  <2>2. rs'.at = "read" => rs'.page # {}
    <3>1. CASE GetPage
      BY <3>1, <1>0, Fields DEF GetPage, Reader, NoReader
    <3>2. CASE UpsertVector
      <4>1. rs.page # {} /\ rs.page \in SUBSET Nat /\ rs \in Reader
        BY <1>0, <3>2, Fields, Constants DEF UpsertVector, Placed, Reader
      <4>2. Min(rs.page) \in rs.page
        BY <4>1, LeastId
      <4>3. rs' = NoReader \/ \E there \in {"finalize", "page"} :
               rs' = [rs EXCEPT !.page = @ \ {Min(rs.page)}, !.source = @ \cup {Min(rs.page)},
                                !.at = IF rs.page # {Min(rs.page)} THEN "read" ELSE there]
        BY <3>2 DEF UpsertVector
      <4> HIDE DEF Min
      <4>4. CASE rs' = NoReader
        BY <4>4 DEF NoReader
      <4>5. ASSUME NEW i \in rs.page, NEW there \in {"finalize", "page"},
                   rs' = [rs EXCEPT !.page = @ \ {i}, !.source = @ \cup {i},
                                    !.at = IF rs.page # {i} THEN "read" ELSE there]
            PROVE  rs'.at = "read" => rs'.page # {}
        BY <4>1, <4>5 DEF Reader
      <4> QED BY <4>2, <4>3, <4>4, <4>5
    <3>3. CASE SyncRag \/ Finalize \/ RagSyncFails
      <4>1. rs'.at \in {"idle", "sync", "done"}
        <5>1. SyncRag => rs'.at = "sync"
          BY DEF SyncRag, NoReader
        <5>2. Finalize => rs'.at = "done"
          BY DEF Finalize, NoReader
        <5>3. RagSyncFails => rs'.at = "idle"
          BY DEF RagSyncFails, NoReader
        <5> QED BY <3>3, <5>1, <5>2, <5>3
      <4> QED BY <4>1
    <3>4. CASE SyncAnswered \/ ListVectors
      <4>1. rs \in Reader
        BY <1>0, Fields
      <4>2. rs'.at \in {"idle", "initial", "page"}
        <5>1. ASSUME SyncAnswered PROVE rs'.at \in {"idle", "initial"}
          BY <4>1, <5>1 DEF SyncAnswered, Reader
        <5>2. ListVectors => rs'.at = "page"
          BY <4>1 DEF ListVectors, Reader
        <5> QED BY <3>4, <5>1, <5>2
      <4> QED BY <4>2
    <3> QED BY <1>3, <3>1, <3>2, <3>3, <3>4 DEF RagSync
  <2> QED BY <2>1, <2>2, <1>0 DEF Typed, Placed
<1>4. CASE SyncStep /\ UNCHANGED <<ragVars, calm>>
  <2>1. StoreTypeOK'
    BY <1>0, <1>4, SyncTypes
  <2>2. UNCHANGED <<job, del, adder, rs>>
    BY <1>4 DEF SyncStep, ReadRows, ReadFiles, SyncFails, SyncDelete, SyncUpdate, SyncCreate, Synchronizes, ragVars
  <2> QED BY <2>1, <2>2, <1>0, <1>2, <1>4 DEF Typed, Placed
<1>5. ASSUME NEW s \in Session, RagAdd(s), calm' = FALSE
      PROVE  Typed'
  <2>0. job[s].step = "ok" => job[s].id \in Id
    BY <1>0 DEF Placed, Numbered
  <2>1. /\ StoreTypeOK' /\ adder' \in [Session -> Adder] /\ vectors' \in [Id -> {None} \cup Id]
        /\ UNCHANGED <<db, dirs, nextId, sync, lost, deleter, rs, deleted>>
        /\ \A t \in Session \ {s} : job'[t] = job[t] /\ adder'[t] = adder[t]
        /\ \/ Begins(s) \/ PutDone(s) \/ ChunkDone(s) \/ Leaves(s) \/ Embeds(s) \/ Requests(s) \/ Finishes(s)
    BY <1>5, AddSteps
  <2>2. TypeOK'
    BY <2>1, <1>0, <1>5 DEF TypeOK
  <2>3. job'[s].step \in Numbered => job'[s].id \in Id
    BY <2>1, <1>0 DEF Placed, Begins, PutDone, ChunkDone, Leaves, Embeds, Requests, Finishes, JobGone
  <2>4. adder'[s].at \in Rooted => adder'[s].doc \in Id
    BY <2>0, <2>1, <1>0
       DEF Placed, Begins, PutDone, ChunkDone, Leaves, Embeds, Requests, Finishes, DocKept, Rooted
  <2>5. del'.step # "none" => del'.doc \in Id
    <3>1. NoDelete.step = "none"
      BY DEF NoDelete
    <3>2. adder[s].at = "rollback" => adder[s].doc \in Id
      BY <1>0 DEF Placed, Rooted
    <3> QED BY <2>1, <1>0, <3>1, <3>2 DEF Begins, PutDone, ChunkDone, Leaves, Embeds, Requests, Finishes
  <2> QED BY <2>1, <2>2, <2>3, <2>4, <2>5, <1>0 DEF Typed, Placed
<1>6. CASE RagDelete /\ calm' = FALSE
  <2>1. /\ TypeOK' /\ UNCHANGED <<db, dirs, nextId, job, sync, lost, adder, rs>>
        /\ DeletionKept \/ \E d \in Id : Names(d)
    BY <1>6, RemoveSteps
  <2>2. del'.step # "none" => del'.doc \in Id
    BY <2>1, <1>0 DEF DeletionKept, Names, NoDelete
  <2> QED BY <2>1, <2>2, <1>0 DEF Typed, Placed
<1>7. ASSUME NEW s \in Session, JobStep(s), UNCHANGED ragVars, calm' = FALSE
      PROVE  Typed'
  <2>1. StoreTypeOK'
    BY <1>0, <1>7, JobTypes
  <2>2. UNCHANGED del
    BY <1>7 DEF JobStep, CheckParent, InsertRow, MakeDir, CommitDir, UpdateRow, UndoDir, UndoRow, JobFails
  <2>3. \A t \in Session : job'[t].step \in Numbered => job'[t].id \in Id
    BY <1>0, <1>7, JobPlaced DEF Placed
  <2> QED BY <2>1, <2>2, <2>3, <1>0, <1>2, <1>7 DEF Typed, Placed, ragVars
<1>8. CASE DeleteStepTaken /\ UNCHANGED ragVars /\ calm' = FALSE
  <2>1. StoreTypeOK'
    BY <1>0, <1>8, DeleteTypes
  <2>2. UNCHANGED job /\ del'.doc = del.doc /\ del.step # "none"
    BY <1>0, <1>8 DEF DeleteStepTaken, SelectRecords, RemoveDir, DeleteRows, DeleteFails, Delete
  <2> QED BY <2>1, <2>2, <1>0, <1>2, <1>8 DEF Typed, Placed, ragVars
<1>9. CASE LoseDatabase /\ UNCHANGED ragVars /\ calm' = FALSE
  <2>1. StoreTypeOK' /\ UNCHANGED <<job, del>>
    BY <1>0, <1>9, LossTypes DEF LoseDatabase
  <2> QED BY <2>1, <1>0, <1>2, <1>9 DEF Typed, Placed, ragVars
<1>10. CASE UNCHANGED vars
  BY <1>0, <1>10 DEF Typed, Placed, TypeOK, StoreTypeOK, vars, ragVars, storeVars
<1> QED BY <1>3, <1>4, <1>5, <1>6, <1>7, <1>8, <1>9, <1>10 DEF Next

LEMMA InitTyped == Init => Typed
<1> SUFFICES ASSUME Init PROVE Typed
  OBVIOUS
<1>0. /\ db = NoRecords /\ dirs = NoRecords /\ nextId = 1 /\ job = [s \in Session |-> NoJob]
      /\ del = NoDelete /\ sync = NoSync /\ lost = FALSE /\ faults = 0
  BY DEF Init, StoreInit
<1>1. StoreTypeOK
  <2>1. db \in [Id -> Record] /\ dirs \in [Id -> Record] /\ \A i \in Id : ~(db[i] # None)
    BY <1>0, Constants
  <2>2. nextId \in 1 .. MaxId + 1 /\ faults \in 0 .. MaxFaults
    BY <1>0, Constants
  <2> QED BY <1>0, <2>1, <2>2, Blank DEF StoreTypeOK
<1>2. [at |-> "idle", doc |-> 0, chunks |-> {}] \in Adder
  BY DEF Adder
<1>3. vectors \in [Id -> {None} \cup Id]
  BY DEF Init, NoRecords
<1>4. TypeOK
  BY <1>1, <1>2, <1>3, Blank DEF Init, TypeOK
<1>5. Placed
  BY <1>0 DEF Init, Placed, NoJob, NoDelete, NoReader, Numbered, Rooted
<1> QED BY <1>4, <1>5 DEF Typed

(* Every variable keeps its type, on both sides of the document store and  *)
(* in its clients: above all, no id with a row is given out again, and the *)
(* pages of a rag_sync never lead it past the last document.               *)
THEOREM TypeCorrect == Spec => []TypeOK
<1>1. Typed => TypeOK
  BY DEF Typed
<1> QED BY InitTyped, TypedStep, <1>1, PTL DEF Spec

-----------------------------------------------------------------------------
(* A sync of the dispatcher that nothing else disturbs.  Each row that is  *)
(* still to be compared is as the sync has read it, and each other one is  *)
(* already that of the directory.                                          *)

Synced == {"initial", "page", "read", "finalize", "done"}

Synchronizing ==
    /\ sync.step = "none" <=> rs.at # "sync"
    /\ calm =>
          /\ sync.step = "files" => sync.rows = db
          /\ sync.step = "records" =>
                /\ sync.files = dirs
                /\ \A i \in Id : db[i] = IF i \in sync.todo THEN sync.rows[i] ELSE dirs[i]
          /\ sync.step = "ok" => db = dirs
          /\ rs.synced /\ rs.at \in Synced => db = dirs

LEMMA Passing ==
    ASSUME TypeOK, sync.step = "records", NEW i \in Id, NEW fresh \in BOOLEAN, Passed(i, fresh), dirs' = dirs,
           sync.files = dirs, db' \in [Id -> Record], db'[i] = dirs[i],
           \A j \in Id \ {i} : db'[j] = IF j \in sync.todo THEN sync.rows[j] ELSE dirs[j]
    PROVE  /\ sync'.step \in {"records", "ok"}
           /\ sync'.step = "records" =>
                 /\ sync'.files = dirs'
                 /\ \A j \in Id : db'[j] = IF j \in sync'.todo THEN sync'.rows[j] ELSE dirs'[j]
           /\ sync'.step = "ok" => db' = dirs'
<1>0. sync \in Sync /\ dirs \in [Id -> Record] /\ sync.rows \in [Id -> Record]
  BY Fields
<1>1. CASE sync.todo = {i}
  <2>1. sync' = [NoSync EXCEPT !.step = "ok"]
    BY <1>1 DEF Passed
  <2>2. sync'.step = "ok"
    BY <2>1 DEF NoSync
  <2>3. \A j \in Id : db'[j] = dirs'[j]
    BY <1>1
  <2>4. db' = dirs'
    BY <2>3, <1>0
  <2> QED BY <2>2, <2>4
<1>2. CASE sync.todo # {i}
  <2>1. sync' = [sync EXCEPT !.todo = @ \ {i}, !.fresh = fresh]
    BY <1>2 DEF Passed
  <2>2. /\ sync'.step = "records" /\ sync'.files = sync.files /\ sync'.rows = sync.rows
        /\ sync'.todo = sync.todo \ {i}
    BY <2>1, <1>0 DEF Sync
  <2>3. \A j \in Id : db'[j] = IF j \in sync'.todo THEN sync'.rows[j] ELSE dirs'[j]
    BY <2>2
  <2> QED BY <2>2, <2>3
<1> QED BY <1>1, <1>2

LEMMA SyncReads ==
    ASSUME TypeOK, Synchronizing, calm, ReadRows \/ ReadFiles \/ SyncFails
    PROVE  /\ sync'.step \in {"files", "records", "ok", "failed", "error"}
           /\ sync'.step = "files" => sync'.rows = db'
           /\ sync'.step = "records" =>
                 /\ sync'.files = dirs'
                 /\ \A i \in Id : db'[i] = IF i \in sync'.todo THEN sync'.rows[i] ELSE dirs'[i]
           /\ sync'.step = "ok" => db' = dirs'
<1>0. /\ sync \in Sync /\ dirs \in [Id -> Record] /\ db \in [Id -> Record] /\ db' = db /\ dirs' = dirs
  BY Fields DEF ReadRows, ReadFiles, SyncFails
<1>1. CASE ReadRows
  BY <1>0, <1>1 DEF ReadRows, Sync
<1>2. CASE SyncFails
  BY <1>0, <1>2 DEF SyncFails, SyncError, NoSync
<1>3. CASE ReadFiles
  <2> DEFINE todo == Recorded(sync.rows) \cup Recorded(dirs)
  <2>1. /\ sync.step = "files"
        /\ sync' = IF todo = {} THEN [NoSync EXCEPT !.step = "ok"]
                   ELSE [sync EXCEPT !.step = "records", !.files = dirs, !.todo = todo]
    BY <1>3 DEF ReadFiles
  <2>2. sync.rows = db
    BY <2>1 DEF Synchronizing
  <2>3. \A i \in Id : i \notin todo => db[i] = None /\ dirs[i] = None
    BY <2>2 DEF Recorded
  <2> HIDE DEF todo
  <2>4. CASE todo = {}
    <3>1. \A i \in Id : db[i] = dirs[i]
      BY <2>3, <2>4
    <3>2. db = dirs
      BY <3>1, <1>0
    <3>3. sync'.step = "ok"
      BY <2>1, <2>4 DEF NoSync
    <3> QED BY <3>2, <3>3, <1>0
  <2>5. CASE todo # {}
    <3>1. /\ sync'.step = "records" /\ sync'.files = dirs /\ sync'.rows = db /\ sync'.todo = todo
      BY <2>1, <2>2, <2>5, <1>0 DEF Sync
    <3> QED BY <3>1, <2>3, <1>0
  <2> QED BY <2>4, <2>5
<1> QED BY <1>1, <1>2, <1>3

LEMMA SyncWrites ==
    ASSUME TypeOK, Synchronizing, calm, NEW i \in Id, SyncDelete(i) \/ SyncUpdate(i) \/ SyncCreate(i)
    PROVE  /\ sync'.step \in {"records", "ok", "failed"}
           /\ sync'.step = "records" =>
                 /\ sync'.files = dirs'
                 /\ \A j \in Id : db'[j] = IF j \in sync'.todo THEN sync'.rows[j] ELSE dirs'[j]
           /\ sync'.step = "ok" => db' = dirs'
<1>0. /\ sync \in Sync /\ dirs \in [Id -> Record] /\ db \in [Id -> Record]
      /\ sync.fresh \in BOOLEAN
  BY Fields DEF Sync
<1>1. /\ sync.step = "records" /\ i \in sync.todo /\ UNCHANGED dirs
  BY DEF SyncDelete, SyncUpdate, SyncCreate, Synchronizes
<1>2. sync.files = dirs /\ \A j \in Id : db[j] = IF j \in sync.todo THEN sync.rows[j] ELSE dirs[j]
  BY <1>1 DEF Synchronizing
<1>3. db[i] = sync.rows[i]
  BY <1>1, <1>2
<1>4. SyncError => sync'.step = "failed"
  BY DEF SyncError, NoSync
<1>5. CASE SyncError
  BY <1>4, <1>5
<1>6. CASE \E fresh \in BOOLEAN : Passed(i, fresh) /\ (db' = [db EXCEPT ![i] = dirs[i]])
  <2>1. /\ db' \in [Id -> Record] /\ db'[i] = dirs[i]
        /\ \A j \in Id \ {i} : db'[j] = IF j \in sync.todo THEN sync.rows[j] ELSE dirs[j]
    BY <1>0, <1>2, <1>6
  <2> QED BY <2>1, <1>1, <1>2, <1>6, Passing
<1>7. CASE \E fresh \in BOOLEAN : Passed(i, fresh) /\ db' = db /\ db[i] = dirs[i]
  <2>1. \A j \in Id \ {i} : db'[j] = IF j \in sync.todo THEN sync.rows[j] ELSE dirs[j]
    BY <1>2, <1>7
  <2> QED BY <2>1, <1>0, <1>1, <1>2, <1>7, Passing
<1>8. CASE SyncDelete(i)
  BY <1>2, <1>6, <1>8 DEF SyncDelete, Written
<1>9. CASE SyncUpdate(i)
  <2>1. db[i] # None
    BY <1>3, <1>9 DEF SyncUpdate
  <2>2. \/ SyncError
        \/ db[i] = dirs[i] /\ Passed(i, sync.fresh) /\ db' = db
        \/ db' = [db EXCEPT ![i] = dirs[i]] /\ Passed(i, TRUE)
    BY <1>2, <1>3, <1>9, <2>1 DEF SyncUpdate, Written
  <2> QED BY <2>2, <1>0, <1>5, <1>6, <1>7
<1>10. CASE SyncCreate(i)
  BY <1>2, <1>5, <1>6, <1>10 DEF SyncCreate, Written
<1> QED BY <1>8, <1>9, <1>10

LEMMA SynchronizingStep ==
    ASSUME Typed, Synchronizing, [Next]_vars
    PROVE  Synchronizing'
<1>0. TypeOK /\ rs \in Reader /\ sync \in Sync
  BY Fields DEF Typed
<1>1. CASE SyncRag /\ calm' = Quiet
  <2>1. rs'.at = "sync" /\ sync'.step = "rows"
    BY <1>1 DEF SyncRag, SyncRequest, NoSync, NoReader
  <2> QED BY <2>1 DEF Synchronizing, Synced
<1>2. CASE RagSync /\ UNCHANGED calm
  <2>1. UNCHANGED <<db, dirs>>
    BY <1>2 DEF RagSync, SyncAnswered, ListVectors, GetPage, UpsertVector, Finalize, RagSyncFails, storeVars
  <2>2. CASE SyncAnswered
    <3>1. /\ rs.at = "sync" /\ sync'.step = "none"
          /\ rs'.at \in {"initial", "idle"} /\ (rs'.synced => sync.step = "ok")
      BY <2>2, <1>0 DEF SyncAnswered, NoSync, Reader
    <3> QED BY <3>1, <2>1, <1>2 DEF Synchronizing, Synced
  <2>3. CASE ListVectors \/ GetPage \/ UpsertVector \/ Finalize \/ RagSyncFails
    <3>1. rs.at \in Synced /\ UNCHANGED sync
      BY <2>3 DEF ListVectors, GetPage, UpsertVector, Finalize, RagSyncFails, storeVars, Synced
    <3>2. rs'.at = "idle" \/ (rs'.at \in Synced /\ rs'.synced = rs.synced)
      <4>1. CASE ListVectors \/ Finalize \/ RagSyncFails
        <5>1. ListVectors => rs'.at = "page" /\ rs'.synced = rs.synced
          BY <1>0 DEF ListVectors, Reader
        <5>2. Finalize => rs'.at = "done" /\ rs'.synced = rs.synced
          BY DEF Finalize, NoReader
        <5>3. RagSyncFails => rs'.at = "idle"
          BY DEF RagSyncFails, NoReader
        <5> QED BY <4>1, <5>1, <5>2, <5>3 DEF Synced
      <4>2. CASE GetPage
        BY <4>2, <1>0 DEF GetPage, Synced, Reader, NoReader
      <4>3. CASE UpsertVector
        <5>1. NoReader.at = "idle"
          BY DEF NoReader
        <5>2. \/ rs' = NoReader
              \/ \E there \in {"read", "finalize", "page"} :
                    rs' = [rs EXCEPT !.page = @ \ {Min(rs.page)}, !.source = @ \cup {Min(rs.page)}, !.at = there]
          BY <4>3 DEF UpsertVector
        <5>3. \A there : LET next == [rs EXCEPT !.page = @ \ {Min(rs.page)}, !.source = @ \cup {Min(rs.page)},
                                               !.at = there]
                         IN  next.at = there /\ next.synced = rs.synced
          BY <1>0 DEF Reader
        <5> QED BY <5>1, <5>2, <5>3 DEF Synced
      <4> QED BY <2>3, <4>1, <4>2, <4>3
    <3>3. "sync" \notin Synced /\ "idle" \notin Synced
      BY DEF Synced
    <3> QED BY <3>1, <3>2, <3>3, <2>1, <1>2 DEF Synchronizing
  <2> QED BY <1>2, <2>2, <2>3 DEF RagSync
<1>3. CASE SyncStep /\ UNCHANGED <<ragVars, calm>>
  <2>1. sync.step # "none" /\ rs' = rs
    BY <1>3 DEF SyncStep, ReadRows, ReadFiles, SyncFails, SyncDelete, SyncUpdate, SyncCreate, Synchronizes, ragVars
  <2>2. rs.at = "sync" /\ rs.at \notin Synced
    BY <2>1 DEF Synchronizing, Synced
  <2>3. sync'.step # "none"
    <3>1. SyncError \/ sync' = [NoSync EXCEPT !.step = "error"] => sync'.step # "none"
      BY DEF SyncError, NoSync
    <3>2. \A i, fresh : Passed(i, fresh) => sync'.step # "none"
      BY <2>1, <1>0 DEF Passed, NoSync, Sync
    <3>3. ReadRows \/ ReadFiles => sync'.step # "none"
      BY <1>0 DEF ReadRows, ReadFiles, NoSync, Sync
    <3> QED BY <3>1, <3>2, <3>3, <1>3 DEF SyncStep, SyncFails, SyncDelete, SyncUpdate, SyncCreate, Written
  <2>4. CASE ~calm
    BY <2>1, <2>2, <2>3, <2>4, <1>3 DEF Synchronizing
  <2>5. CASE calm /\ (ReadRows \/ ReadFiles \/ SyncFails)
    BY <2>1, <2>2, <2>3, <2>5, <1>0, <1>3, SyncReads DEF Synchronizing
  <2>6. CASE calm /\ \E i \in Id : SyncDelete(i) \/ SyncUpdate(i) \/ SyncCreate(i)
    <3>1. PICK i \in Id : SyncDelete(i) \/ SyncUpdate(i) \/ SyncCreate(i)
      BY <2>6
    <3>2. /\ sync'.step \in {"records", "ok", "failed"}
          /\ sync'.step = "records" =>
                /\ sync'.files = dirs'
                /\ \A j \in Id : db'[j] = IF j \in sync'.todo THEN sync'.rows[j] ELSE dirs'[j]
          /\ sync'.step = "ok" => db' = dirs'
      BY <2>6, <3>1, <1>0, SyncWrites
    <3> QED BY <3>2, <2>1, <2>2, <2>3, <1>3 DEF Synchronizing
  <2> QED BY <1>3, <2>4, <2>5, <2>6 DEF SyncStep
<1>4. CASE calm' = FALSE /\ (RagDelete \/ \E s \in Session : RagAdd(s))
  <2>1. UNCHANGED <<sync, rs>>
    BY <1>4, AddSteps, RemoveSteps
  <2> QED BY <2>1, <1>4 DEF Synchronizing
<1>5. CASE /\ calm' = FALSE /\ UNCHANGED ragVars
           /\ (\E s \in Session : JobStep(s)) \/ DeleteStepTaken \/ LoseDatabase
  <2>1. UNCHANGED <<sync, rs>>
    BY <1>5 DEF JobStep, CheckParent, InsertRow, MakeDir, CommitDir, UpdateRow, UndoDir, UndoRow, JobFails,
                DeleteStepTaken, SelectRecords, RemoveDir, DeleteRows, DeleteFails, LoseDatabase, ragVars
  <2> QED BY <2>1, <1>5 DEF Synchronizing
<1>6. CASE UNCHANGED vars
  BY <1>6 DEF Synchronizing, vars, storeVars, ragVars
<1> QED BY <1>1, <1>2, <1>3, <1>4, <1>5, <1>6 DEF Next

(* A sync that nothing disturbs and that meets no exception leaves the     *)
(* database equal to the storage tree, whatever was there before it        *)
(* (synchronize_records of sync.py); after one that did, which its client  *)
(* cannot tell from a success, nothing is said.                            *)
THEOREM SyncRestores == Spec => []SyncReconciles
<1>1. Init => Synchronizing
  BY DEF Init, StoreInit, NoSync, NoReader, Synchronizing, Synced
<1>2. Typed /\ Synchronizing /\ [Next]_vars => (Typed /\ Synchronizing)'
  BY TypedStep, SynchronizingStep
<1>3. Synchronizing => SyncReconciles
  BY DEF Synchronizing, SyncReconciles, Synced
<1> QED BY InitTyped, <1>1, <1>2, <1>3, PTL DEF Spec

-----------------------------------------------------------------------------
(* A rag_sync that nothing else disturbs.  The chunks it has gone through  *)
(* are those of the documents before its offset, their vectors are right,  *)
(* and any other vector was there when it began.                           *)

Listed(n) == {i \in Chunks(db) : db[i] \in Documents(db) /\ Rank(Documents(db), db[i]) < n}
Total == Cardinality(Documents(db))

Paging ==
    calm =>
        /\ rs.at \in {"sync", "initial"} => rs.offset = 0 /\ rs.source = {}
        /\ rs.at \in {"page", "read", "finalize"} =>
              /\ rs.offset <= Total
              /\ \A i \in rs.source : vectors[i] = db[i]
              /\ \A i \in Id : i \notin rs.source /\ vectors[i] # None => i \in rs.initial
        /\ rs.at = "page" => rs.source = Listed(rs.offset)
        /\ rs.at = "read" =>
              /\ rs.source \cup rs.page = Listed(rs.offset)
              /\ rs.last <=> Total <= rs.offset
        /\ rs.at = "finalize" => rs.source = Listed(Total)
        /\ rs.at = "done" => vectors = VectorsOf(db)

LEMMA ListedIs ==
    ASSUME TypeOK
    PROVE  /\ Documents(db) \in SUBSET Id /\ Total \in Nat /\ rs.offset \in Nat /\ rs.offset <= MaxId
           /\ Listed(0) = {} /\ Listed(Total) = {i \in Chunks(db) : db[i] \in Documents(db)}
           /\ \A n \in Nat : Total <= n => Listed(n) = Listed(Total)
           /\ \A n : Listed(n) \in SUBSET Id
<1>1. Documents(db) \in SUBSET Id /\ rs.offset \in Nat /\ rs.offset <= MaxId
  BY Fields DEF Documents, Reader
<1>2. Total \in Nat /\ \A i \in Documents(db) : Rank(Documents(db), i) \in 0 .. Total - 1
  BY <1>1, IdsFinite, Ranks DEF Total
<1>3. \A i \in Documents(db) : /\ ~(Rank(Documents(db), i) < 0) /\ Rank(Documents(db), i) < Total
                               /\ \A n \in Nat : Total <= n => Rank(Documents(db), i) < n
  BY <1>2
<1> QED BY <1>1, <1>2, <1>3 DEF Listed, Chunks

LEMMA PageListed ==
    ASSUME TypeOK, rs.offset <= Total
    PROVE  LET docs == Page(rs.offset, BatchSize)
               end == rs.offset + Cardinality(docs)
           IN  /\ end \in Nat /\ end <= Total
               /\ Listed(rs.offset) \cup {i \in Chunks(db) : db[i] \in docs} = Listed(end)
               /\ Remaining(rs.offset, BatchSize) <= 0 <=> Total <= end
<1> DEFINE D == Documents(db)
           docs == Page(rs.offset, BatchSize)
           end == rs.offset + Cardinality(docs)
<1>1. /\ D \in SUBSET Id /\ Total \in Nat /\ rs.offset \in Nat /\ BatchSize \in Nat
      /\ Total = Cardinality(D) /\ IsFiniteSet(D)
  BY ListedIs, Constants, IdsFinite DEF Total
<1>2. /\ end \in Nat /\ end <= Total /\ docs \subseteq D
      /\ docs = {i \in D : rs.offset <= Rank(D, i) /\ Rank(D, i) < end}
  BY <1>1, PageIs
<1>3. \A i \in D : Rank(D, i) \in Nat
  BY <1>1, Ranks
<1>4. Cardinality(docs) \in Nat
  BY <1>1, <1>2, FS_Subset, FS_CardinalityType
<1>5. Remaining(rs.offset, BatchSize) = Total - rs.offset - Cardinality(docs)
  BY DEF Remaining, Total
<1>6. Remaining(rs.offset, BatchSize) <= 0 <=> Total <= end
  <2> HIDE DEF docs
  <2> QED BY <1>1, <1>4, <1>5
<1>7. rs.offset <= end
  <2> HIDE DEF docs
  <2> QED BY <1>1, <1>4
<1> HIDE DEF D, docs, end
<1>8. \A i \in D : Rank(D, i) < rs.offset \/ i \in docs <=> Rank(D, i) < end
  BY <1>1, <1>2, <1>3, <1>7
<1>9. \A i \in Chunks(db) : (db[i] \in D /\ Rank(D, db[i]) < rs.offset) \/ db[i] \in docs
                            <=> db[i] \in D /\ Rank(D, db[i]) < end
  BY <1>2, <1>8
<1>10. Listed(rs.offset) \cup {i \in Chunks(db) : db[i] \in docs} = Listed(end)
  BY <1>9 DEF Listed, D
<1> QED BY <1>2, <1>6, <1>10 DEF docs, end

LEMMA PageStep ==
    ASSUME Typed, Paging, calm, GetPage, UNCHANGED calm
    PROVE  Paging'
<1> DEFINE docs == Page(rs.offset, BatchSize)
           chunks == {i \in Chunks(db) : db[i] \in docs}
           last == Remaining(rs.offset, BatchSize) <= 0
           end == rs.offset + Cardinality(docs)
<1>0. TypeOK /\ rs \in Reader
  BY Fields DEF Typed
<1>1. /\ rs.at = "page" /\ UNCHANGED <<db, vectors>>
      /\ \/ rs' = NoReader
         \/ rs' = [rs EXCEPT !.at = IF chunks # {} THEN "read" ELSE IF last THEN "finalize" ELSE "page",
                             !.page = chunks, !.last = last, !.offset = end]
  BY <1>0 DEF GetPage, storeVars, Reader
<1>2. /\ rs.offset <= Total /\ rs.source = Listed(rs.offset)
      /\ \A i \in rs.source : vectors[i] = db[i]
      /\ \A i \in Id : i \notin rs.source /\ vectors[i] # None => i \in rs.initial
  BY <1>1 DEF Paging
<1>3. end \in Nat /\ end <= Total /\ Listed(rs.offset) \cup chunks = Listed(end) /\ (last <=> Total <= end)
  BY <1>0, <1>2, PageListed
<1>4. Total' = Total /\ \A n : Listed(n)' = Listed(n)
  BY <1>1 DEF Total, Listed, Rank, Below, Documents, Chunks
<1>5. Total \in Nat /\ \A n \in Nat : Total <= n => Listed(n) = Listed(Total)
  BY <1>0, ListedIs
<1> HIDE DEF docs, chunks, last, end
<1>6. CASE rs' = NoReader
  <2>1. rs'.at = "idle"
    BY <1>6 DEF NoReader
  <2> QED BY <2>1 DEF Paging
<1>7. CASE rs' = [rs EXCEPT !.at = IF chunks # {} THEN "read" ELSE IF last THEN "finalize" ELSE "page",
                            !.page = chunks, !.last = last, !.offset = end]
  <2>1. /\ rs'.at = (IF chunks # {} THEN "read" ELSE IF last THEN "finalize" ELSE "page")
        /\ rs'.page = chunks /\ rs'.last = last /\ rs'.offset = end
        /\ rs'.source = rs.source /\ rs'.initial = rs.initial
    BY <1>0, <1>7 DEF Reader
  <2>2. rs'.offset <= Total' /\ vectors' = vectors /\ db' = db
    BY <2>1, <1>1, <1>3, <1>4
  <2>3. rs'.at = "page" => rs'.source = Listed(end)
    <3>1. rs'.at = "page" => Listed(rs.offset) = Listed(end)
      BY <2>1, <1>3
    <3> QED BY <3>1, <2>1, <1>2
  <2>4. rs'.at = "read" => rs'.source \cup rs'.page = Listed(end) /\ (rs'.last <=> Total <= end)
    BY <2>1, <1>2, <1>3
  <2>5. rs'.at = "finalize" => rs'.source = Listed(Total)
    <3>1. rs'.at = "finalize" => Listed(rs.offset) = Listed(end) /\ Total <= end
      BY <2>1, <1>3
    <3> QED BY <3>1, <2>1, <1>2, <1>3, <1>5
  <2>6. rs'.at # "done"
    BY <2>1
  <2> QED BY <2>1, <2>2, <2>3, <2>4, <2>5, <2>6, <1>2, <1>4 DEF Paging
<1> QED BY <1>1, <1>6, <1>7

LEMMA UpsertStep ==
    ASSUME Typed, Paging, calm, UpsertVector, UNCHANGED calm
    PROVE  Paging'
<1> DEFINE i == Min(rs.page)
           there == IF rs.page # {i} THEN "read" ELSE IF rs.last THEN "finalize" ELSE "page"
<1>0. TypeOK /\ rs \in Reader /\ rs.page # {} /\ vectors \in [Id -> {None} \cup Id] /\ rs.at = "read"
  BY Fields DEF Typed, Placed, UpsertVector
<1>1. i \in rs.page /\ rs.page \in SUBSET Id
  <2>1. rs.page \in SUBSET Id /\ rs.page \in SUBSET Nat
    BY <1>0, Constants DEF Reader
  <2> QED BY <2>1, <1>0, LeastId
<1>2. /\ UNCHANGED db
      /\ \/ rs' = NoReader
         \/ /\ vectors' = [vectors EXCEPT ![i] = Parent(i)]
            /\ rs' = [rs EXCEPT !.page = @ \ {i}, !.source = @ \cup {i}, !.at = there]
  BY DEF UpsertVector, storeVars
<1>3. /\ rs.offset <= Total /\ rs.source \cup rs.page = Listed(rs.offset) /\ (rs.last <=> Total <= rs.offset)
      /\ \A j \in rs.source : vectors[j] = db[j]
      /\ \A j \in Id : j \notin rs.source /\ vectors[j] # None => j \in rs.initial
  BY <1>0 DEF Paging
<1>4. Total' = Total /\ \A n : Listed(n)' = Listed(n)
  BY <1>2 DEF Total, Listed, Rank, Below, Documents, Chunks
<1>5. /\ Total \in Nat /\ rs.offset \in Nat /\ \A n \in Nat : Total <= n => Listed(n) = Listed(Total)
  BY <1>0, ListedIs
<1>6. Parent(i) = db[i]
  BY <1>1, <1>3 DEF Listed, Chunks, Parent
<1>7. rs.source \subseteq Id
  BY <1>0 DEF Reader
<1> HIDE DEF i, there
<1>8. CASE rs' = NoReader
  <2>1. rs'.at = "idle"
    BY <1>8 DEF NoReader
  <2> QED BY <2>1 DEF Paging
<1>9. CASE /\ vectors' = [vectors EXCEPT ![i] = Parent(i)]
           /\ rs' = [rs EXCEPT !.page = @ \ {i}, !.source = @ \cup {i}, !.at = there]
  <2>1. /\ rs'.at = there /\ rs'.page = rs.page \ {i} /\ rs'.source = rs.source \cup {i}
        /\ rs'.last = rs.last /\ rs'.offset = rs.offset /\ rs'.initial = rs.initial
    BY <1>0, <1>9 DEF Reader
  <2>2. there = "read" \/ (rs.page = {i} /\ there = IF rs.last THEN "finalize" ELSE "page")
    BY DEF there
  <2>3. \A j \in rs'.source : vectors'[j] = db'[j]
    BY <2>1, <1>0, <1>1, <1>2, <1>3, <1>6, <1>7, <1>9
  <2>4. \A j \in Id : j \notin rs'.source /\ vectors'[j] # None => j \in rs'.initial
    BY <2>1, <1>0, <1>1, <1>3, <1>9
  <2>5. rs'.source \cup rs'.page = Listed(rs.offset)
    BY <2>1, <1>1, <1>3
  <2>6. rs'.at = "page" => rs'.source = Listed(rs.offset)
    BY <2>1, <2>2, <2>5
  <2>7. rs'.at = "finalize" => rs'.source = Listed(Total)
    BY <2>1, <2>2, <2>5, <1>3, <1>5
  <2>8. rs'.at \notin {"done", "sync", "initial"} /\ rs'.offset <= Total /\ (rs'.last <=> Total <= rs'.offset)
    BY <2>1, <2>2, <1>3
  <2>9. Listed(rs.offset) = Listed(rs.offset)' /\ Listed(Total) = Listed(Total)'
    BY <2>1, <1>2 DEF Total, Listed, Rank, Below, Documents, Chunks
  <2> QED BY <2>3, <2>4, <2>5, <2>6, <2>7, <2>8, <2>9, <1>4 DEF Paging
<1> QED BY <1>2, <1>8, <1>9

LEMMA FinalizeStep ==
    ASSUME Typed, Paging, calm, Finalize, UNCHANGED calm
    PROVE  Paging'
<1>0. TypeOK /\ rs \in Reader /\ vectors \in [Id -> {None} \cup Id]
  BY Fields DEF Typed
<1>1. /\ rs.at = "finalize" /\ db' = db /\ rs'.at = "done"
      /\ vectors' = [i \in Id |-> IF i \in rs.initial \ rs.source THEN None ELSE vectors[i]]
  BY DEF Finalize, storeVars, NoReader
<1>2. /\ rs.source = Listed(Total) /\ \A i \in rs.source : vectors[i] = db[i]
      /\ \A i \in Id : i \notin rs.source /\ vectors[i] # None => i \in rs.initial
  BY <1>1 DEF Paging
<1>3. \A i \in Id : i \in rs.source <=> i \in Chunks(db) /\ db[i] \in Documents(db)
  BY <1>0, <1>2, ListedIs DEF Chunks
<1>4. VectorsOf(db') = VectorsOf(db)
  BY <1>1
<1>5. \A i \in Id : vectors'[i] = IF i \in Chunks(db) /\ db[i] \in Documents(db) THEN db[i] ELSE None
  BY <1>1, <1>2, <1>3
<1>6. vectors' = VectorsOf(db)
  BY <1>1, <1>5 DEF VectorsOf
<1> QED BY <1>1, <1>4, <1>6 DEF Paging

LEMMA PagingStep ==
    ASSUME Typed, Synchronizing, Paging, [Next]_vars
    PROVE  Paging'
<1>0. TypeOK /\ rs \in Reader
  BY Fields DEF Typed
<1>1. CASE calm' = FALSE
  BY <1>1 DEF Paging
<1>2. CASE SyncRag /\ calm' = Quiet
  <2>1. rs'.at = "sync" /\ rs'.offset = 0 /\ rs'.source = {}
    BY <1>2 DEF SyncRag, NoReader
  <2> QED BY <2>1 DEF Paging
<1>3. CASE RagSync /\ UNCHANGED calm /\ calm
  <2>1. CASE SyncAnswered \/ RagSyncFails
    <3>1. \/ rs'.at = "idle"
          \/ rs.at = "sync" /\ rs'.at = "initial" /\ rs'.offset = rs.offset /\ rs'.source = rs.source
      <4>1. CASE SyncAnswered
        <5>1. PICK at \in {"idle", "initial"}, synced \in BOOLEAN :
                 rs.at = "sync" /\ rs' = [rs EXCEPT !.at = at, !.synced = synced]
          BY <4>1 DEF SyncAnswered
        <5>2. rs'.at = at /\ rs'.offset = rs.offset /\ rs'.source = rs.source
          BY <5>1, <1>0 DEF Reader
        <5> QED BY <5>1, <5>2
      <4>2. CASE RagSyncFails
        BY <4>2 DEF RagSyncFails, NoReader
      <4> QED BY <2>1, <4>1, <4>2
    <3> QED BY <3>1, <1>3 DEF Paging
  <2>2. CASE ListVectors
    <3>1. /\ rs.at = "initial" /\ rs'.at = "page" /\ rs'.initial = Recorded(vectors)
          /\ rs'.offset = rs.offset /\ rs'.source = rs.source /\ UNCHANGED <<db, vectors>>
      BY <2>2, <1>0 DEF ListVectors, Reader, storeVars
    <3>2. rs.offset = 0 /\ rs.source = {}
      BY <3>1, <1>3 DEF Paging
    <3>3. Total' = Total /\ Total >= 0 /\ Listed(0)' = {}
      BY <3>1, <1>0, ListedIs DEF Total, Listed, Rank, Below, Documents, Chunks
    <3>4. \A i \in Id : vectors'[i] # None => i \in rs'.initial
      BY <3>1 DEF Recorded
    <3> QED BY <3>1, <3>2, <3>3, <3>4 DEF Paging
  <2> QED BY <1>3, <2>1, <2>2, PageStep, UpsertStep, FinalizeStep DEF RagSync
<1>4. CASE SyncStep /\ UNCHANGED <<ragVars, calm>>
  <2>1. sync.step # "none" /\ rs' = rs
    BY <1>4 DEF SyncStep, ReadRows, ReadFiles, SyncFails, SyncDelete, SyncUpdate, SyncCreate, Synchronizes, ragVars
  <2>2. rs'.at = "sync"
    BY <2>1 DEF Synchronizing
  <2> QED BY <2>1, <2>2, <1>4 DEF Paging
<1>5. CASE UNCHANGED vars
  BY <1>5 DEF Paging, vars, storeVars, ragVars, Total, Listed, Chunks, Documents, Rank, Below, VectorsOf
<1>6. CASE RagSync /\ UNCHANGED calm /\ ~calm
  BY <1>6 DEF Paging
<1> QED BY <1>1, <1>2, <1>3, <1>4, <1>5, <1>6 DEF Next

(* A rag_sync that nothing disturbs leaves in Chroma the vectors of the    *)
(* chunks of all documents of the database and no other, in pages of any   *)
(* size, even if the sync before it had failed; and if it had not, those   *)
(* of the storage tree (reconcile_chroma_pages of rag_sync.py).            *)
THEOREM VectorsFollow == Spec => []VectorsReconciled
<1>1. Init => Synchronizing /\ Paging
  BY DEF Init, StoreInit, NoSync, NoReader, Synchronizing, Synced, Paging
<1>2. Typed /\ Synchronizing /\ Paging /\ [Next]_vars => (Typed /\ Synchronizing /\ Paging)'
  BY TypedStep, SynchronizingStep, PagingStep
<1>3. Synchronizing /\ Paging => VectorsReconciled
  <2>1. Synchronizing /\ calm /\ rs.at = "done" /\ rs.synced => db = dirs
    BY DEF Synchronizing, Synced
  <2>2. Paging /\ calm /\ rs.at = "done" => vectors = VectorsOf(db)
    BY DEF Paging
  <2> QED BY <2>1, <2>2 DEF VectorsReconciled
<1> QED BY InitTyped, <1>1, <1>2, <1>3, PTL DEF Spec

-----------------------------------------------------------------------------
(* Whose record an id is.  As long as the database is not lost, an id has  *)
(* one owner from its insert on: the request that works on it, or then the *)
(* rag_add that got it for its document or for a chunk.  Whatever names a  *)
(* parent for it, on either side or in what a sync has read, names the     *)
(* parent its owner has in mind.                                           *)

Name(i, v) == v \in Id /\ (db[i] = v \/ dirs[i] = v \/ sync.rows[i] = v \/ sync.files[i] = v)
Taken(i) == db[i] # None \/ dirs[i] # None \/ sync.rows[i] # None \/ sync.files[i] # None

Shape ==
    \A s \in Session :
        /\ adder[s].at \notin Rooted => adder[s].doc = 0 /\ adder[s].chunks = {}
        /\ adder[s].at = "put" => job[s].kind = "put"
        /\ adder[s].at = "attach" => job[s].kind = "attach" /\ job[s].doc = adder[s].doc
        /\ job[s].kind = "put" /\ job[s].id # 0 => job[s].doc = job[s].id

Fresh ==
    /\ \A i \in Id : Taken(i) \/ i \in del.targets => i < nextId
    /\ \A s \in Session :
          /\ job[s].id < nextId /\ adder[s].doc < nextId
          /\ \A i \in adder[s].chunks : i < nextId

Distinct ==
    \A s, t \in Session :
        /\ s # t /\ job[s].id # 0 => job[s].id # job[t].id
        /\ s # t /\ adder[s].doc # 0 => adder[s].doc # adder[t].doc
        /\ job[s].id # 0 => job[s].id # adder[t].doc /\ job[s].id \notin adder[t].chunks
        /\ adder[s].doc \notin adder[t].chunks

OwnerNames(i, v) ==
    \A s \in Session :
        /\ job[s].id = i => v = job[s].doc
        /\ adder[s].doc = i => v = i
        /\ i \in adder[s].chunks => v = adder[s].doc

Named ==
    \A i \in Id, v \in Id : Name(i, v) => OwnerNames(i, v) /\ \A w \in Id : Name(i, w) => w = v

(* A delete_doc only ever works for a rollback or for a rag_delete, and    *)
(* what it has selected are the records of that document.                  *)
Condemned(d) ==
    \E s \in Session :
        /\ adder[s].doc = d
        /\ adder[s].at \in {"rollback", "clean", "dirty"} \/ (adder[s].at = "added" /\ d \in deleted)

Deleting ==
    /\ del.step = "none" => del.targets = {}
    /\ del.left \subseteq del.targets /\ (del.step = "dirs" => del.left # {})
    /\ del.step # "none" => Condemned(del.doc)
    /\ \A i \in del.targets : OwnerNames(i, del.doc)

Live(s) == adder[s].at \in {"attach", "embed"} \/ (adder[s].at = "added" /\ adder[s].doc \notin deleted)

Stored ==
    \A s \in Session :
        /\ Live(s) => dirs[adder[s].doc] = adder[s].doc /\ \A i \in adder[s].chunks : dirs[i] = adder[s].doc
        /\ adder[s].at \in {"put", "attach"} /\ job[s].step \in {"update", "ok"} => dirs[job[s].id] = job[s].doc

Owned == Shape /\ Fresh /\ Distinct /\ Named /\ Deleting /\ Stored

(* A step that only copies names from one place to another.                *)
LEMMA CopyOwned ==
    ASSUME Typed, Owned, UNCHANGED <<job, del, adder, deleted, dirs>>, nextId' \in Nat, nextId <= nextId',
           \A i \in Id : Taken(i)' => Taken(i) \/ i < nextId',
           \A i, v \in Id : Name(i, v)' => Name(i, v)
    PROVE  Owned'
<1>0. /\ nextId \in Nat /\ del \in Delete
      /\ \A s \in Session : /\ job[s].id \in {0} \cup Id /\ adder[s].doc \in {0} \cup Id
                            /\ adder[s].chunks \in SUBSET Id
  BY Fields DEF Typed
<1>1. Shape'
  BY DEF Owned, Shape
<1>2. Fresh'
  <2>1. \A i \in Id : i < nextId => i < nextId'
    BY <1>0, Constants
  <2>2. \A s \in Session : /\ job[s].id < nextId' /\ adder[s].doc < nextId'
                           /\ \A i \in adder[s].chunks : i < nextId'
    BY <1>0, Constants DEF Owned, Fresh
  <2> QED BY <2>1, <2>2 DEF Owned, Fresh
<1>3. Distinct'
  BY DEF Owned, Distinct
<1>4. \A i, v : OwnerNames(i, v) => OwnerNames(i, v)'
  BY DEF OwnerNames
<1>5. Named'
  BY <1>4 DEF Owned, Named
<1>6. Deleting'
  BY DEF Owned, Deleting, Condemned, OwnerNames
<1>7. Stored'
  BY DEF Owned, Stored, Live
<1> QED BY <1>1, <1>2, <1>3, <1>5, <1>6, <1>7 DEF Owned

LEMMA SyncOwned ==
    ASSUME Typed, Owned, SyncStep, UNCHANGED ragVars
    PROVE  Owned'
<1>0. /\ TypeOK /\ nextId \in 1 .. MaxId + 1 /\ db \in [Id -> Record] /\ sync \in Sync
      /\ \A i \in Id : NoRecords[i] = None /\ None \notin Id
  BY Fields, Constants DEF Typed
<1>1. UNCHANGED <<job, del, adder, deleted, dirs>>
  BY DEF SyncStep, ReadRows, ReadFiles, SyncFails, SyncDelete, SyncUpdate, SyncCreate, Synchronizes, ragVars
<1>2. nextId' \in 1 .. MaxId + 1 /\ \A i \in Id : db'[i] # None => i < nextId'
  BY <1>0, SyncTypes DEF TypeOK, StoreTypeOK
<1>3. nextId <= nextId'
  <2>1. nextId' = nextId \/ \E i \in Id : nextId' = IF nextId > i THEN nextId ELSE i + 1
    BY DEF SyncStep, ReadRows, ReadFiles, SyncFails, SyncDelete, SyncUpdate, SyncCreate
  <2> QED BY <2>1, <1>0, Constants
<1>4. \A i \in Id : /\ sync'.rows[i] \in {None, db[i], sync.rows[i]}
                    /\ sync'.files[i] \in {None, dirs[i], sync.files[i]}
  <2>1. NoSync.rows = NoRecords /\ NoSync.files = NoRecords
    BY DEF NoSync
  <2>2. \A step : /\ [NoSync EXCEPT !.step = step].rows = NoRecords
                  /\ [NoSync EXCEPT !.step = step].files = NoRecords
    BY DEF NoSync
  <2>3. SyncError \/ sync' = [NoSync EXCEPT !.step = "error"] => sync'.rows = NoRecords /\ sync'.files = NoRecords
    BY <2>2 DEF SyncError
  <2>4. \A i, fresh : Passed(i, fresh) => \/ sync'.rows = NoRecords /\ sync'.files = NoRecords
                                          \/ sync'.rows = sync.rows /\ sync'.files = sync.files
    BY <2>2, <1>0 DEF Passed, Sync
  <2>5. ReadRows => sync'.rows = db /\ sync'.files = sync.files
    BY <1>0 DEF ReadRows, Sync
  <2>6. ReadFiles => \/ sync'.rows = NoRecords /\ sync'.files = NoRecords
                     \/ sync'.rows = sync.rows /\ sync'.files = dirs
    BY <2>2, <1>0 DEF ReadFiles, Sync
  <2>7. \/ sync'.rows = NoRecords /\ sync'.files = NoRecords
        \/ sync'.rows = sync.rows /\ sync'.files = sync.files
        \/ sync'.rows = db /\ sync'.files = sync.files
        \/ sync'.rows = sync.rows /\ sync'.files = dirs
    BY <2>3, <2>4, <2>5, <2>6 DEF SyncStep, SyncFails, SyncDelete, SyncUpdate, SyncCreate, Written
  <2> QED BY <2>7, <1>0
<1>5. \A i \in Id : db'[i] \in {None, db[i], sync.files[i]}
  <2>1. db' = db \/ \E i \in Id : db' = [db EXCEPT ![i] = None] \/ db' = [db EXCEPT ![i] = sync.files[i]]
    BY DEF SyncStep, ReadRows, ReadFiles, SyncFails, SyncDelete, SyncUpdate, SyncCreate
  <2> QED BY <2>1, <1>0
<1>6. \A i, v \in Id : Name(i, v)' => Name(i, v)
  BY <1>0, <1>1, <1>4, <1>5 DEF Name
<1>7. \A i \in Id : Taken(i)' => Taken(i) \/ i < nextId'
  BY <1>1, <1>2, <1>4, <1>5 DEF Taken
<1>8. nextId' \in Nat
  BY <1>2
<1> QED BY <1>1, <1>3, <1>6, <1>7, <1>8, CopyOwned

LEMMA ReaderOwned ==
    ASSUME Typed, Owned, RagSync \/ SyncRag, calm' \in BOOLEAN
    PROVE  Owned'
<1>0. nextId \in Nat /\ \A i \in Id : NoRecords[i] = None /\ None \notin Id
  BY Fields, Constants DEF Typed
<1>1. /\ UNCHANGED <<db, dirs, nextId, job, del, adder, deleted>>
      /\ sync' = sync \/ sync' = NoSync \/ sync' = [NoSync EXCEPT !.step = "rows"]
  BY ReaderSteps
<1>2. sync' = sync \/ (sync'.rows = NoRecords /\ sync'.files = NoRecords)
  BY <1>1 DEF NoSync
<1>3. \A i, v \in Id : Name(i, v)' => Name(i, v)
  BY <1>0, <1>1, <1>2 DEF Name
<1>4. \A i \in Id : Taken(i)' => Taken(i)
  BY <1>0, <1>1, <1>2 DEF Taken
<1> QED BY <1>0, <1>1, <1>3, <1>4, CopyOwned

(* A request that works on its record touches no other.                    *)
LEMMA JobEffects ==
    ASSUME Typed, NEW s \in Session, JobStep(s), ~InsertRow(s)
    PROVE  /\ UNCHANGED <<del, sync, nextId>> /\ \A t \in Session \ {s} : job'[t] = job[t]
           /\ job'[s].id = job[s].id /\ job'[s].doc = job[s].doc /\ job'[s].kind = job[s].kind
           /\ \A i \in Id \ {job[s].id} : dirs'[i] = dirs[i] /\ db'[i] = db[i]
           /\ job[s].id \in Id => /\ db'[job[s].id] \in {db[job[s].id], None, job[s].doc}
                                  /\ dirs'[job[s].id] \in {dirs[job[s].id], None, 0, job[s].doc}
           /\ job'[s].step \in {"update", "ok"} =>
                 \/ dirs'[job[s].id] = job[s].doc
                 \/ job[s].step \in {"update", "ok"} /\ dirs' = dirs
<1>0. /\ job \in [Session -> Job] /\ db \in [Id -> Record] /\ dirs \in [Id -> Record]
      /\ (job[s].step \in Numbered => job[s].id \in Id)
  BY Fields DEF Typed, Placed
<1>1. UNCHANGED <<del, sync, nextId>>
  BY DEF JobStep, CheckParent, MakeDir, CommitDir, UpdateRow, UndoDir, UndoRow, JobFails
<1>2. PICK step : Goto(s, step)
  <2>1. CheckParent(s) \/ UpdateRow(s) \/ UndoDir(s) \/ UndoRow(s) => \E step : Goto(s, step)
    BY DEF CheckParent, UpdateRow, UndoDir, UndoRow, At
  <2>2. MakeDir(s) \/ CommitDir(s) => \E step : Goto(s, step)
    BY DEF MakeDir, CommitDir
  <2>3. JobFails(s) => \E step : Goto(s, step)
    BY DEF JobFails
  <2> QED BY <2>1, <2>2, <2>3 DEF JobStep
<1>3. /\ \A t \in Session \ {s} : job'[t] = job[t]
      /\ job'[s].id = job[s].id /\ job'[s].doc = job[s].doc /\ job'[s].kind = job[s].kind
  BY <1>0, <1>2 DEF Goto, Job
<1>4. \A i \in Id \ {job[s].id} : dirs'[i] = dirs[i] /\ db'[i] = db[i]
  BY <1>0 DEF JobStep, CheckParent, MakeDir, CommitDir, UpdateRow, UndoDir, UndoRow, JobFails
<1>5. ASSUME job[s].id \in Id
      PROVE  /\ db'[job[s].id] \in {db[job[s].id], None, job[s].doc}
             /\ dirs'[job[s].id] \in {dirs[job[s].id], None, 0, job[s].doc}
  BY <1>0, <1>5 DEF JobStep, CheckParent, MakeDir, CommitDir, UpdateRow, UndoDir, UndoRow, JobFails
<1>6. \A to : Goto(s, to) => job'[s].step = to
  BY <1>0 DEF Goto, Job
<1>7. ASSUME job'[s].step \in {"update", "ok"}
      PROVE  \/ dirs'[job[s].id] = job[s].doc
             \/ job[s].step \in {"update", "ok"} /\ dirs' = dirs
  <2>1. CASE CommitDir(s)
    <3>1. dirs[job[s].id] # None
      <4>1. AfterError(s, "undo dir") \notin {"update", "ok"}
        BY DEF AfterError
      <4> QED BY <4>1, <2>1, <1>6, <1>7 DEF CommitDir
    <3>2. job[s].id \in Id
      BY <2>1, <1>0 DEF CommitDir, Numbered
    <3> QED BY <3>1, <3>2, <2>1, <1>0 DEF CommitDir
  <2>2. CASE UpdateRow(s)
    BY <2>2 DEF UpdateRow, At
  <2>3. CASE CheckParent(s)
    <3>1. Goto(s, "insert") \/ Goto(s, "error")
      BY <2>3 DEF CheckParent, At
    <3> QED BY <3>1, <1>6, <1>7
  <2>4. CASE UndoDir(s) \/ UndoRow(s)
    <3>1. Goto(s, "undo row") \/ Goto(s, "error")
      BY <2>4 DEF UndoDir, UndoRow, At
    <3> QED BY <3>1, <1>6, <1>7
  <2>5. CASE MakeDir(s) \/ JobFails(s)
    <3>1. \/ Goto(s, "commit") \/ Goto(s, "error")
          \/ Goto(s, AfterError(s, "undo row")) \/ Goto(s, AfterError(s, "undo dir"))
      BY <2>5 DEF MakeDir, JobFails
    <3>2. {AfterError(s, "undo row"), AfterError(s, "undo dir")} \subseteq {"error", "undo row", "undo dir"}
      BY DEF AfterError
    <3> QED BY <3>1, <3>2, <1>6, <1>7
  <2> QED BY <2>1, <2>2, <2>3, <2>4, <2>5 DEF JobStep
<1> QED BY <1>1, <1>3, <1>4, <1>5, <1>7

LEMMA InsertOwned ==
    ASSUME Typed, Owned, NEW s \in Session, InsertRow(s), UNCHANGED ragVars
    PROVE  Owned'
<1>0. /\ nextId \in Nat /\ job \in [Session -> Job] /\ db \in [Id -> Record]
      /\ \A t \in Session : /\ job[t].id \in {0} \cup Id /\ adder[t].doc \in {0} \cup Id
                            /\ adder[t].chunks \in SUBSET Id
      /\ \A i \in Id : i \in Nat
  BY Fields, Constants DEF Typed
<1>1. /\ nextId \in Id /\ nextId' = nextId + 1 /\ db' = [db EXCEPT ![nextId] = 0]
      /\ UNCHANGED <<dirs, del, sync, adder, deleted>>
  BY Fields, Constants DEF Typed, InsertRow, Id, ragVars
<1>2. /\ job'[s].step = "mkdir" /\ job'[s].id = nextId /\ job'[s].kind = job[s].kind
      /\ job'[s].doc = IF job[s].kind = "put" THEN nextId ELSE job[s].doc
      /\ \A t \in Session \ {s} : job'[t] = job[t]
  BY <1>0 DEF InsertRow, Job
<1>3. \A i, v \in Id : Name(i, v)' => Name(i, v)
  <2>1. 0 \notin Id
    BY Constants
  <2> QED BY <2>1, <1>0, <1>1 DEF Name
<1>4. \A i \in Id : Taken(i)' => Taken(i) \/ i = nextId
  BY <1>0, <1>1 DEF Taken
<1>5. \A i, v \in Id : Name(i, v) => i # nextId
  <2>1. None \notin Id
    BY Constants
  <2>2. \A i, v \in Id : Name(i, v) => Taken(i)
    BY <2>1 DEF Name, Taken
  <2> QED BY <2>2, <1>0 DEF Owned, Fresh
<1>6. Shape'
  BY <1>1, <1>2 DEF Owned, Shape
<1>7. Fresh'
  <2>1. \A i \in {0} \cup Id : i < nextId => i < nextId'
    BY <1>0, <1>1
  <2>2. nextId < nextId'
    BY <1>0, <1>1
  <2>3. \A i \in Id : Taken(i)' \/ i \in del'.targets => i < nextId'
    BY <2>1, <2>2, <1>1, <1>4 DEF Owned, Fresh
  <2>4. \A t \in Session : job'[t].id < nextId'
    BY <2>1, <2>2, <1>0, <1>2 DEF Owned, Fresh
  <2>5. \A t \in Session : adder'[t].doc < nextId' /\ \A i \in adder'[t].chunks : i < nextId'
    BY <2>1, <1>0, <1>1 DEF Owned, Fresh
  <2> QED BY <2>3, <2>4, <2>5 DEF Fresh
<1>8. \A t \in Session : job[t].id # nextId /\ adder[t].doc # nextId /\ nextId \notin adder[t].chunks
  BY <1>0 DEF Owned, Fresh
<1>9. Distinct'
  BY <1>0, <1>1, <1>2, <1>8 DEF Owned, Distinct
<1>10. \A i \in Id \ {nextId} : \A v : OwnerNames(i, v) => OwnerNames(i, v)'
  BY <1>1, <1>2 DEF OwnerNames
<1>11. Named'
  BY <1>3, <1>5, <1>10 DEF Owned, Named
<1>12. Deleting'
  <2>1. \A i \in del.targets : i \in Id /\ i # nextId
    BY <1>0, Fields DEF Owned, Fresh, Typed, Delete
  <2>3. \A i \in del'.targets : \A t \in Session : /\ job'[t].id = i => del'.doc = job'[t].doc
                                                   /\ adder'[t].doc = i => del'.doc = i
                                                   /\ i \in adder'[t].chunks => del'.doc = adder'[t].doc
    BY <2>1, <1>1, <1>2 DEF Owned, Deleting, OwnerNames
  <2> QED BY <2>3, <1>1 DEF Owned, Deleting, Condemned, OwnerNames
<1>13. Stored'
  BY <1>1, <1>2 DEF Owned, Stored, Live
<1> QED BY <1>6, <1>7, <1>9, <1>11, <1>12, <1>13 DEF Owned

LEMMA WorkOwned ==
    ASSUME Typed, Owned, NEW s \in Session, JobStep(s), ~InsertRow(s), UNCHANGED ragVars
    PROVE  Owned'
<1>0. /\ nextId \in Nat
      /\ \A t \in Session : /\ job[t].id \in {0} \cup Id /\ adder[t].doc \in {0} \cup Id
                            /\ job[t].doc \in {0} \cup Id /\ adder[t].chunks \in SUBSET Id
                            /\ job[t].step \in Numbered => job[t].id \in Id
                            /\ adder[t].at \in Rooted => adder[t].doc \in Id
      /\ 0 \notin Id /\ None \notin Id
  BY Fields, Constants DEF Typed, Placed
<1>1. /\ UNCHANGED <<del, sync, nextId, adder, deleted>> /\ \A t \in Session \ {s} : job'[t] = job[t]
      /\ job'[s].id = job[s].id /\ job'[s].doc = job[s].doc /\ job'[s].kind = job[s].kind
      /\ \A i \in Id \ {job[s].id} : dirs'[i] = dirs[i] /\ db'[i] = db[i]
      /\ job[s].id \in Id => /\ db'[job[s].id] \in {db[job[s].id], None, job[s].doc}
                             /\ dirs'[job[s].id] \in {dirs[job[s].id], None, 0, job[s].doc}
      /\ job'[s].step \in {"update", "ok"} =>
            \/ dirs'[job[s].id] = job[s].doc
            \/ job[s].step \in {"update", "ok"} /\ dirs' = dirs
  BY JobEffects DEF ragVars
<1>2. \A t \in Session : job'[t].id = job[t].id /\ job'[t].doc = job[t].doc /\ job'[t].kind = job[t].kind
  BY <1>1
<1>3. \A i, v \in Id : Name(i, v)' => Name(i, v) \/ (i = job[s].id /\ v = job[s].doc)
  BY <1>0, <1>1 DEF Name
<1>4. \A i \in Id : Taken(i)' => Taken(i) \/ i = job[s].id
  BY <1>1 DEF Taken
<1>5. \A i, v : OwnerNames(i, v) <=> OwnerNames(i, v)'
  BY <1>1, <1>2 DEF OwnerNames
<1>6. Shape'
  BY <1>1, <1>2 DEF Owned, Shape
<1>7. Fresh'
  BY <1>1, <1>2, <1>4 DEF Owned, Fresh
<1>8. Distinct'
  BY <1>1, <1>2 DEF Owned, Distinct
<1>9. Named'
  <2>1. job[s].id \in Id => OwnerNames(job[s].id, job[s].doc)
    BY <1>0 DEF Owned, Distinct, OwnerNames
  <2>2. \A w \in Id : job[s].id \in Id /\ Name(job[s].id, w) => w = job[s].doc
    BY DEF Owned, Named, OwnerNames
  <2>3. \A i, v \in Id : Name(i, v)' => OwnerNames(i, v)
    BY <2>1, <1>3 DEF Owned, Named
  <2>4. \A i, v, w \in Id : Name(i, v)' /\ Name(i, w)' => w = v
    BY <2>2, <1>3 DEF Owned, Named
  <2> QED BY <2>3, <2>4, <1>5 DEF Named
<1>10. Deleting'
  BY <1>1, <1>2 DEF Owned, Deleting, Condemned, OwnerNames
<1>11. Stored'
  <2>1. ASSUME NEW t \in Session, Live(t)
        PROVE  dirs'[adder[t].doc] = adder[t].doc /\ \A i \in adder[t].chunks : dirs'[i] = adder[t].doc
    <3>1. adder[t].doc \in Id
      BY <2>1, <1>0 DEF Live, Rooted
    <3>2. adder[t].doc # job[s].id /\ job[s].id \notin adder[t].chunks
      BY <3>1, <1>0 DEF Owned, Distinct
    <3> QED BY <2>1, <3>1, <3>2, <1>0, <1>1 DEF Owned, Stored
  <2>2. ASSUME NEW t \in Session, adder[t].at \in {"put", "attach"}, job'[t].step \in {"update", "ok"}
        PROVE  dirs'[job[t].id] = job[t].doc
    <3>1. CASE t = s
      BY <2>2, <3>1, <1>1 DEF Owned, Stored
    <3>2. CASE t # s
      <4>1. job[t].step \in {"update", "ok"} /\ job[t].id \in Id
        BY <2>2, <3>2, <1>0, <1>1 DEF Numbered
      <4>2. job[t].id # job[s].id
        BY <3>2, <4>1, <1>0 DEF Owned, Distinct
      <4> QED BY <2>2, <4>1, <4>2, <1>1 DEF Owned, Stored
    <3> QED BY <3>1, <3>2
  <2> QED BY <2>1, <2>2, <1>1, <1>2 DEF Stored, Live
<1> QED BY <1>6, <1>7, <1>8, <1>9, <1>10, <1>11 DEF Owned

(* No live record is among those a delete_doc has selected.                *)
LEMMA Spared ==
    ASSUME Typed, Owned, del.step # "none", NEW i \in del.targets, NEW s \in Session
    PROVE  /\ Live(s) => i # adder[s].doc /\ i \notin adder[s].chunks
           /\ adder[s].at \in {"put", "attach"} /\ job[s].id \in Id => i # job[s].id
<1>0. /\ del.doc \in Id /\ 0 \notin Id /\ (Live(s) => adder[s].doc \in Id)
  BY Constants DEF Typed, Placed, Live, Rooted
<1>1. OwnerNames(i, del.doc)
  BY DEF Owned, Deleting
<1>2. PICK t \in Session :
         /\ adder[t].doc = del.doc
         /\ adder[t].at \in {"rollback", "clean", "dirty"} \/ (adder[t].at = "added" /\ del.doc \in deleted)
  BY DEF Owned, Deleting, Condemned
<1>3. adder[s].doc = del.doc => s = t
  BY <1>0, <1>2 DEF Owned, Distinct
<1>4. ASSUME Live(s), i = adder[s].doc \/ i \in adder[s].chunks
      PROVE  FALSE
  <2>1. adder[s].doc = del.doc
    BY <1>1, <1>4 DEF OwnerNames
  <2> QED BY <2>1, <1>2, <1>3, <1>4 DEF Live
<1>5. ASSUME adder[s].at \in {"put", "attach"}, job[s].id \in Id, i = job[s].id
      PROVE  FALSE
  <2>1. job[s].doc = del.doc
    BY <1>1, <1>5 DEF OwnerNames
  <2>2. CASE adder[s].at = "put"
    <3>1. job[s].id = adder[t].doc
      BY <2>1, <2>2, <1>0, <1>2, <1>5 DEF Owned, Shape
    <3> QED BY <3>1, <1>0, <1>5 DEF Owned, Distinct
  <2>3. CASE adder[s].at = "attach"
    <3>1. adder[s].doc = del.doc
      BY <2>1, <2>3 DEF Owned, Shape
    <3> QED BY <3>1, <2>3, <1>2, <1>3
  <2> QED BY <2>2, <2>3, <1>5
<1> QED BY <1>4, <1>5

LEMMA DeleteOwned ==
    ASSUME Typed, Owned, DeleteStepTaken, UNCHANGED ragVars
    PROVE  Owned'
<1>0. /\ del \in Delete /\ del.targets \in SUBSET Id /\ del.left \in SUBSET Id /\ del.left \subseteq del.targets
      /\ db \in [Id -> Record] /\ dirs \in [Id -> Record]
      /\ 0 \notin Id /\ None \notin Id
      /\ \A t \in Session : /\ job[t].id \in {0} \cup Id
                            /\ job[t].step \in Numbered => job[t].id \in Id
  BY Fields, Constants DEF Typed, Placed, Delete, Owned, Deleting
<1>1. UNCHANGED <<job, sync, nextId, adder, deleted>>
  BY DEF DeleteStepTaken, SelectRecords, RemoveDir, DeleteRows, DeleteFails, ragVars
<1>2. del.step # "none" /\ del'.doc = del.doc /\ del.doc \in Id
  <2>1. del.step # "none" /\ del'.doc = del.doc
    BY <1>0 DEF DeleteStepTaken, SelectRecords, RemoveDir, DeleteRows, DeleteFails, Delete
  <2> QED BY <2>1 DEF Typed, Placed
<1>3. \A i \in Id : db'[i] \in {db[i], None}
  BY <1>0 DEF DeleteStepTaken, SelectRecords, RemoveDir, DeleteRows, DeleteFails
<1>4. del.step = "dirs" => Min(del.left) \in del.left
  <2>1. del.left \in SUBSET Nat
    BY <1>0, Constants
  <2> QED BY <2>1, LeastId DEF Owned, Deleting
<1>5. \/ dirs' = dirs
      \/ \E i \in del.targets : dirs' = [dirs EXCEPT ![i] = None]
  <2> HIDE DEF Min
  <2> QED BY <1>0, <1>4 DEF DeleteStepTaken, SelectRecords, RemoveDir, DeleteRows, DeleteFails
<1>6. \A i \in Id : dirs'[i] \in {dirs[i], None}
  BY <1>0, <1>5
<1>7. \A i, v : OwnerNames(i, v) <=> OwnerNames(i, v)'
  BY <1>1 DEF OwnerNames
<1>8. /\ del'.left \subseteq del'.targets /\ (del'.step = "dirs" => del'.left # {}) /\ del'.step # "none"
      /\ \A i \in del'.targets : OwnerNames(i, del.doc) /\ i \in Id /\ i < nextId
  <2>1. CASE SelectRecords
    <3> DEFINE targets == ChunksOf(db, del.doc) \cup {i \in {del.doc} : db[i] # None}
    <3>1. /\ del'.targets = targets /\ del'.left = targets
          /\ del'.step = IF targets = {} THEN "error" ELSE "dirs"
      BY <2>1, <1>0 DEF SelectRecords, Delete
    <3>2. ASSUME NEW i \in targets
          PROVE  i \in Id /\ db[i] # None /\ OwnerNames(i, del.doc)
      <4>1. CASE i \in ChunksOf(db, del.doc)
        <5>1. i \in Id /\ db[i] = del.doc
          BY <4>1 DEF ChunksOf, Chunks
        <5>2. Name(i, del.doc)
          BY <5>1, <1>2 DEF Name
        <5> QED BY <5>1, <5>2, <1>0, <1>2 DEF Owned, Named
      <4>2. CASE i = del.doc /\ db[i] # None
        <5>1. PICK t \in Session : adder[t].doc = del.doc
          BY <1>2 DEF Owned, Deleting, Condemned
        <5>2. OwnerNames(del.doc, del.doc)
          BY <5>1, <1>0, <1>2 DEF Owned, Distinct, OwnerNames
        <5> QED BY <4>2, <5>2, <1>2
      <4> QED BY <4>1, <4>2
    <3> HIDE DEF targets
    <3> QED BY <3>1, <3>2 DEF Owned, Fresh, Taken
  <2>2. ASSUME del'.targets = del.targets
        PROVE  \A i \in del'.targets : OwnerNames(i, del.doc) /\ i \in Id /\ i < nextId
    BY <2>2, <1>0 DEF Owned, Deleting, Fresh
  <2>3. CASE RemoveDir
    <3>1. PICK i \in del.left : /\ del'.targets = del.targets /\ del'.left = del.left \ {i}
                                /\ del'.step = IF del.left = {i} THEN "sql" ELSE "dirs"
      <4> HIDE DEF Min
      <4> QED BY <2>3, <1>0, <1>4 DEF RemoveDir, Delete
    <3> QED BY <3>1, <2>2, <1>0
  <2>4. CASE DeleteRows \/ DeleteFails
    <3>1. /\ del'.targets = del.targets /\ del'.left = del.left
          /\ del'.step \in {"ok", "error"}
      BY <2>4, <1>0 DEF DeleteRows, DeleteFails, Delete
    <3> QED BY <3>1, <2>2, <1>0
  <2> QED BY <2>1, <2>3, <2>4 DEF DeleteStepTaken
<1>9. Shape' /\ Distinct'
  BY <1>1 DEF Owned, Shape, Distinct
<1>10. Fresh'
  <2>1. \A i \in Id : Taken(i)' => Taken(i)
    BY <1>1, <1>3, <1>6 DEF Taken
  <2> QED BY <2>1, <1>1, <1>8 DEF Owned, Fresh
<1>11. Named'
  <2>1. \A i, v \in Id : Name(i, v)' => Name(i, v)
    BY <1>0, <1>1, <1>3, <1>6 DEF Name
  <2> QED BY <2>1, <1>7 DEF Owned, Named
<1>12. Deleting'
  <2>1. Condemned(del.doc)
    BY <1>2 DEF Owned, Deleting
  <2>2. Condemned(del.doc)'
    BY <2>1, <1>1, <1>2 DEF Condemned
  <2>3. \A i \in del'.targets : OwnerNames(i, del.doc)'
    BY <1>1, <1>2, <1>8 DEF OwnerNames
  <2> QED BY <2>2, <2>3, <1>2, <1>8 DEF Deleting, Condemned, OwnerNames
<1>13. Stored'
  <2>1. CASE dirs' = dirs
    BY <2>1, <1>1 DEF Owned, Stored, Live
  <2>2. ASSUME NEW i \in del.targets, dirs' = [dirs EXCEPT ![i] = None]
        PROVE  Stored'
    <3>1. \A j \in Id \ {i} : dirs'[j] = dirs[j]
      BY <2>2, <1>0
    <3>2. ASSUME NEW s \in Session, Live(s)
          PROVE  dirs'[adder[s].doc] = adder[s].doc /\ \A j \in adder[s].chunks : dirs'[j] = adder[s].doc
      <4>1. i # adder[s].doc /\ i \notin adder[s].chunks
        BY <3>2, <1>2, Spared
      <4>2. adder[s].doc \in Id /\ adder[s].chunks \in SUBSET Id
        BY <3>2, Fields DEF Typed, Placed, Live, Rooted
      <4> QED BY <4>1, <4>2, <3>1, <3>2 DEF Owned, Stored
    <3>3. ASSUME NEW s \in Session, adder[s].at \in {"put", "attach"}, job[s].step \in {"update", "ok"}
          PROVE  dirs'[job[s].id] = job[s].doc
      <4>1. job[s].id \in Id
        BY <3>3, <1>0 DEF Numbered
      <4>2. i # job[s].id
        BY <3>3, <4>1, <1>2, Spared
      <4> QED BY <4>1, <4>2, <3>1, <3>3 DEF Owned, Stored
    <3> QED BY <3>2, <3>3, <1>1 DEF Stored, Live
  <2> QED BY <2>1, <2>2, <1>5
<1> QED BY <1>9, <1>10, <1>11, <1>12, <1>13 DEF Owned

(* A client that gets the answer of its request takes the id over from it. *)
LEMMA Handover ==
    ASSUME Typed, Owned, NEW s \in Session,
           \A t \in Session \ {s} : job'[t] = job[t] /\ adder'[t] = adder[t],
           \/ PutDone(s) \/ ChunkDone(s)
           \/ DocKept(s) /\ (job'[s] = job[s] \/ JobGone(s))
    PROVE  /\ \A i \in Id : \A v : OwnerNames(i, v) => OwnerNames(i, v)'
           /\ Distinct'
           /\ \A t \in Session : /\ job'[t].id < nextId /\ adder'[t].doc < nextId
                                 /\ \A i \in adder'[t].chunks : i < nextId
<1>0. /\ 0 \notin Id /\ nextId \in 1 .. MaxId + 1
      /\ \A t \in Session : /\ job[t].id \in {0} \cup Id /\ adder[t].doc \in {0} \cup Id
                            /\ adder[t].chunks \in SUBSET Id
                            /\ job[t].step = "ok" => job[t].id \in Id
  BY Fields, Constants DEF Typed, Placed, Numbered
<1>1. \A t \in Session : /\ job[t].id < nextId /\ adder[t].doc < nextId
                         /\ \A i \in adder[t].chunks : i < nextId
  BY DEF Owned, Fresh
<1>2. \A t \in Session : 0 < nextId
  BY <1>0, Constants
<1>3. CASE PutDone(s)
  <2>1. /\ job[s].id \in Id /\ job[s].doc = job[s].id /\ adder[s].chunks = {} /\ adder[s].doc = 0
        /\ adder'[s].doc = job[s].id /\ adder'[s].chunks = {} /\ job'[s].id = 0
    BY <1>0, <1>3 DEF PutDone, JobGone, Owned, Shape, Rooted
  <2>2. \A i \in Id : \A v : OwnerNames(i, v) => OwnerNames(i, v)'
    BY <2>1, <1>0 DEF OwnerNames
  <2>3. Distinct'
    BY <2>1, <1>0 DEF Owned, Distinct
  <2> QED BY <2>1, <2>2, <2>3, <1>1, <1>2
<1>4. CASE ChunkDone(s)
  <2>1. /\ job[s].id \in Id /\ job[s].doc = adder[s].doc
        /\ adder'[s].doc = adder[s].doc /\ adder'[s].chunks = adder[s].chunks \cup {job[s].id} /\ job'[s].id = 0
    BY <1>0, <1>4 DEF ChunkDone, JobGone, Owned, Shape
  <2>2. \A i \in Id : \A v : OwnerNames(i, v) => OwnerNames(i, v)'
    BY <2>1, <1>0 DEF OwnerNames
  <2>3. Distinct'
    BY <2>1, <1>0 DEF Owned, Distinct
  <2> QED BY <2>1, <2>2, <2>3, <1>1, <1>2
<1>5. CASE DocKept(s) /\ (job'[s] = job[s] \/ JobGone(s))
  <2>1. /\ adder'[s].doc = adder[s].doc /\ adder'[s].chunks = adder[s].chunks
        /\ job'[s] = job[s] \/ job'[s].id = 0
    BY <1>5 DEF DocKept, JobGone
  <2>2. \A i \in Id : \A v : OwnerNames(i, v) => OwnerNames(i, v)'
    BY <2>1, <1>0 DEF OwnerNames
  <2>3. Distinct'
    BY <2>1, <1>0 DEF Owned, Distinct
  <2> QED BY <2>1, <2>2, <2>3, <1>1, <1>2
<1> QED BY <1>3, <1>4, <1>5

LEMMA AddOwned ==
    ASSUME Typed, Owned, NEW s \in Session, RagAdd(s)
    PROVE  Owned'
<1>0. /\ 0 \notin Id
      /\ \A t \in Session : /\ job[t].step = "ok" => job[t].id \in Id
                            /\ adder[t].at \in Rooted => adder[t].doc \in Id
  BY Constants DEF Typed, Placed, Numbered
<1>1. /\ UNCHANGED <<db, dirs, nextId, sync, lost, deleted>>
      /\ \A t \in Session \ {s} : job'[t] = job[t] /\ adder'[t] = adder[t]
      /\ \/ Begins(s) \/ PutDone(s) \/ ChunkDone(s) \/ Leaves(s) \/ Embeds(s) \/ Requests(s) \/ Finishes(s)
  BY AddSteps
<1>2. \/ PutDone(s) \/ ChunkDone(s)
      \/ DocKept(s) /\ (job'[s] = job[s] \/ JobGone(s))
  BY <1>1 DEF Begins, Leaves, Embeds, Requests, Finishes, DocKept
<1>3. /\ \A i \in Id : \A v : OwnerNames(i, v) => OwnerNames(i, v)'
      /\ Distinct'
      /\ \A t \in Session : /\ job'[t].id < nextId /\ adder'[t].doc < nextId
                            /\ \A i \in adder'[t].chunks : i < nextId
  BY <1>1, <1>2, Handover
<1>4. \/ del' = NoDelete
      \/ /\ del'.step = del.step /\ del'.doc = del.doc
         /\ del'.targets = del.targets /\ del'.left = del.left
      \/ Requests(s)
  BY <1>1 DEF Begins, PutDone, ChunkDone, Leaves, Embeds, Finishes
<1>5. NoDelete.step = "none" /\ NoDelete.targets = {} /\ NoDelete.left = {}
  BY DEF NoDelete
<1>6. \A i \in Id : \A v : Name(i, v)' <=> Name(i, v)
  BY <1>1 DEF Name
<1>7. Named'
  BY <1>3, <1>6 DEF Owned, Named
<1>8. Fresh'
  <2>1. del'.targets \subseteq del.targets
    BY <1>4, <1>5 DEF Requests
  <2>2. \A i \in Id : Taken(i)' <=> Taken(i)
    BY <1>1 DEF Taken
  <2> QED BY <2>1, <2>2, <1>1, <1>3 DEF Owned, Fresh
<1>9. Shape'
  <2>1. /\ adder'[s].at \notin Rooted => adder'[s].doc = 0 /\ adder'[s].chunks = {}
        /\ adder'[s].at = "put" => job'[s].kind = "put"
        /\ adder'[s].at = "attach" => job'[s].kind = "attach" /\ job'[s].doc = adder'[s].doc
        /\ job'[s].kind = "put" /\ job'[s].id # 0 => job'[s].doc = job'[s].id
    <3>1. CASE Begins(s)
      BY <3>1 DEF Begins, DocKept, JobGone, Owned, Shape, Rooted
    <3>2. CASE PutDone(s)
      BY <3>2, <1>0 DEF PutDone, JobGone, Owned, Shape, Rooted
    <3>3. CASE ChunkDone(s)
      BY <3>3, <1>0 DEF ChunkDone, JobGone, Owned, Shape, Rooted
    <3>4. CASE Leaves(s)
      BY <3>4 DEF Leaves, DocKept, JobGone, Owned, Shape, Rooted
    <3>5. CASE Embeds(s) \/ Finishes(s)
      BY <3>5 DEF Embeds, Finishes, DocKept, Owned, Shape, Rooted
    <3>6. CASE Requests(s)
      BY <3>6 DEF Requests, Owned, Shape
    <3> QED BY <1>1, <3>1, <3>2, <3>3, <3>4, <3>5, <3>6
  <2> QED BY <2>1, <1>1 DEF Owned, Shape
<1>10. \A d : Condemned(d) => Condemned(d)'
  <2>1. adder[s].at \in {"rollback", "clean", "dirty", "added"} =>
           /\ adder'[s].doc = adder[s].doc
           /\ adder'[s].at = adder[s].at \/ (adder[s].at = "rollback" /\ adder'[s].at \in {"clean", "dirty"})
    BY <1>1 DEF Begins, PutDone, ChunkDone, Leaves, Embeds, Requests, Finishes, DocKept
  <2> QED BY <2>1, <1>1 DEF Condemned
<1>11. Deleting'
  <2>1. CASE del' = NoDelete
    BY <2>1, <1>5 DEF Deleting
  <2>2. CASE /\ del'.step = del.step /\ del'.doc = del.doc
             /\ del'.targets = del.targets /\ del'.left = del.left
    <3>1. PICK d : d = del.doc
      OBVIOUS
    <3>2. del.step # "none" => Condemned(d)'
      BY <3>1, <1>10 DEF Owned, Deleting
    <3>3. \A i \in del.targets : OwnerNames(i, d)'
      <4>1. del.targets \in SUBSET Id
        BY Fields DEF Typed, Delete
      <4> QED BY <4>1, <3>1, <1>3 DEF Owned, Deleting
    <3> QED BY <2>2, <3>1, <3>2, <3>3 DEF Owned, Deleting, Condemned, OwnerNames
  <2>3. CASE Requests(s)
    <3>1. /\ adder'[s].doc = del'.doc /\ adder'[s].at = "rollback"
          /\ del'.step = "select" /\ del'.targets = {} /\ del'.left = {}
      BY <2>3 DEF Requests
    <3> QED BY <3>1 DEF Deleting, Condemned
  <2> QED BY <2>1, <2>2, <2>3, <1>4
<1>12. Stored'
  <2>1. /\ Live(s)' => dirs[adder'[s].doc] = adder'[s].doc /\ \A i \in adder'[s].chunks : dirs[i] = adder'[s].doc
        /\ adder'[s].at \in {"put", "attach"} /\ job'[s].step \in {"update", "ok"} => dirs[job'[s].id] = job'[s].doc
    <3>1. CASE Begins(s)
      BY <3>1 DEF Begins, JobGone, Numbered, Live
    <3>2. CASE PutDone(s)
      <4>1. /\ adder'[s].doc = job[s].id /\ adder'[s].chunks = {} /\ job[s].doc = job[s].id
            /\ job'[s].step \notin {"update", "ok"}
        BY <3>2, <1>0 DEF PutDone, JobGone, Numbered, Owned, Shape, Rooted
      <4>2. dirs[job[s].id] = job[s].doc
        BY <3>2 DEF PutDone, Owned, Stored
      <4> QED BY <4>1, <4>2
    <3>3. CASE ChunkDone(s)
      <4>1. /\ adder'[s].doc = adder[s].doc /\ adder'[s].chunks = adder[s].chunks \cup {job[s].id}
            /\ job[s].doc = adder[s].doc /\ job'[s].step \notin {"update", "ok"} /\ Live(s)
        BY <3>3 DEF ChunkDone, JobGone, Numbered, Owned, Shape, Live
      <4>2. dirs[job[s].id] = job[s].doc
        BY <3>3 DEF ChunkDone, Owned, Stored
      <4> QED BY <4>1, <4>2 DEF Owned, Stored
    <3>4. CASE Leaves(s) \/ Finishes(s)
      BY <3>4 DEF Leaves, Finishes, Live
    <3>5. CASE Embeds(s)
      BY <3>5, <1>1 DEF Embeds, DocKept, Live, Owned, Stored
    <3>6. CASE Requests(s)
      BY <3>6, <1>1 DEF Requests, Live, Owned, Stored
    <3> QED BY <1>1, <3>1, <3>2, <3>3, <3>4, <3>5, <3>6
  <2> QED BY <2>1, <1>1 DEF Owned, Stored, Live
<1> QED BY <1>3, <1>7, <1>8, <1>9, <1>11, <1>12 DEF Owned

(* A rag_delete names a document that was added, and condemns it.          *)
LEMMA RemoveOwned ==
    ASSUME Typed, Owned, RagDelete, calm' \in BOOLEAN
    PROVE  Owned'
<1>1. /\ UNCHANGED <<db, dirs, nextId, job, sync, lost, adder, rs>>
      /\ DeletionKept \/ \E d \in Id : Names(d)
  BY RemoveSteps
<1>2. deleted \subseteq deleted'
  BY <1>1 DEF DeletionKept, Names
<1>3. NoDelete.step = "none" /\ NoDelete.targets = {} /\ NoDelete.left = {}
  BY DEF NoDelete
<1>4. \A i, v : OwnerNames(i, v) <=> OwnerNames(i, v)'
  BY <1>1 DEF OwnerNames
<1>5. Shape' /\ Distinct'
  BY <1>1 DEF Owned, Shape, Distinct
<1>6. Named'
  <2>1. \A i, v : Name(i, v)' <=> Name(i, v)
    BY <1>1 DEF Name
  <2> QED BY <2>1, <1>4 DEF Owned, Named
<1>7. del'.targets \subseteq del.targets
  BY <1>1, <1>3 DEF DeletionKept, Names
<1>8. Fresh'
  <2>1. \A i : Taken(i)' <=> Taken(i)
    BY <1>1 DEF Taken
  <2> QED BY <2>1, <1>1, <1>7 DEF Owned, Fresh
<1>9. Stored'
  BY <1>1, <1>2 DEF Owned, Stored, Live
<1>10. Deleting'
  <2>1. CASE del' = NoDelete
    BY <2>1, <1>3 DEF Deleting
  <2>2. CASE /\ del'.step = del.step /\ del'.doc = del.doc
             /\ del'.targets = del.targets /\ del'.left = del.left
    BY <2>2, <1>1, <1>2 DEF Owned, Deleting, Condemned, OwnerNames
  <2>3. ASSUME NEW d \in Id, Names(d)
        PROVE  Deleting'
    <3>1. PICK s \in Session : adder[s].at = "added" /\ adder[s].doc = d
      BY <2>3 DEF Names, Adds
    <3>2. /\ del'.step = "select" /\ del'.doc = d /\ del'.targets = {} /\ del'.left = {} /\ d \in deleted'
      BY <2>3 DEF Names
    <3>3. adder'[s].at = "added" /\ adder'[s].doc = d
      BY <3>1, <1>1
    <3> QED BY <3>2, <3>3 DEF Deleting, Condemned
  <2> QED BY <2>1, <2>2, <2>3, <1>1 DEF DeletionKept
<1> QED BY <1>5, <1>6, <1>8, <1>9, <1>10 DEF Owned

LEMMA InitOwned == Init => Owned
<1> SUFFICES ASSUME Init PROVE Owned
  OBVIOUS
<1>0. /\ \A i \in Id : NoRecords[i] = None /\ None \notin Id
      /\ 0 \notin Id
  BY Constants
<1>1. /\ db = NoRecords /\ dirs = NoRecords /\ nextId = 1 /\ job = [s \in Session |-> NoJob]
      /\ del = NoDelete /\ sync = NoSync /\ adder = [s \in Session |-> [at |-> "idle", doc |-> 0, chunks |-> {}]]
  BY DEF Init, StoreInit
<1>2. /\ sync.rows = NoRecords /\ sync.files = NoRecords
      /\ del.step = "none" /\ del.targets = {} /\ del.left = {}
  BY <1>1 DEF NoSync, NoDelete
<1>3. \A s \in Session : /\ job[s].step = "none" /\ job[s].id = 0
                         /\ adder[s].at = "idle" /\ adder[s].doc = 0 /\ adder[s].chunks = {}
  BY <1>1 DEF NoJob
<1>4. \A i \in Id : ~Taken(i) /\ \A v : ~Name(i, v)
  BY <1>0, <1>1, <1>2 DEF Taken, Name
<1>5. Shape /\ Distinct
  BY <1>3 DEF Shape, Distinct
<1>6. Fresh
  BY <1>1, <1>2, <1>3, <1>4 DEF Fresh
<1>7. Named /\ Deleting
  BY <1>2, <1>4 DEF Named, Deleting
<1>8. Stored
  BY <1>3 DEF Stored, Live
<1> QED BY <1>5, <1>6, <1>7, <1>8 DEF Owned

LEMMA OwnedStep ==
    ASSUME Typed, ~lost => Owned, [Next]_vars
    PROVE  (~lost => Owned)'
<1> SUFFICES ASSUME ~lost' PROVE Owned'
  OBVIOUS
<1>1. calm \in BOOLEAN /\ Quiet \in BOOLEAN
  BY DEF Typed, TypeOK, Quiet
<1>2. CASE UNCHANGED vars
  <2>1. UNCHANGED <<db, dirs, nextId, sync, job, del, adder, deleted, lost>>
    BY <1>2 DEF vars, storeVars, ragVars
  <2>2. Owned
    BY <2>1
  <2> QED BY <2>1, <2>2 DEF Owned, Shape, Fresh, Taken, Distinct, Named, Name, Deleting, Condemned, OwnerNames, Stored, Live
<1>3. CASE (SyncRag /\ calm' = Quiet) \/ (RagSync /\ UNCHANGED calm)
  <2>1. lost' = lost
    BY <1>1, <1>3, ReaderSteps
  <2> QED BY <2>1, <1>1, <1>3, ReaderOwned
<1>4. CASE SyncStep /\ UNCHANGED <<ragVars, calm>>
  <2>1. lost' = lost
    BY <1>4 DEF SyncStep, ReadRows, ReadFiles, SyncFails, SyncDelete, SyncUpdate, SyncCreate, Synchronizes
  <2> QED BY <2>1, <1>4, SyncOwned
<1>5. ASSUME NEW s \in Session, RagAdd(s)
      PROVE  Owned'
  BY <1>5, AddSteps, AddOwned
<1>6. CASE RagDelete /\ calm' = FALSE
  BY <1>6, RemoveSteps, RemoveOwned
<1>7. ASSUME NEW s \in Session, JobStep(s), UNCHANGED ragVars
      PROVE  Owned'
  <2>1. lost' = lost
    BY <1>7 DEF JobStep, CheckParent, InsertRow, MakeDir, CommitDir, UpdateRow, UndoDir, UndoRow, JobFails
  <2> QED BY <2>1, <1>7, InsertOwned, WorkOwned
<1>8. CASE DeleteStepTaken /\ UNCHANGED ragVars
  <2>1. lost' = lost
    BY <1>8 DEF DeleteStepTaken, SelectRecords, RemoveDir, DeleteRows, DeleteFails
  <2> QED BY <2>1, <1>8, DeleteOwned
<1>9. CASE LoseDatabase
  BY <1>9 DEF LoseDatabase
<1> QED BY <1>2, <1>3, <1>4, <1>5, <1>6, <1>7, <1>8, <1>9 DEF Next

(* As long as the database is not lost, the row and the directory of an id *)
(* never name two different parents, in whatever order the requests, their *)
(* failures, a sync that has read the tables before and a delete_doc come  *)
(* (put_doc, attach_doc_chunk and delete_doc, which read_id relies on).    *)
THEOREM SidesAgree == Spec => []RecordsAgree
<1>1. Typed /\ (~lost => Owned) => RecordsAgree
  <2> SUFFICES ASSUME Typed, Owned, NEW i \in Id, db[i] \notin {None, 0}, dirs[i] \notin {None, 0}
               PROVE  db[i] = dirs[i]
    BY DEF RecordsAgree
  <2>1. db[i] \in Id /\ dirs[i] \in Id
    BY Fields DEF Typed, Record
  <2>2. Name(i, db[i]) /\ Name(i, dirs[i])
    BY <2>1 DEF Name
  <2> QED BY <2>1, <2>2 DEF Owned, Named
<1> QED BY InitTyped, InitOwned, TypedStep, OwnedStep, <1>1, PTL DEF Spec

(* As long as the database is not lost, what rag_add reported as added     *)
(* stays in the storage tree until a rag_delete names it: no rollback of   *)
(* another rag_add.py removes a record that is not its own.                *)
THEOREM AddedStays == Spec => []AddedIsStored
<1>1. (~lost => Owned) => AddedIsStored
  BY DEF Owned, Stored, Live, AddedIsStored, Adds
<1> QED BY InitTyped, InitOwned, TypedStep, OwnedStep, <1>1, PTL DEF Spec
=============================================================================
