-------------------------- MODULE RunRegistry_proofs --------------------------
(***************************************************************************)
(* Proofs about RunRegistry, for every set of nodes and every value of the *)
(* bounds: a listed run can be loaded (Core), and, if the operator loads   *)
(* with care, its rows are kept (Kept) and are its audit's (Owned).        *)
(***************************************************************************)
EXTENDS RunRegistry, FiniteSetTheorems, WellFoundedInduction, TLAPS

-----------------------------------------------------------------------------
(* The inductive invariant.                                                *)

\* A stopped process displays nothing.
Down == ~up => results = NoRows /\ st = Blank /\ pass = NoPass

\* A view without a number has no rows behind it, on disk either.
Named == up /\ st.number = 0 => results = NoRows /\ file = NoRows /\ pass = NoPass

\* What holds whatever the operator loads.
Core == TypeOK /\ SavedRunLoads /\ Down /\ Named

\* The pinned directory is the displayed run's, and is there during a pass.
Pinned ==
  /\ st.pinned \in {0, st.number}
  /\ pass # NoPass => st.pinned = st.number /\ dir[st.number] # None

\* The snapshot names the displayed run or is empty.
Snapped ==
  /\ snap # None /\ snap.number = 0 => file = NoRows
  /\ snap # None /\ up /\ st.number # 0 => snap.number = st.number

\* A fresh pass wipes the array before anybody can save it.
Unsaved ==
  pass.pc = "setup" => pass.kind = "fresh" /\ st.number \notin saved /\ results = NoRows

\* results.json lags only behind the array a new test has emptied.
Filed == up => file = results \/ (results = NoRows /\ st.number \notin saved)

Extends(r, s) == \A n \in Tested(s) : r[n] = s[n]

\* The rows that the next save writes over a saved run contain that run.
Grown ==
  /\ up /\ st.number \in saved /\ (results # NoRows \/ pass # NoPass) =>
       Extends(results, dir[st.number])
  /\ ~up /\ snap # None /\ snap.number \in saved /\ file # NoRows =>
       Extends(file, dir[snap.number])

Kept == Pinned /\ Snapped /\ Unsaved /\ Filed /\ Grown

OwnedBy(r, a) == \A n \in Nodes : r[n] = 0 \/ r[n] = a

\* Whose rows are where.
Owned ==
  /\ \A k \in Numbers : HasFile(dir, k) => OwnedBy(dir[k], minted[k])
  /\ up /\ st.number # 0 => OwnedBy(results, minted[st.number])
  /\ pass.kind \in {"fresh", "resume"} => pass.audit = minted[st.number]
  /\ pass.kind \in {"none", "retest"} => pass.audit = 0
  /\ ~up /\ file # NoRows => \E a \in Audits : OwnedBy(file, a)
  /\ ~up /\ file # NoRows /\ snap # None => OwnedBy(file, minted[snap.number])

Inv == Core /\ Kept /\ (~torn => Owned)
-----------------------------------------------------------------------------
(* The operators of the model.                                             *)

\* The number handed out next is no index entry's, and the one below it is.
LEMMA NextIsNew ==
  ASSUME NEW S \in SUBSET Numbers
  PROVE  /\ NextNumber(S) \in Nat \ {0} /\ NextNumber(S) \notin S
         /\ S # {} => NextNumber(S) - 1 \in S
<1>1. CASE S = {}
  BY <1>1 DEF NextNumber
<1>2. CASE S # {}
  <2> DEFINE Above(k) == {j \in S : k < j}
             F == {Above(k) : k \in S}
  <2>1. IsFiniteSet(S) /\ S \subseteq Nat
    <3>1. IsFiniteSet(Numbers) /\ Numbers \subseteq Nat
      BY FS_Interval, RegistryAssumption DEF Numbers
    <3> QED BY <3>1, FS_Subset
  <2>2. F \subseteq FiniteSubsetsOf(S) /\ F # {}
    <3>1. ASSUME NEW k \in S PROVE Above(k) \in FiniteSubsetsOf(S)
      <4>1. Above(k) \in SUBSET S
        OBVIOUS
      <4> HIDE DEF Above
      <4> QED BY <2>1, <4>1, FS_Subset DEF FiniteSubsetsOf
    <3> QED BY <1>2, <3>1
  <2>3. PICK x \in F : \A y \in F : ~(<<y, x>> \in StrictSubsetOrdering(S))
    <3> HIDE DEF F
    <3> QED BY <2>2, FS_StrictSubsetOrderingWellFounded, WFMin
  <2>4. PICK k \in S : x = Above(k)
    OBVIOUS
  <2>5. ASSUME NEW j \in S PROVE j <= k
    <3>1. SUFFICES ASSUME k < j PROVE FALSE
      BY <2>1
    <3>2. j \in Above(k) /\ j \notin Above(j) /\ Above(j) \subseteq Above(k)
      <4>1. k \in Nat /\ j \in Nat /\ \A i \in S : i \in Nat
        BY <2>1
      <4>2. \A i \in S : j < i => k < i
        BY <3>1, <4>1
      <4>3. ~(j < j)
        BY <4>1
      <4> HIDE DEF F
      <4> QED BY <3>1, <4>2, <4>3
    <3> HIDE DEF Above
    <3> QED BY <2>2, <2>3, <2>4, <3>2 DEF StrictSubsetOrdering, FiniteSubsetsOf
  <2> DEFINE m == CHOOSE i \in S : \A j \in S : j <= i
  <2>6. m \in S /\ \A j \in S : j <= m
    BY <2>5
  <2>7. NextNumber(S) = 1 + m
    BY <1>2 DEF NextNumber
  <2> HIDE DEF m
  <2> QED BY <2>1, <2>6, <2>7, RegistryAssumption DEF Numbers
<1> QED BY <1>1, <1>2

\* The rows of a results array are counted within the nodes.
LEMMA Counted ==
  ASSUME NEW r \in Rows
  PROVE  /\ Tested(r) \subseteq Nodes /\ IsFiniteSet(Tested(r))
         /\ Cardinality(Tested(r)) \in 0..Cardinality(Nodes)
         /\ r # NoRows <=> Tested(r) # {}
<1>1. Tested(r) \in SUBSET Nodes
  BY DEF Tested
<1>2. r # NoRows <=> Tested(r) # {}
  BY DEF Tested, Rows, NoRows
<1> QED
  BY <1>1, <1>2, FS_Subset, FS_CardinalityType, RegistryAssumption

\* What a resume skips and what it has left make up at most the nodes.
LEMMA SumFits ==
  ASSUME NEW r \in Rows, NEW todo \in SUBSET Nodes, todo \cap Tested(r) = {}
  PROVE  Cardinality(Tested(r)) + Cardinality(todo) \in 0..Cardinality(Nodes)
<1>1. IsFiniteSet(todo) /\ IsFiniteSet(Tested(r)) /\ (Tested(r) \cup todo) \in SUBSET Nodes
  BY Counted, FS_Subset, RegistryAssumption
<1>2. Cardinality(Tested(r) \cup todo) = Cardinality(Tested(r)) + Cardinality(todo)
  <2>1. Tested(r) \cap todo = {}
    OBVIOUS
  <2>2. Cardinality({}) = 0
    BY FS_EmptySet
  <2>3. Cardinality(Tested(r) \cup todo)
          = Cardinality(Tested(r)) + Cardinality(todo) - Cardinality(Tested(r) \cap todo)
    BY <1>1, FS_Union
  <2>4. Cardinality(Tested(r)) \in Nat /\ Cardinality(todo) \in Nat
    BY <1>1, FS_CardinalityType
  <2>5. Cardinality(Tested(r) \cap todo) = 0
    BY <2>1, <2>2
  <2> QED BY <2>3, <2>4, <2>5
<1>3. Cardinality(Tested(r) \cup todo) <= Cardinality(Nodes)
  BY <1>1, FS_Subset, RegistryAssumption
<1> QED
  BY <1>1, <1>2, <1>3, FS_CardinalityType, RegistryAssumption

LEMMA Markers ==
  /\ NoRows \in Rows /\ 0 \notin Numbers /\ Numbers \subseteq Nat
  /\ \A d, k : d[k] \in Rows => HasFile(d, k)
BY MarkerAssumption, RegistryAssumption DEF NoRows, Rows, Numbers, HasFile

\* The run a boot or a delete falls back to has a file.
LEMMA LatestHasFile ==
  ASSUME NEW d, NEW S \in SUBSET Numbers, NEW p \in {0} \cup Numbers
  PROVE  /\ LatestRun(d, S, p) \in {0} \cup Numbers
         /\ LatestRun(d, S, p) # 0 => HasFile(d, LatestRun(d, S, p))
<1>1. NextNumber(S) - 1 \in {0} \cup S
  BY NextIsNew DEF NextNumber
<1> QED
  BY <1>1 DEF LatestRun
\* Snapshots keep their type.
LEMMA Snapshots ==
  ASSUME TypeOK, st' \in State, Broadcast \/ Flushed \/ snap' \in {None, View(st')}
  PROVE  snap' = None \/ snap' \in Snapshot
<1>1. View(st') \in Snapshot
  BY DEF State, View, Snapshot
<1> QED BY <1>1 DEF TypeOK, Broadcast, Flushed

LEMMA LoadedState ==
  ASSUME NEW k \in Numbers, NEW r \in Rows, NEW p \in {0} \cup Numbers
  PROVE  Loaded(k, r, p) \in State
BY Counted DEF Loaded, State, Statuses

LEMMA Counts == Cardinality(Nodes) \in Nat /\ 0 \in 0..Cardinality(Nodes)
BY FS_CardinalityType, RegistryAssumption

-----------------------------------------------------------------------------
(* Core: it needs no care about when a run is loaded.                      *)

LEMMA CoreInit == Init => Core
<1> SUFFICES ASSUME Init PROVE Core
  OBVIOUS
<1>1. TypeOK
  <2>1. st \in State /\ pass \in Pass
    BY Counts DEF Init, Blank, State, Statuses, NoPass, Pass
  <2>2. dir \in [Numbers -> Rows \cup {None, Bare}] /\ minted \in [Numbers -> {0} \cup Audits]
    BY DEF Init
  <2>3. crashes \in 0..MaxCrashes
    BY RegistryAssumption DEF Init
  <2> QED BY <2>1, <2>2, <2>3, Markers DEF Init, TypeOK
<1>2. SavedRunLoads /\ Down /\ Named
  BY DEF Init, SavedRunLoads, Down, Named
<1> QED BY <1>1, <1>2 DEF Core

\* What the writers of a results directory leave of the typing.
LEMMA SaveResultsWrites ==
  ASSUME Core, NEW r \in Rows, SaveResults(r)
  PROVE  /\ file' \in Rows
         /\ dir' \in [Numbers -> Rows \cup {None, Bare}]
         /\ \A k \in Numbers : HasFile(dir, k) => HasFile(dir', k)
BY Markers, MarkerAssumption DEF Core, TypeOK, SaveResults, HasFile

LEMMA SaveCurrentWrites ==
  ASSUME Core, up, SaveCurrent
  PROVE  /\ dir' \in [Numbers -> Rows \cup {None, Bare}]
         /\ saved' \subseteq Numbers /\ pointer' \in {0} \cup Numbers
         /\ \A k \in saved' : HasFile(dir', k)
<1>1. CASE results = NoRows
  BY <1>1 DEF Core, TypeOK, SavedRunLoads, SaveCurrent, HasFile
<1>2. CASE results # NoRows
  <2>1. st.number \in Numbers /\ st.number # 0
    BY <1>2 DEF Core, TypeOK, State, Named
  <2>2. /\ dir' = [dir EXCEPT ![st.number] = results]
        /\ saved' = saved \cup {st.number} /\ pointer' \in {pointer, st.number}
    BY <1>2, <2>1 DEF SaveCurrent
  <2>3. dir' \in [Numbers -> Rows \cup {None, Bare}] /\ dir'[st.number] = results
    BY <2>1, <2>2 DEF Core, TypeOK
  <2>4. HasFile(dir', st.number)
    BY <2>3, MarkerAssumption DEF Core, TypeOK, HasFile
  <2>5. ASSUME NEW k \in saved', k # st.number PROVE HasFile(dir', k)
    BY <2>1, <2>2, <2>5 DEF Core, TypeOK, SavedRunLoads, HasFile
  <2> QED BY <2>1, <2>2, <2>3, <2>4, <2>5 DEF Core, TypeOK
<1> QED BY <1>1, <1>2

LEMMA PersistActiveWrites ==
  ASSUME Core, up, PersistActive
  PROVE  /\ dir' \in [Numbers -> Rows \cup {None, Bare}]
         /\ saved' \subseteq Numbers /\ pointer' = pointer
         /\ \A k \in saved' : HasFile(dir', k)
<1>1. CASE results = NoRows
  BY <1>1 DEF Core, TypeOK, SavedRunLoads, PersistActive, HasFile
<1>2. CASE results # NoRows
  <2>1. st.number \in Numbers /\ st.number # 0
    BY <1>2 DEF Core, TypeOK, State, Named
  <2>2. /\ dir' = [dir EXCEPT ![st.number] = results]
        /\ saved' = saved \cup {st.number} /\ pointer' \in {pointer, st.number}
        /\ pointer' = pointer
    BY <1>2, <2>1 DEF PersistActive
  <2>3. dir' \in [Numbers -> Rows \cup {None, Bare}] /\ dir'[st.number] = results
    BY <2>1, <2>2 DEF Core, TypeOK
  <2>4. HasFile(dir', st.number)
    BY <2>3, MarkerAssumption DEF Core, TypeOK, HasFile
  <2>5. ASSUME NEW k \in saved', k # st.number PROVE HasFile(dir', k)
    BY <2>1, <2>2, <2>5 DEF Core, TypeOK, SavedRunLoads, HasFile
  <2> QED BY <2>1, <2>2, <2>3, <2>4, <2>5 DEF Core, TypeOK
<1> QED BY <1>1, <1>2

LEMMA CoreStartFresh == ASSUME Core, StartFresh PROVE Core'
<1> USE DEF Core
<1> DEFINE keep == results # NoRows
            kept == IF keep THEN saved \cup {st.number} ELSE saved
            num  == NextNumber(kept)
            d    == IF keep THEN [dir EXCEPT ![st.number] = results] ELSE dir
<1>a. /\ Quiet /\ audits < MaxAudits /\ num \in Numbers /\ (keep => st.number # 0)
      /\ saved' = kept /\ pointer' = num /\ dir' = [d EXCEPT ![num] = Folder(d, num)]
      /\ st' = [Blank EXCEPT !.status = "running", !.number = num, !.pinned = num]
      /\ minted' = [minted EXCEPT ![num] = audits + 1]
      /\ torn' = (torn \/ Leftover(d, num))
      /\ pass' = [NoPass EXCEPT !.kind = "fresh", !.pc = "setup", !.audit = audits + 1]
      /\ results' = NoRows /\ audits' = audits + 1 /\ snap' \in {None, View(st')}
      /\ UNCHANGED <<file, up, crashes>>
  BY DEF StartFresh
<1>b. /\ d \in [Numbers -> Rows \cup {None, Bare}] /\ kept \subseteq Numbers
      /\ keep => st.number \in Numbers /\ d[st.number] = results
      /\ \A k \in kept : HasFile(d, k)
  BY <1>a, MarkerAssumption DEF TypeOK, State, SavedRunLoads, HasFile
<1> HIDE DEF num, d, kept
<1>1. TypeOK'
  <2>1. st' \in State
    BY <1>a, Counts DEF Blank, State, Statuses
  <2>2. audits + 1 \in Audits
    BY <1>a, RegistryAssumption DEF TypeOK, Audits
  <2>3. pass' \in Pass
    BY <1>a, <2>2 DEF NoPass, Pass
  <2>4. dir' \in [Numbers -> Rows \cup {None, Bare}]
    BY <1>a, <1>b DEF Folder
  <2>5. minted' \in [Numbers -> {0} \cup Audits]
    BY <1>a, <2>2 DEF TypeOK
  <2>6. torn' \in BOOLEAN
    BY <1>a DEF TypeOK, Leftover, HasFile
  <2> QED BY <1>a, <1>b, <2>1, <2>2, <2>3, <2>4, <2>5, <2>6, Markers, Snapshots DEF TypeOK
<1>2. SavedRunLoads'
  BY <1>a, <1>b DEF SavedRunLoads, Folder, HasFile
<1>3. (Down /\ Named)'
  <2>1. num # 0 /\ st'.number = num
    BY <1>a, Markers DEF Blank
  <2> QED BY <1>a, <2>1 DEF Quiet, Down, Named
<1> QED BY <1>1, <1>2, <1>3

LEMMA CoreRequests ==
  ASSUME Core, Resume \/ Retest \/ Stop \/ Save \/ Clear PROVE Core'
<1> USE DEF Core
<1>1. CASE Resume
  <2>1. st.number \in Numbers
    BY <1>1 DEF TypeOK, State, Resume, Quiet, Named
  <2>2. TypeOK'
    <3>1. st' \in State
      BY <1>1, <2>1 DEF TypeOK, Resume, State, Statuses
    <3>2. pass' \in Pass
      BY <1>1, <2>1 DEF TypeOK, Resume, NoPass, Pass
    <3>3. dir' \in [Numbers -> Rows \cup {None, Bare}]
      BY <1>1, <2>1 DEF TypeOK, Resume, Folder
    <3> QED BY <1>1, <3>1, <3>2, <3>3, Snapshots DEF TypeOK, Resume, history
  <2>3. SavedRunLoads'
    BY <1>1, <2>1, MarkerAssumption DEF TypeOK, SavedRunLoads, Resume, Folder, HasFile
  <2>4. (Down /\ Named)'
    BY <1>1, <2>1, Markers DEF TypeOK, State, Resume, Quiet, Down, Named
  <2> QED BY <2>2, <2>3, <2>4
<1>2. CASE Retest
  <2>1. st.number \in Numbers
    BY <1>2 DEF TypeOK, State, Retest
  <2>2. TypeOK'
    <3>1. st' \in State
      BY <1>2, <2>1, Counted DEF TypeOK, Retest, State, Statuses
    <3>2. pass' \in Pass
      BY <1>2, Counted DEF TypeOK, Retest, NoPass, Pass
    <3>3. dir' \in [Numbers -> Rows \cup {None, Bare}]
      BY <1>2, <2>1 DEF TypeOK, Retest, Folder
    <3> QED BY <1>2, <3>1, <3>2, <3>3, Snapshots DEF TypeOK, Retest, history
  <2>3. SavedRunLoads'
    BY <1>2, <2>1, MarkerAssumption DEF TypeOK, SavedRunLoads, Retest, Folder, HasFile
  <2>4. (Down /\ Named)'
    BY <1>2, <2>1, Markers DEF TypeOK, State, Retest, Quiet, Down, Named
  <2> QED BY <2>2, <2>3, <2>4
<1>3. CASE Stop
  <2>1. TypeOK'
    BY <1>3 DEF TypeOK, Stop, State, Statuses, Flushed, View, Snapshot, disk, history
  <2>2. (SavedRunLoads /\ Down /\ Named)'
    BY <1>3 DEF TypeOK, State, Stop, SavedRunLoads, HasFile, Down, Named, disk
  <2> QED BY <2>1, <2>2
<1>4. CASE Save
  <2>1. st' = st /\ st.number \in Numbers
    BY <1>4 DEF TypeOK, State, Save, Named
  <2>2. TypeOK'
    BY <1>4, <2>1, SaveCurrentWrites DEF TypeOK, Save, State, Broadcast, View, Snapshot, history
  <2>3. (SavedRunLoads /\ Down /\ Named)'
    BY <1>4, <2>1, SaveCurrentWrites DEF Save, SavedRunLoads, Down, Named
  <2> QED BY <2>2, <2>3
<1>5. CASE Clear
  <2>1. TypeOK'
    <3>1. st' \in State
      BY <1>5, Counts DEF TypeOK, Clear, State, Statuses
    <3> QED BY <1>5, <3>1, Markers, SaveResultsWrites, Snapshots DEF TypeOK, Clear, history
  <2>2. (SavedRunLoads /\ Down /\ Named)'
    BY <1>5, Markers, SaveResultsWrites
       DEF TypeOK, State, Clear, Quiet, SavedRunLoads, Down, Named, SaveResults
  <2> QED BY <2>1, <2>2
<1> QED BY <1>1, <1>2, <1>3, <1>4, <1>5

LEMMA CoreLoad == ASSUME Core, Load PROVE Core'
<1> USE DEF Core
<1>1. PICK k \in Numbers : HasFile(dir, k) /\ results' = dir[k] /\ SaveResults(dir[k])
                           /\ st' = Loaded(k, dir[k], st.pinned)
  BY DEF Load
<1>2. dir[k] \in Rows /\ k # 0
  BY <1>1, Markers DEF TypeOK, HasFile
<1>3. st' \in State
  BY <1>1, <1>2, Counted DEF TypeOK, Loaded, State, Statuses
<1>4. snap' = snap \/ snap' = View(st')
  BY DEF Load, Flushed, Broadcast
<1>5. View(st') \in Snapshot
  BY <1>3 DEF State, View, Snapshot
<1>6. TypeOK'
  BY <1>1, <1>2, <1>3, <1>4, <1>5, SaveResultsWrites DEF TypeOK, Load, history
<1>7. (SavedRunLoads /\ Down /\ Named)'
  BY <1>1, <1>2, SaveResultsWrites DEF TypeOK, Load, Loaded, SavedRunLoads, Down, Named
<1> QED BY <1>6, <1>7

LEMMA CoreDelete == ASSUME Core, Delete PROVE Core'
<1> USE DEF Core
<1>1. PICK k \in Numbers :
        /\ k \in saved \/ k = st.number
        /\ k = st.number => ~PipelineBusy /\ pass = NoPass
        /\ LET d == [dir EXCEPT ![k] = None]
               S == Unlisted(saved, k)
               p == IF pointer = k THEN 0 ELSE pointer
               l == LatestRun(d, S, p)
           IN /\ dir' = d /\ saved' = S /\ pointer' = p
              /\ IF k # st.number
                 THEN UNCHANGED <<results, file, st, snap>>
                 ELSE /\ results' = IF l = 0 THEN NoRows ELSE d[l]
                      /\ file' = results'
                      /\ st' = IF l = 0 THEN Blank ELSE Loaded(l, d[l], 0)
                      /\ Flushed
  BY DEF Delete
<1>2. /\ \A j \in Numbers : dir'[j] = IF j = k THEN None ELSE dir[j]
      /\ saved' = saved \ {k} /\ pointer' \in {0} \cup Numbers
  BY <1>1 DEF TypeOK, Unlisted
<1>3. dir' \in [Numbers -> Rows \cup {None, Bare}]
  BY <1>1 DEF TypeOK
<1>4. SavedRunLoads'
  BY <1>2 DEF TypeOK, SavedRunLoads, HasFile
<1>5. CASE k # st.number
  <2>1. TypeOK'
    BY <1>1, <1>2, <1>3, <1>5 DEF TypeOK, Delete, history
  <2>2. (Down /\ Named)'
    BY <1>1, <1>5 DEF Delete, Down, Named
  <2> QED BY <1>4, <2>1, <2>2
<1>6. CASE k = st.number
  <2> DEFINE l == LatestRun(dir', saved', pointer')
  <2>1. l \in {0} \cup Numbers /\ (l # 0 => HasFile(dir', l))
    BY <1>2, LatestHasFile DEF TypeOK
  <2>2. /\ results' = (IF l = 0 THEN NoRows ELSE dir'[l]) /\ file' = results'
        /\ st' = (IF l = 0 THEN Blank ELSE Loaded(l, dir'[l], 0))
        /\ snap' = View(st')
    BY <1>1, <1>6 DEF Flushed
  <2> HIDE DEF l
  <2>3. results' \in Rows
    BY <1>3, <2>1, <2>2, Markers DEF HasFile
  <2>4. st' \in State
    BY <2>1, <2>2, <2>3, Counted, FS_CardinalityType, RegistryAssumption
       DEF State, Statuses, Blank, Loaded
  <2>5. View(st') \in Snapshot
    BY <2>4 DEF State, View, Snapshot
  <2>6. TypeOK'
    BY <1>2, <1>3, <2>2, <2>3, <2>4, <2>5 DEF TypeOK, Delete, history
  <2>7. (Down /\ Named)'
    BY <1>1, <1>6, <2>1, <2>2, Markers DEF Delete, Down, Named, Loaded
  <2> QED BY <1>4, <2>6, <2>7
<1> QED BY <1>5, <1>6

\* Several steps only turn the status of the displayed run.
LEMMA CoreStatus ==
  ASSUME Core, up, NEW s \in Statuses, st' = [st EXCEPT !.status = s], Broadcast,
         pass' = pass \/ pass' = NoPass, UNCHANGED <<results, disk, up, history>>
  PROVE  Core'
<1> USE DEF Core
<1>1. st' \in State /\ pass' \in Pass
  BY DEF TypeOK, State, NoPass, Pass
<1>2. TypeOK'
  BY <1>1, Snapshots DEF TypeOK, disk, history
<1>3. (SavedRunLoads /\ Down /\ Named)'
  BY DEF TypeOK, State, SavedRunLoads, HasFile, Down, Named, disk
<1> QED BY <1>2, <1>3

LEMMA CorePass ==
  ASSUME Core,
         PassWipes \/ PassScans \/ Record \/ Park \/ Unpark \/ PassEnds \/ PassFails
  PROVE  Core'
<1> USE DEF Core
<1>1. CASE PassWipes
  <2>1. st' \in State /\ pass' \in Pass /\ pass' # NoPass
    BY <1>1, Counts DEF TypeOK, PassWipes, State, NoPass, Pass
  <2>2. TypeOK'
    BY <1>1, <2>1, Markers, SaveResultsWrites, Snapshots DEF TypeOK, PassWipes, history
  <2>3. st'.number = st.number /\ st.number # 0
    BY <1>1 DEF TypeOK, State, PassWipes, Named, NoPass
  <2>4. (SavedRunLoads /\ Down /\ Named)'
    BY <1>1, <2>3, Markers, SaveResultsWrites DEF TypeOK, PassWipes, SavedRunLoads, Down, Named
  <2> QED BY <2>2, <2>4
<1>2. CASE PassScans
  <2>1. PICK online \in SUBSET Nodes :
          LET todo == Remaining(online)
              base == IF pass.kind = "resume" THEN Cardinality(Tested(results)) ELSE 0
          IN /\ pass' = [pass EXCEPT !.pc = "sweep", !.todo = todo]
             /\ st' = [st EXCEPT !.total = base + Cardinality(todo)]
    BY <1>2 DEF PassScans
  <2> DEFINE todo == Remaining(online)
             base == IF pass.kind = "resume" THEN Cardinality(Tested(results)) ELSE 0
  <2>2. todo \in SUBSET Nodes
    BY DEF Remaining
  <2>3. base + Cardinality(todo) \in 0..Cardinality(Nodes)
    <3>1. CASE pass.kind = "resume"
      <4>1. todo \cap Tested(results) = {}
        BY <3>1 DEF Remaining
      <4> HIDE DEF todo
      <4> QED BY <2>2, <3>1, <4>1, SumFits DEF TypeOK
    <3>2. CASE pass.kind # "resume"
      <4>1. Cardinality(todo) \in 0..Cardinality(Nodes)
        <5> HIDE DEF todo
        <5> QED BY <2>2, FS_Subset, FS_CardinalityType, RegistryAssumption
      <4> HIDE DEF todo
      <4> QED BY <3>2, <4>1
    <3> QED BY <3>1, <3>2
  <2> HIDE DEF todo, base
  <2>4. pass' = [pass EXCEPT !.pc = "sweep", !.todo = todo]
        /\ st' = [st EXCEPT !.total = base + Cardinality(todo)]
    BY <2>1 DEF todo, base
  <2>5. pass' \in Pass /\ st' \in State
    BY <2>2, <2>3, <2>4 DEF TypeOK, Pass, State
  <2>6. TypeOK'
    BY <1>2, <2>5, Snapshots DEF TypeOK, PassScans, disk, history
  <2>7. st'.number = st.number /\ st.number # 0
    <3>1. st.number # 0
      <4>1. up /\ pass.pc = "scan"
        BY <1>2 DEF PassScans
      <4> QED BY <4>1 DEF Named, NoPass
    <3> QED BY <2>4, <3>1 DEF TypeOK, State
  <2>8. (SavedRunLoads /\ Down /\ Named)'
    BY <1>2, <2>7 DEF PassScans, SavedRunLoads, HasFile, Down, Named, disk
  <2> QED BY <2>6, <2>8
<1>3. CASE Record
  <2>1. PICK n \in pass.todo :
          LET a == IF results[n] # 0 THEN results[n] ELSE pass.audit
              r == [results EXCEPT ![n] = a]
          IN /\ a # 0 /\ results' = r /\ SaveResults(r)
             /\ pass' = [pass EXCEPT !.todo = @ \ {n}]
    BY <1>3 DEF Record
  <2>2. n \in Nodes /\ pass' \in Pass
    BY <2>1 DEF TypeOK, Pass
  <2>3. results' \in Rows /\ SaveResults(results')
    BY <2>1, <2>2 DEF TypeOK, Pass, Rows
  <2>4. st' = st /\ st.number # 0
    BY <1>3 DEF Record, Named, NoPass
  <2>5. TypeOK'
    BY <1>3, <2>2, <2>3, <2>4, SaveResultsWrites, Snapshots DEF TypeOK, Record, history
  <2>6. (SavedRunLoads /\ Down /\ Named)'
    <3>1. up /\ up' /\ saved' = saved
      BY <1>3 DEF Record
    <3>2. \A k \in Numbers : HasFile(dir, k) => HasFile(dir', k)
      BY <2>3, SaveResultsWrites
    <3> QED BY <2>4, <3>1, <3>2 DEF TypeOK, SavedRunLoads, Down, Named
  <2> QED BY <2>5, <2>6
<1>4. CASE Park
  BY <1>4, CoreStatus DEF Park, Statuses
<1>5. CASE Unpark
  BY <1>5, CoreStatus DEF Unpark, Statuses
<1>6. CASE PassFails
  BY <1>6, CoreStatus DEF PassFails, Statuses
<1>7. CASE PassEnds
  <2>1. st' \in State /\ pass' \in Pass /\ st'.number = st.number
    BY <1>7 DEF TypeOK, State, Statuses, PassEnds, NoPass, Pass
  <2>2. /\ dir' \in [Numbers -> Rows \cup {None, Bare}] /\ saved' \subseteq Numbers
        /\ pointer' \in {0} \cup Numbers /\ SavedRunLoads'
    BY <1>7, SaveCurrentWrites, PersistActiveWrites DEF TypeOK, PassEnds, SavedRunLoads
  <2>3. TypeOK'
    BY <1>7, <2>1, <2>2, Snapshots DEF TypeOK, PassEnds, history
  <2>4. (Down /\ Named)'
    BY <1>7, <2>1 DEF PassEnds, Down, Named
  <2> QED BY <2>2, <2>3, <2>4
<1> QED BY <1>1, <1>2, <1>3, <1>4, <1>5, <1>6, <1>7

LEMMA CoreCrash == ASSUME Core, Crash PROVE Core'
<1> USE DEF Core
<1>1. Blank \in State /\ NoPass \in Pass
  BY Counts DEF Blank, State, Statuses, NoPass, Pass
<1>2. crashes' \in 0..MaxCrashes
  BY RegistryAssumption DEF TypeOK, Crash
<1>3. torn' \in BOOLEAN
  BY DEF TypeOK, Crash, Behind, HasFile
<1>4. TypeOK'
  BY <1>1, <1>2, <1>3, Markers DEF TypeOK, Crash, disk
<1>5. (SavedRunLoads /\ Down /\ Named)'
  BY DEF TypeOK, Crash, SavedRunLoads, HasFile, Down, Named, disk
<1> QED BY <1>4, <1>5

\* The author of rows is an audit that produced one of them.
LEMMA AuthorIs ==
  ASSUME NEW r \in Rows, r # NoRows
  PROVE  Author(r) \in Audits /\ \E n \in Nodes : r[n] = Author(r)
<1>1. PICK n \in Nodes : r[n] # 0
  BY DEF Rows, NoRows
<1>2. r[n] \in Audits
  BY <1>1 DEF Rows
<1> QED BY <1>2 DEF Author

\* What a boot with rows on disk does: k is the number a first boot saves them
\* under, mine the number they are displayed under.
Boots(num, k, S, d, same, mine) ==
  /\ num = (IF snap = None THEN 0 ELSE snap.number)
  /\ k = (IF num # 0 THEN num ELSE NextNumber(saved))
  /\ saved' = S /\ dir' = d /\ k \in Numbers /\ mine \in Numbers
  /\ S = (IF saved = {} THEN {k} ELSE saved)
  /\ d = (IF saved = {} THEN [dir EXCEPT ![k] = file] ELSE dir)
  /\ S \subseteq Numbers /\ d \in [Numbers -> Rows \cup {None, Bare}]
  /\ pointer' = (IF saved = {} THEN k ELSE pointer)
  /\ same \in BOOLEAN
  /\ num # 0 => mine = num
  /\ num = 0 /\ same => HasFile(d, mine) /\ d[mine] = file
  /\ num = 0 /\ ~same => mine = NextNumber(S) /\ mine \notin S
  /\ st' = [Blank EXCEPT !.number = mine, !.readonly = snap # None /\ snap.readonly,
                         !.total = IF snap = None THEN 0 ELSE snap.total]
  /\ IF num = 0 /\ ~same THEN Flushed ELSE UNCHANGED snap
  /\ minted' = [j \in Numbers |->
                  IF num = 0 /\ ((saved = {} /\ j = k) \/ (~same /\ j = mine))
                  THEN Author(file) ELSE minted[j]]
  /\ torn' = (torn \/ (num = 0 /\ ~same /\ Leftover(d, mine)))
  /\ ~up /\ file # NoRows /\ results' = file /\ up'
  /\ UNCHANGED <<file, pass, audits, crashes>>

LEMMA BootTakes ==
  ASSUME Core, BootWithRows
  PROVE  \E num, k, S, d, same, mine : Boots(num, k, S, d, same, mine)
<1> USE DEF Core
<1> DEFINE num   == IF snap = None THEN 0 ELSE snap.number
           first == saved = {}
           k     == IF num # 0 THEN num ELSE NextNumber(saved)
           S     == IF first THEN {k} ELSE saved
           d     == IF first THEN [dir EXCEPT ![k] = file] ELSE dir
           cand  == IF pointer # 0 THEN pointer ELSE NextNumber(saved) - 1
           same  == cand # 0 /\ HasFile(d, cand) /\ d[cand] = file
           mine  == BootNumber(num, cand, same, S)
<1>1. /\ k \in Numbers /\ mine \in {0} \cup Numbers
      /\ saved' = S /\ dir' = d /\ pointer' = (IF first THEN k ELSE pointer)
      /\ st' = [Blank EXCEPT !.number = mine, !.readonly = snap # None /\ snap.readonly,
                             !.total = IF snap = None THEN 0 ELSE snap.total]
      /\ IF num = 0 /\ ~same THEN Flushed ELSE UNCHANGED snap
      /\ minted' = [j \in Numbers |->
                      IF num = 0 /\ ((first /\ j = k) \/ (~same /\ j = mine))
                      THEN Author(file) ELSE minted[j]]
      /\ torn' = (torn \/ (num = 0 /\ ~same /\ Leftover(d, mine)))
  BY DEF BootWithRows
<1>2. S \subseteq Numbers /\ d \in [Numbers -> Rows \cup {None, Bare}]
  BY <1>1 DEF TypeOK
<1>3. same \in BOOLEAN
  BY DEF HasFile
<1>4. /\ num # 0 => mine = num
      /\ num = 0 /\ same => mine = cand /\ cand # 0 /\ HasFile(d, cand) /\ d[cand] = file
      /\ num = 0 /\ ~same => mine = NextNumber(S)
  BY DEF BootNumber
<1> HIDE DEF S, d, mine, k, num, cand
<1>5. num = 0 /\ ~same => mine # 0 /\ mine \notin S
  BY <1>2, <1>4, NextIsNew
<1>6. mine \in Numbers
  BY <1>1, <1>4, <1>5
<1>7. Boots(num, k, S, d, same, mine)
  BY <1>1, <1>2, <1>3, <1>4, <1>5, <1>6 DEF BootWithRows, Boots, num, k, S, d
<1> QED BY <1>7

LEMMA CoreBoots == ASSUME Core, BootWithRows \/ BootEmpty PROVE Core'
<1> USE DEF Core
<1>1. CASE BootWithRows
  <2>1. PICK num, k, S, d, same, mine : Boots(num, k, S, d, same, mine)
    BY <1>1, BootTakes
  <2>2. st' \in State
    BY <2>1, Counts DEF Boots, TypeOK, Blank, State, Statuses, Snapshot
  <2>3. minted' \in [Numbers -> {0} \cup Audits]
    BY <2>1, AuthorIs DEF Boots, TypeOK
  <2>4. torn' \in BOOLEAN
    BY <2>1 DEF Boots, TypeOK, Leftover, HasFile
  <2>5. snap' = None \/ snap' \in Snapshot
    BY <2>1, <2>2, Snapshots DEF Boots, TypeOK
  <2>6. TypeOK'
    BY <2>1, <2>2, <2>3, <2>4, <2>5 DEF Boots, TypeOK
  <2>7. SavedRunLoads'
    BY <2>1, MarkerAssumption DEF Boots, TypeOK, SavedRunLoads, HasFile
  <2>8. (Down /\ Named)'
    BY <2>1, Markers DEF Boots, Down, Named, Blank
  <2> QED BY <2>6, <2>7, <2>8
<1>2. CASE BootEmpty
  <2> DEFINE l == LatestRun(dir, saved, pointer)
  <2>1. l \in {0} \cup Numbers /\ (l # 0 => HasFile(dir, l) /\ dir[l] \in Rows)
    BY LatestHasFile DEF TypeOK, HasFile
  <2>2. /\ IF l = 0 THEN UNCHANGED <<results, file, st, snap>>
           ELSE /\ results' = dir[l] /\ file' = dir[l]
                /\ st' = Loaded(l, dir[l], 0) /\ Flushed
        /\ ~up /\ file = NoRows /\ up' /\ UNCHANGED <<dir, saved, pointer, pass, history>>
    BY <1>2 DEF BootEmpty
  <2> HIDE DEF l
  <2>3. CASE l = 0
    BY <2>2, <2>3 DEF TypeOK, SavedRunLoads, HasFile, Down, Named, history
  <2>4. CASE l # 0
    <3>1. st' \in State
      BY <2>1, <2>2, <2>4, LoadedState
    <3>2. TypeOK'
      BY <2>1, <2>2, <2>4, <3>1, Snapshots DEF TypeOK, history
    <3>3. (SavedRunLoads /\ Down /\ Named)'
      BY <2>1, <2>2, <2>4 DEF SavedRunLoads, HasFile, Down, Named, Loaded
    <3> QED BY <3>2, <3>3
  <2> QED BY <2>3, <2>4
<1> QED BY <1>1, <1>2

LEMMA CoreStep == ASSUME Core, [Next]_vars PROVE Core'
<1>1. CASE Next
  BY <1>1, CoreStartFresh, CoreRequests, CoreLoad, CoreDelete, CorePass, CoreCrash, CoreBoots
     DEF Next
<1>2. CASE UNCHANGED vars
  BY <1>2 DEF vars, disk, history, Core, TypeOK, SavedRunLoads, HasFile, Down, Named
<1> QED BY <1>1, <1>2

\* Every run the dropdown offers can be loaded, whatever was started, stopped,
\* resumed, retested, cleared, loaded, deleted or killed, and whenever.
THEOREM SavedRunsLoad == Spec => []SavedRunLoads
<1>1. Spec => []Core
  BY CoreInit, CoreStep, PTL DEF Spec
<1>2. Core => SavedRunLoads
  BY DEF Core
<1> QED BY <1>1, <1>2, PTL

-----------------------------------------------------------------------------
(* Kept and Owned: with loads only where no directory is pinned.           *)

RowsSurvive ==
  \A k \in saved \cap saved' :
    \/ HasFile(dir', k) /\ \A n \in Tested(dir[k]) : dir'[k][n] = dir[k][n]
    \/ k = st.number /\ pass = NoPass /\ results' = NoRows

\* What every step does.
Good ==
  /\ Kept' /\ RowsSurvive
  /\ ~torn' => ~torn
  /\ Owned /\ ~torn' => Owned'

\* What is known when a step begins.
Ready == Core /\ Core' /\ Kept /\ Careful

LEMMA InitKept == Init => Kept /\ Owned
BY DEF Init, Kept, Pinned, Snapped, Unsaved, Filed, Grown, Owned, OwnedBy, Blank, NoPass, NoRows,
       HasFile

\* A step that leaves the displayed run's number keeps the snapshot right.
LEMMA SnapshotKept ==
  ASSUME Ready, up, up', st'.number = st.number, Broadcast \/ Flushed
  PROVE  Snapped'
<1>1. snap' = snap \/ (snap' = View(st') /\ snap'.number = st'.number)
  BY DEF Broadcast, Flushed, View
<1> QED BY <1>1 DEF Ready, Core, Kept, Named, Snapped

LEMMA SnapshotTaken ==
  ASSUME Ready, up', snap' \in {None, View(st')}
  PROVE  Snapped'
<1>1. snap' = None \/ snap'.number = st'.number
  BY DEF View
<1> QED BY <1>1 DEF Ready, Core, Named, Snapped

\* A step that writes only the displayed run's directory, and adds to it.
LEMMA OneDirectory ==
  ASSUME Ready,
         \A k \in Numbers \ {st.number} : dir'[k] = dir[k],
         st.number \in saved \cap saved' =>
           \/ dir'[st.number] = dir[st.number]
           \/ Extends(dir'[st.number], dir[st.number])
           \/ pass = NoPass /\ results' = NoRows
  PROVE  RowsSurvive
<1> SUFFICES ASSUME NEW k \in saved, k \in saved'
             PROVE  \/ HasFile(dir', k) /\ \A n \in Tested(dir[k]) : dir'[k][n] = dir[k][n]
                    \/ k = st.number /\ pass = NoPass /\ results' = NoRows
  BY DEF RowsSurvive
<1>1. k \in Numbers /\ HasFile(dir', k)
  BY DEF Ready, Core, TypeOK, SavedRunLoads
<1> QED BY <1>1 DEF Extends

\* Steps that leave rows, files and directories as they are.
LEMMA Steady ==
  ASSUME Ready, up, up', st'.number = st.number, st'.pinned = st.pinned,
         UNCHANGED <<results, file, dir, saved, minted, torn>>, Broadcast \/ Flushed,
         \/ pass' = pass \/ pass' = NoPass
         \/ pass # NoPass /\ pass'.pc # "setup" /\ pass'.kind = pass.kind
            /\ pass'.audit = pass.audit
  PROVE  Good
<1>1. Pinned' /\ Unsaved' /\ Filed' /\ Grown'
  BY DEF Ready, Kept, Pinned, Unsaved, Filed, Grown, Extends, NoPass
<1>2. RowsSurvive
  BY OneDirectory
<1>3. Owned => Owned'
  BY DEF Owned, OwnedBy, HasFile, NoPass
<1> QED BY <1>1, <1>2, <1>3, SnapshotKept DEF Good, Kept

\* saveResults under the pinned directory.
LEMMA SaveResultsIs ==
  ASSUME Ready, NEW r \in Rows, SaveResults(r)
  PROVE  /\ file' = r
         /\ \A k \in Numbers :
              dir'[k] = IF k = st.pinned /\ dir[k] # None THEN r ELSE dir[k]
         /\ \A k \in Numbers \ {st.number} : dir'[k] = dir[k]
BY Markers DEF Ready, Core, TypeOK, State, Kept, Pinned, SaveResults

\* A save, by whichever function.
Stored ==
  /\ results = NoRows => UNCHANGED <<dir, saved>>
  /\ results # NoRows =>
       /\ st.number \in Numbers /\ saved' = saved \cup {st.number}
       /\ dir'[st.number] = results /\ \A k \in Numbers \ {st.number} : dir'[k] = dir[k]

LEMMA SaveIsStored ==
  ASSUME Ready, up, SaveCurrent \/ PersistActive
  PROVE  Stored
<1>1. CASE results = NoRows
  BY <1>1 DEF SaveCurrent, PersistActive, Stored
<1>2. CASE results # NoRows
  <2>1. st.number \in Numbers /\ st.number # 0
    BY <1>2, Markers DEF Ready, Core, TypeOK, State, Named
  <2>2. saved' = saved \cup {st.number} /\ dir' = [dir EXCEPT ![st.number] = results]
    BY <1>2, <2>1 DEF SaveCurrent, PersistActive
  <2> QED BY <1>2, <2>1, <2>2 DEF Stored, Ready, Core, TypeOK
<1> QED BY <1>1, <1>2

LEMMA StoredIsGood ==
  ASSUME Ready, up, up', Stored, st'.number = st.number, st'.pinned = st.pinned, Broadcast,
         UNCHANGED <<results, file, minted, torn>>, pass' = pass \/ pass' = NoPass
  PROVE  Good
<1>1. Filed' /\ Unsaved' /\ Pinned'
  BY Markers, MarkerAssumption
     DEF Ready, Core, TypeOK, Kept, Filed, Unsaved, Pinned, Stored, NoPass
<1>2. Grown'
  BY DEF Ready, Kept, Grown, Stored, Extends
<1>3. RowsSurvive
  BY OneDirectory DEF Ready, Kept, Grown, Stored
<1>4. Owned => Owned'
  BY Markers DEF Owned, OwnedBy, Stored, HasFile, NoPass
<1> QED BY <1>1, <1>2, <1>3, <1>4, SnapshotKept DEF Good, Kept

LEMMA GoodStartFresh == ASSUME Ready, StartFresh PROVE Good
<1> DEFINE keep == results # NoRows
           kept == IF keep THEN saved \cup {st.number} ELSE saved
           num  == NextNumber(kept)
           d    == IF keep THEN [dir EXCEPT ![st.number] = results] ELSE dir
<1>1. /\ Quiet /\ num \in Numbers /\ (keep => st.number # 0)
      /\ saved' = kept /\ dir' = [d EXCEPT ![num] = Folder(d, num)]
      /\ st' = [Blank EXCEPT !.status = "running", !.number = num, !.pinned = num]
      /\ minted' = [minted EXCEPT ![num] = audits + 1]
      /\ torn' = (torn \/ Leftover(d, num))
      /\ pass' = [NoPass EXCEPT !.kind = "fresh", !.pc = "setup", !.audit = audits + 1]
      /\ results' = NoRows /\ snap' \in {None, View(st')}
      /\ UNCHANGED <<file, up>>
  BY DEF StartFresh
<1>2. /\ d \in [Numbers -> Rows \cup {None, Bare}] /\ kept \subseteq Numbers
      /\ \A k \in Numbers : d[k] = IF keep /\ k = st.number THEN results ELSE dir[k]
      /\ keep => st.number \in Numbers
      /\ saved \subseteq kept
  BY <1>1 DEF Ready, Core, TypeOK, State
<1>3. num \notin kept
  BY <1>2, NextIsNew
<1>4. keep => st.number \in kept
  OBVIOUS
<1> HIDE DEF num, d, kept
<1>5. /\ st'.number = num /\ st'.pinned = num /\ num # 0
      /\ pass'.kind = "fresh" /\ pass'.audit = audits + 1 /\ pass'.pc = "setup"
  BY <1>1, Markers DEF Blank, NoPass
<1>6. /\ \A k \in Numbers \ {num} : dir'[k] = d[k]
      /\ dir'[num] = Folder(d, num)
  BY <1>1, <1>2
<1>7. Snapped'
  BY <1>1, SnapshotTaken DEF Quiet
<1>8. Pinned'
  BY <1>5, <1>6, MarkerAssumption, RegistryAssumption DEF Pinned, Folder
<1>9. (Unsaved /\ Filed /\ Grown)'
  BY <1>1, <1>3, <1>5 DEF Unsaved, Filed, Grown, Quiet
<1>10. RowsSurvive
  <2> SUFFICES ASSUME NEW k \in saved
               PROVE  HasFile(dir', k) /\ \A n \in Tested(dir[k]) : dir'[k][n] = dir[k][n]
    BY DEF RowsSurvive
  <2>1. k \in Numbers \ {num} /\ dir'[k] = d[k] /\ HasFile(dir, k)
    BY <1>2, <1>3, <1>6 DEF Ready, Core, SavedRunLoads
  <2>2. CASE keep /\ k = st.number
    BY <1>1, <1>2, <2>1, <2>2, MarkerAssumption
       DEF Ready, Core, TypeOK, Kept, Grown, Extends, Quiet, HasFile
  <2>3. CASE ~(keep /\ k = st.number)
    BY <1>2, <2>1, <2>3 DEF HasFile
  <2> QED BY <2>2, <2>3
<1>11. ASSUME Owned, ~torn' PROVE Owned'
  <2>1. ~HasFile(d, num) \/ d[num] = NoRows
    BY <1>1, <1>11 DEF Leftover
  <2>2. minted'[num] = audits + 1 /\ \A k \in Numbers \ {num} : minted'[k] = minted[k]
    BY <1>1 DEF Ready, Core, TypeOK
  <2>3. ASSUME NEW k \in Numbers, HasFile(dir', k) PROVE OwnedBy(dir'[k], minted'[k])
    <3>1. CASE k = num
      BY <1>6, <2>1, <2>3, <3>1, MarkerAssumption DEF Folder, HasFile, OwnedBy, NoRows
    <3>2. CASE k # num /\ keep /\ k = st.number
      BY <1>1, <1>2, <1>6, <1>11, <2>2, <3>2 DEF Owned, Quiet
    <3>3. CASE k # num /\ ~(keep /\ k = st.number)
      BY <1>2, <1>6, <1>11, <2>2, <2>3, <3>3 DEF Owned, HasFile
    <3> QED BY <3>1, <3>2, <3>3
  <2>4. OwnedBy(results', minted'[st'.number])
    BY <1>1 DEF OwnedBy, NoRows
  <2> QED BY <1>1, <1>5, <2>2, <2>3, <2>4 DEF Owned, Quiet
<1>12. ~torn' => ~torn
  BY <1>1 DEF Ready, Core, TypeOK
<1> QED BY <1>7, <1>8, <1>9, <1>10, <1>11, <1>12 DEF Good, Kept

LEMMA GoodRequests ==
  ASSUME Ready, Resume \/ Retest \/ Stop \/ Save \/ Clear PROVE Good
<1>1. CASE Resume \/ Retest
  <2>1. st.number \in Numbers /\ st.number # 0 /\ up
    BY <1>1, Markers DEF Ready, Core, TypeOK, State, Named, Resume, Retest, Quiet
  <2>2. /\ st'.number = st.number /\ st'.pinned = st.number /\ pass = NoPass
        /\ pass'.pc \in {"scan", "sweep"}
        /\ \/ pass'.kind = "resume" /\ pass'.audit = minted[st.number]
           \/ pass'.kind = "retest" /\ pass'.audit = 0
        /\ results # NoRows
        /\ \A k \in Numbers : dir'[k] = IF k = st.number THEN Folder(dir, k) ELSE dir[k]
        /\ Broadcast /\ UNCHANGED <<results, file, saved, up, minted, torn>>
    <3>1. CASE Resume
      BY <2>1, <3>1 DEF Ready, Core, TypeOK, State, Resume, Quiet, NoPass, history
    <3>2. CASE Retest
      <4>1. st'.number = st.number /\ st'.pinned = st.number
        BY <2>1, <3>2 DEF Ready, Core, TypeOK, State, Retest
      <4>2. pass = NoPass /\ pass'.pc = "sweep" /\ pass'.kind = "retest" /\ pass'.audit = 0
        BY <3>2 DEF Retest, Quiet, NoPass
      <4>3. dir' = [dir EXCEPT ![st.number] = Folder(dir, st.number)]
            /\ Broadcast /\ UNCHANGED <<results, file, saved, up, minted, torn>>
        BY <3>2 DEF Retest, history
      <4>4. results # NoRows
        <5>1. Tested(results) # {}
          BY <3>2 DEF Retest
        <5> QED BY <5>1, Counted DEF Ready, Core, TypeOK
      <4> QED BY <4>1, <4>2, <4>3, <4>4 DEF Ready, Core, TypeOK
    <3> QED BY <1>1, <3>1, <3>2
  <2>3. (Pinned /\ Unsaved /\ Filed)'
    BY <2>1, <2>2, RegistryAssumption
       DEF Ready, Kept, Pinned, Unsaved, Filed, Folder
  <2>4. Grown' /\ RowsSurvive
    <3>1. st.number \in saved => dir'[st.number] = dir[st.number]
      BY <2>1, <2>2 DEF Ready, Core, SavedRunLoads, HasFile, Folder
    <3>2. Grown'
      BY <2>1, <2>2, <3>1 DEF Ready, Kept, Grown, Extends
    <3> QED BY <2>1, <2>2, <3>1, <3>2, OneDirectory
  <2>5. Owned => Owned'
    BY <2>1, <2>2, RegistryAssumption DEF Owned, OwnedBy, HasFile, Folder
  <2> QED BY <2>1, <2>2, <2>3, <2>4, <2>5, SnapshotKept DEF Good, Kept
<1>2. CASE Stop
  BY <1>2, Steady DEF Ready, Core, TypeOK, State, Stop, disk, history
<1>3. CASE Save
  <2>1. st' = st
    BY <1>3 DEF Ready, Core, Named, Save
  <2> QED BY <1>3, <2>1, SaveIsStored, StoredIsGood DEF Save, history
<1>4. CASE Clear
  <2>1. /\ file' = NoRows /\ results' = NoRows
        /\ \A k \in Numbers :
             dir'[k] = IF k = st.pinned /\ dir[k] # None THEN NoRows ELSE dir[k]
        /\ \A k \in Numbers \ {st.number} : dir'[k] = dir[k]
    BY <1>4, Markers, SaveResultsIs DEF Clear
  <2>2. /\ up /\ up' /\ pass = NoPass /\ pass' = NoPass /\ Broadcast
        /\ st'.number = st.number /\ st'.pinned = st.pinned
        /\ UNCHANGED <<saved, minted, torn>>
    BY <1>4 DEF Ready, Core, TypeOK, State, Clear, Quiet, history
  <2>3. (Pinned /\ Unsaved /\ Filed /\ Grown)'
    BY <2>1, <2>2 DEF Ready, Kept, Pinned, Unsaved, Filed, Grown, NoPass
  <2>4. RowsSurvive
    BY <2>1, <2>2, OneDirectory
  <2>5. Owned => Owned'
    BY <2>1, <2>2 DEF Owned, OwnedBy, HasFile, NoPass, NoRows
  <2> QED BY <2>2, <2>3, <2>4, <2>5, SnapshotKept DEF Good, Kept
<1> QED BY <1>1, <1>2, <1>3, <1>4

LEMMA GoodLoad == ASSUME Ready, Load PROVE Good
<1>1. PICK k \in Numbers : HasFile(dir, k) /\ results' = dir[k] /\ SaveResults(dir[k])
                           /\ st' = Loaded(k, dir[k], st.pinned)
  BY DEF Load
<1>2. /\ up /\ up' /\ pass = NoPass /\ pass' = NoPass /\ st.pinned = 0 /\ Flushed
      /\ UNCHANGED <<saved, minted, torn>>
  BY DEF Load, Ready, history
<1>3. dir[k] \in Rows /\ k # 0
  BY <1>1, Markers DEF Ready, Core, TypeOK, HasFile
<1>4. file' = dir[k] /\ dir' = dir
  BY <1>1, <1>2 DEF SaveResults
<1>5. st'.number = k /\ st'.pinned = 0
  BY <1>1, <1>2 DEF Loaded
<1>6. (Pinned /\ Unsaved /\ Filed /\ Grown)'
  BY <1>1, <1>2, <1>4, <1>5 DEF Pinned, Unsaved, Filed, Grown, Extends, NoPass
<1>7. RowsSurvive
  BY <1>4, OneDirectory
<1>8. Owned => Owned'
  BY <1>1, <1>2, <1>4, <1>5 DEF Owned, HasFile, NoPass
<1> QED BY <1>2, <1>6, <1>7, <1>8, SnapshotTaken DEF Good, Kept, Flushed

LEMMA GoodDelete == ASSUME Ready, Delete PROVE Good
<1>1. PICK k \in Numbers :
        /\ k \in saved \/ k = st.number
        /\ k = st.number => ~PipelineBusy /\ pass = NoPass
        /\ LET d == [dir EXCEPT ![k] = None]
               S == Unlisted(saved, k)
               p == IF pointer = k THEN 0 ELSE pointer
               l == LatestRun(d, S, p)
           IN /\ dir' = d /\ saved' = S /\ pointer' = p
              /\ IF k # st.number
                 THEN UNCHANGED <<results, file, st, snap>>
                 ELSE /\ results' = IF l = 0 THEN NoRows ELSE d[l]
                      /\ file' = results'
                      /\ st' = IF l = 0 THEN Blank ELSE Loaded(l, d[l], 0)
                      /\ Flushed
  BY DEF Delete
<1>2. /\ \A j \in Numbers : dir'[j] = IF j = k THEN None ELSE dir[j]
      /\ saved' = saved \ {k} /\ pointer' \in {0} \cup Numbers
      /\ up /\ up' /\ UNCHANGED <<pass, minted, torn>>
  BY <1>1 DEF Ready, Core, TypeOK, Unlisted, Delete, history
<1>3. RowsSurvive
  BY <1>2 DEF Ready, Core, TypeOK, SavedRunLoads, RowsSurvive, HasFile
<1>4. CASE k # st.number
  <2>1. (Pinned /\ Unsaved /\ Filed /\ Grown /\ Snapped)'
    BY <1>1, <1>2, <1>4, Markers
       DEF Ready, Core, TypeOK, State, Named, Kept, Pinned, Unsaved, Filed, Grown, Snapped, Extends
  <2>2. Owned => Owned'
    BY <1>1, <1>2, <1>4 DEF Owned, HasFile
  <2> QED BY <1>2, <1>3, <2>1, <2>2 DEF Good, Kept
<1>5. CASE k = st.number
  <2> DEFINE l == LatestRun(dir', saved', pointer')
  <2>1. l \in {0} \cup Numbers /\ (l # 0 => HasFile(dir', l))
    BY <1>2, LatestHasFile DEF Ready, Core, TypeOK
  <2>2. /\ results' = (IF l = 0 THEN NoRows ELSE dir'[l]) /\ file' = results'
        /\ st' = (IF l = 0 THEN Blank ELSE Loaded(l, dir'[l], 0))
        /\ snap' \in {None, View(st')} /\ pass = NoPass
    BY <1>1, <1>5 DEF Flushed
  <2> HIDE DEF l
  <2>3. st'.number = l /\ st'.pinned = 0
    BY <2>2 DEF Blank, Loaded
  <2>4. (Pinned /\ Unsaved /\ Filed /\ Grown)'
    BY <1>2, <2>2, <2>3, Markers
       DEF Pinned, Unsaved, Filed, Grown, Extends, NoPass
  <2>5. Owned => Owned'
    BY <1>2, <2>1, <2>2, <2>3 DEF Owned, OwnedBy, HasFile, NoPass
  <2> QED BY <1>2, <1>3, <2>2, <2>4, <2>5, SnapshotTaken DEF Good, Kept
<1> QED BY <1>4, <1>5

LEMMA GoodPass ==
  ASSUME Ready,
         PassWipes \/ PassScans \/ Record \/ Park \/ Unpark \/ PassEnds \/ PassFails
  PROVE  Good
<1>1. CASE PassWipes
  <2>1. /\ up /\ up' /\ pass # NoPass /\ pass.pc = "setup" /\ results' = NoRows
        /\ file' = NoRows /\ Broadcast /\ UNCHANGED <<saved, minted, torn>>
        /\ \A k \in Numbers :
             dir'[k] = IF k = st.pinned /\ dir[k] # None THEN NoRows ELSE dir[k]
        /\ \A k \in Numbers \ {st.number} : dir'[k] = dir[k]
    BY <1>1, Markers, SaveResultsIs DEF PassWipes, NoPass, history
  <2>2. st'.number = st.number /\ st'.pinned = st.pinned
    BY <1>1 DEF Ready, Core, TypeOK, State, PassWipes
  <2>3. pass'.pc = "scan" /\ pass'.kind = pass.kind /\ pass'.audit = pass.audit
    BY <1>1 DEF Ready, Core, TypeOK, Pass, PassWipes
  <2>4. st.number \notin saved
    BY <2>1 DEF Ready, Kept, Unsaved
  <2>5. st.number # 0 /\ st.number \in Numbers
    BY <2>1 DEF Ready, Core, TypeOK, State, Named
  <2>6. dir'[st.number] = NoRows /\ st.pinned = st.number
    BY <2>1, <2>5 DEF Ready, Kept, Pinned
  <2>7. (Pinned /\ Unsaved /\ Filed /\ Grown)'
    BY <2>1, <2>2, <2>3, <2>4, <2>6, Markers, MarkerAssumption
       DEF Pinned, Unsaved, Filed, Grown
  <2>8. RowsSurvive
    BY <2>1, <2>4, OneDirectory
  <2>9. Owned => Owned'
    BY <2>1, <2>2, <2>3, <2>6 DEF Owned, OwnedBy, HasFile, NoRows
  <2> QED BY <2>1, <2>2, <2>7, <2>8, <2>9, SnapshotKept DEF Good, Kept
<1>2. CASE PassScans
  <2>1. st'.number = st.number /\ st'.pinned = st.pinned
    BY <1>2 DEF Ready, Core, TypeOK, State, PassScans
  <2>2. pass # NoPass /\ pass'.pc = "sweep" /\ pass'.kind = pass.kind /\ pass'.audit = pass.audit
    <3>1. pass.pc = "scan"
      BY <1>2 DEF PassScans
    <3>2. PICK todo : pass' = [pass EXCEPT !.pc = "sweep", !.todo = todo]
      BY <1>2 DEF PassScans
    <3> QED BY <3>1, <3>2 DEF Ready, Core, TypeOK, Pass, NoPass
  <2>3. up /\ up' /\ UNCHANGED <<results, file, dir, saved, minted, torn>> /\ Broadcast
    BY <1>2 DEF PassScans, disk, history
  <2> QED BY <2>1, <2>2, <2>3, Steady
<1>3. CASE Record
  <2>1. PICK n \in pass.todo :
          LET a == IF results[n] # 0 THEN results[n] ELSE pass.audit
              r == [results EXCEPT ![n] = a]
          IN /\ a # 0 /\ results' = r /\ SaveResults(r)
             /\ pass' = [pass EXCEPT !.todo = @ \ {n}]
    BY <1>3 DEF Record
  <2>2. n \in Nodes /\ pass # NoPass
    BY <1>3 DEF Ready, Core, TypeOK, Pass, Record, NoPass
  <2>3. /\ results' \in Rows /\ SaveResults(results')
        /\ results'[n] = (IF results[n] # 0 THEN results[n] ELSE pass.audit) /\ results'[n] # 0
        /\ \A m \in Nodes \ {n} : results'[m] = results[m]
    BY <2>1, <2>2 DEF Ready, Core, TypeOK, Pass, Rows
  <2>4. /\ up /\ up' /\ st' = st /\ Broadcast /\ UNCHANGED <<saved, minted, torn>>
        /\ pass.pc = "sweep"
    BY <1>3 DEF Record, history
  <2>5. pass'.pc = "sweep" /\ pass'.kind = pass.kind /\ pass'.audit = pass.audit
    BY <2>1, <2>4 DEF Ready, Core, TypeOK, Pass
  <2>6. st.number # 0 /\ st.number \in Numbers /\ st.pinned = st.number
    BY <2>2, <2>4 DEF Ready, Core, TypeOK, State, Named, Kept, Pinned
  <2>7. /\ file' = results' /\ dir'[st.number] = results'
        /\ \A k \in Numbers \ {st.number} : dir'[k] = dir[k]
    BY <2>2, <2>3, <2>6, SaveResultsIs DEF Ready, Kept, Pinned
  <2>8. (Pinned /\ Unsaved /\ Filed /\ Grown)'
    BY <2>2, <2>3, <2>4, <2>5, <2>6, <2>7, MarkerAssumption
       DEF Ready, Kept, Pinned, Unsaved, Filed, Grown, Extends
  <2>9. st.number \in saved => Extends(dir'[st.number], dir[st.number])
    <3> SUFFICES ASSUME st.number \in saved, NEW m \in Tested(dir[st.number])
                 PROVE  dir'[st.number][m] = dir[st.number][m]
      BY DEF Extends
    <3>1. m \in Nodes /\ dir[st.number][m] # 0
      BY DEF Tested
    <3>2. results[m] = dir[st.number][m]
      BY <2>2, <2>4 DEF Ready, Kept, Grown, Extends
    <3> QED BY <2>3, <2>7, <3>1, <3>2
  <2>10. RowsSurvive
    BY <2>7, <2>9, OneDirectory
  <2>11. Owned => Owned'
    <3> SUFFICES ASSUME Owned PROVE Owned'
      OBVIOUS
    <3>1. OwnedBy(results', minted[st.number])
      <4>1. results[n] = 0 => pass.audit = minted[st.number]
        BY <2>3 DEF Ready, Core, TypeOK, Pass, Owned
      <4>2. OwnedBy(results, minted[st.number])
        BY <2>4, <2>6 DEF Owned
      <4> QED BY <2>2, <2>3, <4>1, <4>2 DEF OwnedBy
    <3> QED BY <2>3, <2>4, <2>5, <2>6, <2>7, <3>1 DEF Owned, HasFile
  <2> QED BY <2>4, <2>8, <2>10, <2>11, SnapshotKept DEF Good, Kept
<1>4. CASE Park \/ Unpark \/ PassFails
  BY <1>4, Steady DEF Ready, Core, TypeOK, State, Park, Unpark, PassFails, disk, history
<1>5. CASE PassEnds
  <2>1. st'.number = st.number /\ st'.pinned = st.pinned
    BY <1>5 DEF Ready, Core, TypeOK, State, PassEnds
  <2>2. SaveCurrent \/ PersistActive
    BY <1>5 DEF PassEnds
  <2> QED BY <1>5, <2>1, <2>2, SaveIsStored, StoredIsGood DEF PassEnds, history
<1> QED BY <1>1, <1>2, <1>3, <1>4, <1>5

LEMMA GoodCrash == ASSUME Ready, Crash PROVE Good
<1>1. /\ up /\ ~up' /\ results' = NoRows /\ st' = Blank /\ pass' = NoPass
      /\ torn' = (torn \/ Behind) /\ UNCHANGED <<file, dir, saved, snap, minted>>
  BY DEF Crash, disk
<1>2. (Pinned /\ Snapped /\ Unsaved /\ Filed)'
  BY <1>1 DEF Ready, Kept, Pinned, Snapped, Unsaved, Filed, Blank, NoPass
<1>3. Grown'
  <2> SUFFICES ASSUME snap # None, snap.number \in saved, file # NoRows
               PROVE  Extends(file, dir[snap.number])
    BY <1>1 DEF Grown
  <2>1. st.number # 0 /\ snap.number = st.number
    BY <1>1 DEF Ready, Core, Named, Kept, Snapped
  <2>2. file = results
    BY <1>1, <2>1 DEF Ready, Kept, Filed
  <2> QED BY <1>1, <2>1, <2>2 DEF Ready, Kept, Grown
<1>4. RowsSurvive
  BY <1>1, OneDirectory
<1>5. ASSUME Owned, ~torn' PROVE Owned'
  <2>1. ~Behind
    BY <1>1, <1>5
  <2>2. \A k \in Numbers : HasFile(dir', k) => OwnedBy(dir'[k], minted'[k])
    BY <1>1, <1>5 DEF Owned, HasFile
  <2>3. ASSUME file # NoRows
        PROVE  /\ st.number \in Numbers /\ OwnedBy(file, minted[st.number])
               /\ minted[st.number] \in Audits
               /\ snap # None => snap.number = st.number
    <3>1. file = results /\ st.number # 0 /\ st.number \in Numbers
      BY <1>1, <2>1, <2>3 DEF Ready, Core, TypeOK, State, Named, Behind
    <3>2. OwnedBy(file, minted[st.number])
      BY <1>1, <1>5, <3>1 DEF Owned
    <3>3. minted[st.number] \in Audits
      <4>1. PICK n \in Nodes : file[n] # 0
        BY <2>3 DEF Ready, Core, TypeOK, Rows, NoRows
      <4> QED BY <3>1, <3>2, <4>1 DEF Ready, Core, TypeOK, OwnedBy
    <3> QED BY <1>1, <3>1, <3>2, <3>3 DEF Ready, Kept, Snapped
  <2> QED BY <1>1, <2>2, <2>3 DEF Owned, NoPass
<1>6. ~torn' => ~torn
  BY <1>1 DEF Ready, Core, TypeOK
<1> QED BY <1>2, <1>3, <1>4, <1>5, <1>6 DEF Good, Kept

LEMMA GoodBoots == ASSUME Ready, BootWithRows \/ BootEmpty PROVE Good
<1>1. CASE BootWithRows
  <2>1. PICK num, k, S, d, same, mine : Boots(num, k, S, d, same, mine)
    BY <1>1, BootTakes DEF Ready
  <2>2. /\ ~up /\ up' /\ file # NoRows /\ results' = file /\ file' = file
        /\ pass' = NoPass /\ saved' = S /\ dir' = d
        /\ st'.number = mine /\ st'.pinned = 0 /\ mine # 0
    BY <2>1, Markers DEF Ready, Core, Down, Boots, Blank
  <2>3. (Pinned /\ Unsaved /\ Filed)'
    BY <2>2 DEF Pinned, Unsaved, Filed, NoPass
  <2>4. Snapped'
    BY <2>1, <2>2 DEF Ready, Kept, Snapped, Boots, Flushed, View
  <2>5. ASSUME mine \in S PROVE Extends(file, d[mine])
    <3>1. CASE num = 0
      BY <2>1, <2>5, <3>1 DEF Boots, Extends
    <3>2. CASE num # 0 /\ saved = {}
      BY <2>1, <2>2, <3>2 DEF Ready, Core, TypeOK, Boots, Extends
    <3>3. CASE num # 0 /\ saved # {}
      BY <2>1, <2>2, <2>5, <3>3 DEF Ready, Kept, Grown, Boots
    <3> QED BY <3>1, <3>2, <3>3
  <2>6. Grown'
    BY <2>2, <2>5 DEF Grown
  <2>7. RowsSurvive
    BY <2>1, <2>2 DEF Ready, Core, TypeOK, SavedRunLoads, RowsSurvive, HasFile, Boots
  <2>8. ASSUME Owned, ~torn' PROVE Owned'
    <3>1. PICK a \in Audits : OwnedBy(file, a)
      BY <2>2, <2>8 DEF Owned
    <3>2. OwnedBy(file, Author(file))
      BY <2>2, <3>1, AuthorIs, RegistryAssumption DEF Ready, Core, TypeOK, OwnedBy, Audits
    <3>3. \A j \in Numbers :
            minted'[j] = IF num = 0 /\ ((saved = {} /\ j = k) \/ (~same /\ j = mine))
                         THEN Author(file) ELSE minted[j]
      BY <2>1 DEF Boots
    <3>4. num # 0 => OwnedBy(file, minted[num]) /\ mine = num
      BY <2>1, <2>2, <2>8 DEF Owned, Boots
    <3>5. ASSUME NEW j \in Numbers, HasFile(d, j) PROVE OwnedBy(d[j], minted'[j])
      <4>1. CASE saved = {} /\ j = k
        BY <2>1, <3>2, <3>3, <3>4, <4>1 DEF Ready, Core, TypeOK, Boots
      <4>2. CASE ~(saved = {} /\ j = k)
        <5>1. d[j] = dir[j] /\ OwnedBy(d[j], minted[j])
          BY <2>1, <2>8, <3>5, <4>2 DEF Ready, Core, TypeOK, Boots, Owned, HasFile
        <5>2. CASE num = 0 /\ ~same /\ j = mine
          BY <2>1, <2>8, <3>5, <5>2 DEF Boots, Leftover, OwnedBy, NoRows
        <5>3. CASE ~(num = 0 /\ ~same /\ j = mine)
          BY <3>3, <4>2, <5>1, <5>3
        <5> QED BY <5>2, <5>3
      <4> QED BY <4>1, <4>2
    <3>6. OwnedBy(file, minted'[mine])
      <4>1. CASE num # 0
        BY <2>1, <3>3, <3>4, <4>1 DEF Boots
      <4>2. CASE num = 0 /\ same
        BY <2>1, <3>5, <4>2 DEF Boots
      <4>3. CASE num = 0 /\ ~same
        BY <2>1, <3>2, <3>3, <4>3 DEF Boots
      <4> QED BY <4>1, <4>2, <4>3
    <3> QED BY <2>2, <3>5, <3>6 DEF Owned, NoPass, HasFile
  <2>9. ~torn' => ~torn
    BY <2>1 DEF Ready, Core, TypeOK, Boots
  <2> QED BY <2>3, <2>4, <2>6, <2>7, <2>8, <2>9 DEF Good, Kept
<1>2. CASE BootEmpty
  <2> DEFINE l == LatestRun(dir, saved, pointer)
  <2>1. l \in {0} \cup Numbers /\ (l # 0 => HasFile(dir, l))
    BY LatestHasFile DEF Ready, Core, TypeOK
  <2>2. /\ IF l = 0 THEN UNCHANGED <<results, file, st, snap>>
           ELSE /\ results' = dir[l] /\ file' = dir[l]
                /\ st' = Loaded(l, dir[l], 0) /\ Flushed
        /\ ~up /\ file = NoRows /\ up' /\ UNCHANGED <<dir, saved, minted, torn>>
        /\ pass' = NoPass /\ st = Blank /\ results = NoRows
    BY <1>2 DEF BootEmpty, history, Ready, Core, Down
  <2> HIDE DEF l
  <2>3. st'.number = l /\ st'.pinned = 0 /\ results' = file'
    BY <2>2 DEF Blank, Loaded
  <2>4. (Pinned /\ Unsaved /\ Filed)'
    BY <2>2, <2>3 DEF Pinned, Unsaved, Filed, NoPass
  <2>5. Grown'
    BY <2>2, <2>3, Markers DEF Ready, Core, TypeOK, Grown, Extends
  <2>6. Snapped'
    BY <2>2, <2>3, SnapshotTaken DEF Ready, Kept, Snapped, Flushed
  <2>7. RowsSurvive
    BY <2>2, OneDirectory
  <2>8. Owned => Owned'
    BY <2>1, <2>2, <2>3 DEF Owned, HasFile, NoPass
  <2> QED BY <2>2, <2>4, <2>5, <2>6, <2>7, <2>8 DEF Good, Kept
<1> QED BY <1>1, <1>2

LEMMA GoodStep == ASSUME Ready, [Next]_vars PROVE Good \/ UNCHANGED vars
BY GoodStartFresh, GoodRequests, GoodLoad, GoodDelete, GoodPass, GoodCrash, GoodBoots DEF Next

LEMMA InvInit == Init => Inv
BY CoreInit, InitKept DEF Inv

LEMMA InvStep == ASSUME Careful, Inv, [Next]_vars PROVE Inv' /\ (RowsSurvive \/ UNCHANGED vars)
<1>1. Ready
  BY CoreStep DEF Inv, Ready
<1>2. CASE Good
  BY <1>1, <1>2 DEF Inv, Ready, Good
<1>3. CASE UNCHANGED vars
  BY <1>1, <1>3
     DEF vars, disk, history, Inv, Ready, Core, Kept, Pinned, Snapped, Unsaved, Filed, Grown, Extends,
         Owned, OwnedBy, HasFile
<1> QED BY <1>1, <1>2, <1>3, GoodStep

\* The rows of a listed run are those of the audit its number was given to, and
\* no row is shown without a number: through every order of requests, passes and
\* process deaths, unless the process died while the disk was behind the array
\* or a number went to a directory with rows left over in it.
THEOREM NumbersStayTrue == ASSUME Careful PROVE Spec => []OneAuditPerNumber
<1>1. Spec => []Inv
  BY InvInit, InvStep, PTL DEF Spec
<1>2. Inv => OneAuditPerNumber
  <2>1. Inv => TypeOK /\ RowsAreNumbered
    BY DEF Inv, Core, Named, RowsAreNumbered
  <2>2. Inv /\ ~torn => NumbersNeverAlias
    BY DEF Inv, Core, TypeOK, SavedRunLoads, Owned, OwnedBy, NumbersNeverAlias, Tested
  <2> QED BY <2>1, <2>2 DEF OneAuditPerNumber
<1> QED BY <1>1, <1>2, PTL

\* No step takes a row from a run that stays listed, except a wipe of the run on
\* display: not a new test over its number, not a save after a crash.
THEOREM RowsAreKept == ASSUME Careful PROVE Spec => SavedRowsKept
<1>1. Spec => []Inv
  BY InvInit, InvStep, PTL DEF Spec
<1>2. Inv /\ [Next]_vars => [RowsSurvive]_vars
  BY InvStep
<1>3. Inv /\ [Next]_vars =>
        [\A k \in saved \cap saved' :
           \/ HasFile(dir', k) /\ \A n \in Tested(dir[k]) : dir'[k][n] = dir[k][n]
           \/ k = st.number /\ pass = NoPass /\ results' = NoRows]_vars
  BY <1>2 DEF RowsSurvive
<1> QED BY <1>1, <1>3, PTL DEF Spec, SavedRowsKept
=============================================================================
