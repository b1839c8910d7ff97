----------------------------- MODULE RunRegistry -----------------------------
(***************************************************************************)
(* The saved-run registry of server.js: which rows of which audit end up   *)
(* under which Test #N, across new tests, stops, resumes, retests, loads,  *)
(* deletes and restarts.                                                   *)
(*                                                                         *)
(*   results      the results array of pipeline.js, shown on the dashboard *)
(*   file         results/results.json                                     *)
(*   dir          results/runs/test-NNN/results.json                       *)
(*   saved        the numbers with an entry in results/runs/index.json     *)
(*   pointer      index.activeRun                                          *)
(*   st           the fields of state that select a run                    *)
(*   snap         .state-snapshot.json, written at most every 5 seconds    *)
(*   pass         the one pipeline pass in flight; AuditControl is about   *)
(*                two of them                                              *)
(*                                                                         *)
(* A row is represented by the audit that produced it, so that a row in    *)
(* the wrong directory can be told from a row in its own.                  *)
(***************************************************************************)
EXTENDS Integers, FiniteSets

CONSTANTS
  Nodes,       \* node addresses
  None,        \* JavaScript null; no directory; no snapshot
  Bare,        \* a run directory without results.json
  MaxNumber,   \* bound: test numbers
  MaxAudits,   \* bound: fresh audits ever started
  MaxCrashes,  \* bound: process deaths
  Careful      \* loads only where no run directory is pinned, 5 s after a snapshot

ASSUME RegistryAssumption ==
  /\ IsFiniteSet(Nodes) /\ Nodes # {}
  /\ MaxNumber \in Nat \ {0} /\ MaxAudits \in Nat \ {0} /\ MaxCrashes \in Nat
  /\ Careful \in BOOLEAN
  /\ None # Bare

Numbers == 1..MaxNumber
Audits == 1..MaxAudits

\* At most one row per address: 0, or the audit that produced it.
Rows == [Nodes -> {0} \cup Audits]
NoRows == [n \in Nodes |-> 0]
Tested(r) == {n \in Nodes : r[n] # 0}
Author(r) == CHOOSE a \in Audits : \E n \in Nodes : r[n] = a

\* The markers are no results files.
ASSUME MarkerAssumption == None \notin Rows /\ Bare \notin Rows

VARIABLES results, file, dir, saved, pointer, st, snap, pass, up,
          minted,   \* history: the audit a number was last given to
          audits,   \* history: fresh audits started
          torn,     \* history: did a process die while the disk was Behind,
                    \* or a number go to a directory with rows left over in it?
          crashes

disk == <<file, dir, saved, pointer>>
history == <<minted, audits, torn, crashes>>
vars == <<results, disk, st, snap, pass, up, history>>

Statuses == {"idle", "running", "parked", "stopped", "done", "error"}
State == [status : Statuses, number : {0} \cup Numbers, pinned : {0} \cup Numbers,
          readonly : BOOLEAN, total : 0..Cardinality(Nodes)]
Snapshot == [number : {0} \cup Numbers, readonly : BOOLEAN, total : 0..Cardinality(Nodes)]
Pass == [kind : {"none", "fresh", "resume", "retest"}, pc : {"none", "setup", "scan", "sweep"},
         todo : SUBSET Nodes, audit : {0} \cup Audits]

NoPass == [kind |-> "none", pc |-> "none", todo |-> {}, audit |-> 0]
Blank == [status |-> "idle", number |-> 0, pinned |-> 0, readonly |-> FALSE, total |-> 0]

HasFile(d, k) == d[k] # None /\ d[k] # Bare
Folder(d, k) == IF d[k] = None THEN Bare ELSE d[k]

\* A run that died before its first save and was then cleared has a directory
\* and no index entry, so its number is given out again with its rows in place.
Leftover(d, k) == HasFile(d, k) /\ d[k] # NoRows

Init ==
  /\ results = NoRows /\ file = NoRows
  /\ dir = [k \in Numbers |-> None] /\ saved = {} /\ pointer = 0
  /\ st = Blank /\ snap = None /\ pass = NoPass /\ up = TRUE
  /\ minted = [k \in Numbers |-> 0] /\ audits = 0 /\ torn = FALSE /\ crashes = 0

-----------------------------------------------------------------------------
(* Shared parts of the handlers.                                           *)

\* isPipelineBusy: running, or parked in a poll loop that resumes writing.
PipelineBusy == st.status \in {"running", "parked"}

\* No pass is in flight and none is parked.
Quiet == up /\ pass = NoPass /\ ~PipelineBusy

\* saveStateSnapshot: forced, or throttled to one write every five seconds.
View(s) == [number |-> s.number, readonly |-> s.readonly, total |-> s.total]
Flushed == snap' = View(st')
Broadcast == snap' \in {snap, View(st')}

\* getNextRunNumber over a set of index entries.
NextNumber_Count(S) == Cardinality(S) + 1
NextNumber(S) == IF S = {} THEN 1 ELSE 1 + CHOOSE k \in S : \A j \in S : j <= k

\* saveResults: results.json, and the pinned directory when it still exists.
SaveResults(r) ==
  /\ file' = r
  /\ dir' = IF st.pinned = 0 \/ dir[st.pinned] = None THEN dir
            ELSE [dir EXCEPT ![st.pinned] = r]

\* saveCurrentRun into the reserved number.  An
\* entry already tied to the same SQLite row goes through persistActiveRun,
\* which leaves index.activeRun alone.
SaveCurrent_Rederived ==
  IF results = NoRows THEN UNCHANGED <<dir, saved, pointer>>
  ELSE LET k == NextNumber(saved)
       IN /\ k \in Numbers
          /\ dir' = [dir EXCEPT ![k] = results]
          /\ saved' = saved \cup {k} /\ pointer' = k

SaveCurrent ==
  IF results = NoRows THEN UNCHANGED <<dir, saved, pointer>>
  ELSE LET k == IF st.number # 0 THEN st.number ELSE NextNumber(saved)
       IN /\ k \in Numbers
          /\ dir' = [dir EXCEPT ![k] = results]
          /\ saved' = saved \cup {k}
          /\ pointer' \in (IF k \in saved THEN {pointer, k} ELSE {k})

\* persistActiveRun: the same places, and index.activeRun stays as it is.
PersistActive ==
  IF results = NoRows THEN UNCHANGED <<dir, saved, pointer>>
  ELSE /\ dir' = [dir EXCEPT ![st.number] = results]
       /\ saved' = saved \cup {st.number}
       /\ UNCHANGED pointer

\* latestRunNumber: index.activeRun first, then the highest saved number.
LatestRun(d, S, p) ==
  LET top == NextNumber(S) - 1
  IN IF p # 0 /\ HasFile(d, p) THEN p
     ELSE IF top # 0 /\ HasFile(d, top) THEN top ELSE 0

\* What loadRunIntoState leaves in state.
Loaded(k, r, pinned) ==
  [status |-> "idle", number |-> k, pinned |-> pinned, readonly |-> TRUE,
   total |-> Cardinality(Tested(r))]

-----------------------------------------------------------------------------
(* Requests.                                                               *)

\* /api/start, and every further turn of its infinite loop: startFreshRun
\* auto-saves what is displayed, empties the array, mints a number, pins its
\* directory, blanks the snapshot; runAudit then turns the status synchronously.
StartFresh ==
  /\ Quiet /\ audits < MaxAudits
  /\ LET keep == results # NoRows
         kept == IF keep THEN saved \cup {st.number} ELSE saved
         num  == NextNumber(kept)
         d    == IF keep THEN [dir EXCEPT ![st.number] = results] ELSE dir
     IN /\ num \in Numbers
        /\ keep => st.number # 0
        /\ saved' = kept /\ pointer' = num
        /\ dir' = [d EXCEPT ![num] = Folder(d, num)]
        /\ st' = [Blank EXCEPT !.status = "running", !.number = num, !.pinned = num]
        /\ minted' = [minted EXCEPT ![num] = audits + 1]
        /\ torn' = (torn \/ Leftover(d, num))
        /\ pass' = [NoPass EXCEPT !.kind = "fresh", !.pc = "setup", !.audit = audits + 1]
  /\ results' = NoRows
  /\ audits' = audits + 1
  /\ snap' \in {None, View(st')}
  /\ UNCHANGED <<file, up, crashes>>

\* /api/resume: an incomplete run that is not a loaded snapshot.
Resume ==
  /\ Quiet
  /\ results # NoRows /\ ~st.readonly
  /\ st.total > Cardinality(Tested(results))
  /\ st' = [st EXCEPT !.status = "running", !.pinned = st.number]
  /\ dir' = [dir EXCEPT ![st.number] = Folder(dir, st.number)]
  /\ pass' = [NoPass EXCEPT !.kind = "resume", !.pc = "scan", !.audit = minted[st.number]]
  /\ Broadcast
  /\ UNCHANGED <<results, file, saved, pointer, up, history>>

\* /api/retest-skips, /api/retest-fails, /api/auto-retest: rows of the displayed
\* run, a loaded one too, are worked on in place.
Retest ==
  /\ Quiet /\ st.number # 0
  /\ \E fails \in (SUBSET Tested(results)) \ {{}} :
       pass' = [NoPass EXCEPT !.kind = "retest", !.pc = "sweep", !.todo = fails]
  /\ st' = [st EXCEPT !.status = "running", !.pinned = st.number, !.readonly = FALSE,
                      !.total = IF @ < Cardinality(Tested(results))
                                THEN Cardinality(Tested(results)) ELSE @]
  /\ dir' = [dir EXCEPT ![st.number] = Folder(dir, st.number)]
  /\ Broadcast
  /\ UNCHANGED <<results, file, saved, pointer, up, history>>

\* /api/stop: the status is turned at once, the pass unwinds on its own.
Stop ==
  /\ up
  /\ st' = [st EXCEPT !.status = "stopped"]
  /\ Flushed
  /\ UNCHANGED <<results, disk, pass, up, history>>

\* /api/runs/save: refused only while the status is running.
Save ==
  /\ up /\ st.status # "running" /\ results # NoRows
  /\ SaveCurrent
  /\ st' = IF st.number # 0 THEN st ELSE [st EXCEPT !.number = NextNumber(saved)]
  /\ Broadcast
  /\ UNCHANGED <<results, file, pass, up, history>>

\* /api/clear wipes the displayed rows and keeps the run's identity.
Clear ==
  /\ Quiet
  /\ results' = NoRows
  /\ SaveResults(NoRows)
  /\ st' = [st EXCEPT !.status = "idle", !.total = 0]
  /\ Broadcast
  /\ UNCHANGED <<saved, pointer, pass, up, history>>

\* /api/runs/load: loadRunIntoState has no guard on the status, and its
\* saveResults goes to whatever directory is pinned.
Load ==
  /\ up
  /\ Careful => pass = NoPass /\ st.pinned = 0
  /\ \E k \in Numbers :
       /\ HasFile(dir, k)
       /\ results' = dir[k]
       /\ SaveResults(dir[k])
       /\ st' = Loaded(k, dir[k], st.pinned)
  /\ IF Careful THEN Flushed ELSE Broadcast
  /\ UNCHANGED <<saved, pointer, pass, up, history>>

\* DELETE /api/runs/:num: the entry, the directory, and when the run is the
\* displayed one the view as well, falling back to the latest run left.
Unlisted_None(S, k) == S
Unlisted(S, k) == S \ {k}

Delete ==
  /\ up
  /\ \E k \in Numbers :
       /\ k \in saved \/ k = st.number
       /\ k = st.number => ~PipelineBusy /\ pass = NoPass
       /\ LET d == [dir EXCEPT ![k] = None]
              S == Unlisted(saved, k)
              p == IF pointer = k THEN 0 ELSE pointer
              l == LatestRun(d, S, p)
          IN /\ dir' = d /\ saved' = S /\ pointer' = p
             /\ IF k # st.number
                THEN UNCHANGED <<results, file, st, snap>>
                ELSE /\ results' = IF l = 0 THEN NoRows ELSE d[l]
                     /\ file' = results'
                     /\ st' = IF l = 0 THEN Blank ELSE Loaded(l, d[l], 0)
                     /\ Flushed
  /\ UNCHANGED <<pass, up, history>>

-----------------------------------------------------------------------------
(* The pass in flight.                                                     *)

\* A fresh audit wipes the array and saves the empty set.
PassWipes ==
  /\ up /\ pass.pc = "setup"
  /\ results' = NoRows
  /\ SaveResults(NoRows)
  /\ st' = [st EXCEPT !.total = 0]
  /\ pass' = [pass EXCEPT !.pc = "scan"]
  /\ Broadcast
  /\ UNCHANGED <<saved, pointer, up, history>>

\* The online scan; a resume skips what the array already holds.
Remaining(online) == IF pass.kind = "resume" THEN online \ Tested(results) ELSE online

PassScans ==
  /\ up /\ pass.pc = "scan"
  /\ \E online \in SUBSET Nodes :
       LET todo == Remaining(online)
           base == IF pass.kind = "resume" THEN Cardinality(Tested(results)) ELSE 0
       IN /\ pass' = [pass EXCEPT !.pc = "sweep", !.todo = todo]
          /\ st' = [st EXCEPT !.total = base + Cardinality(todo)]
  /\ Broadcast
  /\ UNCHANGED <<results, disk, up, history>>

\* upsertResult and saveResults.
Record ==
  /\ up /\ pass.pc = "sweep" /\ st.status # "parked"
  /\ \E n \in pass.todo :
       LET a == IF results[n] # 0 THEN results[n] ELSE pass.audit
           r == [results EXCEPT ![n] = a]
       IN /\ a # 0
          /\ results' = r
          /\ SaveResults(r)
          /\ pass' = [pass EXCEPT !.todo = @ \ {n}]
  /\ UNCHANGED <<saved, pointer, st, up, history>>
  /\ Broadcast

\* Out of funds or off line: the pass polls until it may go on or is stopped.
Park ==
  /\ up /\ pass.pc = "sweep" /\ st.status = "running"
  /\ st' = [st EXCEPT !.status = "parked"]
  /\ Broadcast
  /\ UNCHANGED <<results, disk, pass, up, history>>

Unpark ==
  /\ up /\ st.status = "parked"
  /\ st' = [st EXCEPT !.status = "running"]
  /\ Broadcast
  /\ UNCHANGED <<results, disk, pass, up, history>>

\* The pass resolves, with or without a stop, and its caller saves.
PassEnds ==
  /\ up /\ pass.pc = "sweep" /\ st.status # "parked"
  /\ pass.todo = {} \/ st.status = "stopped"
  /\ IF pass.kind = "retest" THEN PersistActive ELSE SaveCurrent
  /\ st' = [st EXCEPT !.status = "done"]
  /\ pass' = NoPass
  /\ Broadcast
  /\ UNCHANGED <<results, file, up, history>>

\* The pass rejects: a wallet, RPC or scan failure.  Nothing is saved.
PassFails ==
  /\ up /\ pass # NoPass /\ st.status # "parked"
  /\ st' = [st EXCEPT !.status = "error"]
  /\ pass' = NoPass
  /\ Broadcast
  /\ UNCHANGED <<results, disk, up, history>>

-----------------------------------------------------------------------------
(* Process death and boot.                                                 *)

\* The files hold other rows than the displayed run: from startFreshRun, which
\* only empties the array, to the first save; after a clear with no directory
\* pinned.
Behind ==
  \/ file # results
  \/ st.number # 0 /\ HasFile(dir, st.number) /\ dir[st.number] # results

Crash ==
  /\ up /\ crashes < MaxCrashes
  /\ up' = FALSE /\ crashes' = crashes + 1
  /\ results' = NoRows /\ st' = Blank /\ pass' = NoPass
  /\ torn' = (torn \/ Behind)
  /\ UNCHANGED <<disk, snap, minted, audits>>

\* Rows on disk.  The snapshot names the run they belong to; without one the
\* run of index.activeRun is adopted only if its rows are the same.
BootNumber(num, cand, same, S) ==
  IF num # 0 THEN num ELSE IF same THEN cand ELSE NextNumber(S)

BootWithRows ==
  /\ ~up /\ file # NoRows
  /\ results' = file
  /\ LET num   == IF snap = None THEN 0 ELSE snap.number
         first == saved = {}
         k     == IF num # 0 THEN num ELSE NextNumber(saved)
         S     == IF first THEN {k} ELSE saved
         d     == IF first THEN [dir EXCEPT ![k] = file] ELSE dir
         cand  == IF pointer # 0 THEN pointer ELSE NextNumber(saved) - 1
         same  == cand # 0 /\ HasFile(d, cand) /\ d[cand] = file
         mine  == BootNumber(num, cand, same, S)
     IN /\ k \in Numbers /\ mine \in {0} \cup Numbers
        /\ saved' = S /\ dir' = d /\ pointer' = IF first THEN k ELSE pointer
        /\ st' = [Blank EXCEPT !.number = mine,
                               !.readonly = snap # None /\ snap.readonly,
                               !.total = IF snap = None THEN 0 ELSE snap.total]
        /\ IF num = 0 /\ ~same THEN Flushed ELSE UNCHANGED snap
        /\ minted' = [j \in Numbers |->
                        IF num = 0 /\ ((first /\ j = k) \/ (~same /\ j = mine))
                        THEN Author(file) ELSE minted[j]]
        /\ torn' = (torn \/ (num = 0 /\ ~same /\ Leftover(d, mine)))
  /\ up' = TRUE
  /\ UNCHANGED <<file, pass, audits, crashes>>

\* No rows on disk: show the latest run instead of a blank view.
BootEmpty ==
  /\ ~up /\ file = NoRows
  /\ LET l == LatestRun(dir, saved, pointer)
     IN IF l = 0
        THEN UNCHANGED <<results, file, st, snap>>
        ELSE /\ results' = dir[l] /\ file' = dir[l]
             /\ st' = Loaded(l, dir[l], 0)
             /\ Flushed
  /\ up' = TRUE
  /\ UNCHANGED <<dir, saved, pointer, pass, history>>

Next ==
  \/ StartFresh \/ Resume \/ Retest \/ Stop \/ Save \/ Clear \/ Load \/ Delete
  \/ PassWipes \/ PassScans \/ Record \/ Park \/ Unpark \/ PassEnds \/ PassFails
  \/ Crash \/ BootWithRows \/ BootEmpty

Spec == Init /\ [][Next]_vars
-----------------------------------------------------------------------------
TypeOK ==
  /\ results \in Rows /\ file \in Rows
  /\ dir \in [Numbers -> Rows \cup {None, Bare}]
  /\ saved \subseteq Numbers /\ pointer \in {0} \cup Numbers
  /\ st \in State /\ pass \in Pass /\ up \in BOOLEAN
  /\ snap = None \/ snap \in Snapshot
  /\ minted \in [Numbers -> {0} \cup Audits] /\ audits \in {0} \cup Audits
  /\ torn \in BOOLEAN /\ crashes \in 0..MaxCrashes

\* Every run the dropdown offers can be loaded.
SavedRunLoads == \A k \in saved : HasFile(dir, k)

\* Rows on the dashboard always belong to a numbered run, so no save can build
\* a "test-null" directory.
RowsAreNumbered == up /\ results # NoRows => st.number # 0

\* One run = one number = one dir = one index entry: the rows of a saved run are
\* those of the audit its number was given to.
NumbersNeverAlias ==
  \A k \in saved : \A n \in Tested(dir[k]) : dir[k][n] = minted[k]

\* The same wherever no process died while the disk was behind the array and no
\* number went to a directory with rows left over in it, and no row without a
\* number; the code does not keep it across either.
OneAuditPerNumber == TypeOK /\ RowsAreNumbered /\ (~torn => NumbersNeverAlias)

\* As long as a run stays in the index its rows survive: whatever is started,
\* resumed, retested, loaded, deleted, stopped or killed, only a wipe of the
\* displayed run itself removes one.
SavedRowsKept ==
  [][\A k \in saved \cap saved' :
       \/ HasFile(dir', k) /\ \A n \in Tested(dir[k]) : dir'[k][n] = dir[k][n]
       \/ k = st.number /\ pass = NoPass /\ results' = NoRows]_vars

\* A loaded run is displayed read-only: with nothing running, turning the view to
\* another run leaves the rows of every saved run as they are.
LoadsAreReadOnly ==
  [][pass = NoPass /\ st'.readonly /\ st'.number # st.number =>
       \A k \in saved \cap saved' : dir'[k] = dir[k]]_vars
=============================================================================
