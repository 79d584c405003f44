--------------------------- MODULE MigrationProofs ---------------------------
(***************************************************************************)
(* Proofs about the migration runner: any files and releases, any number   *)
(* of overlapping runs, killed anywhere.  Of two runs that apply the same  *)
(* version only one can come to its commit; and what a run still has to    *)
(* apply has no gap below it that a late file does not account for.        *)
(***************************************************************************)
EXTENDS Migration, WellFoundedInduction, TLAPS

InLoop == {"execute", "record", "commit"}

\* What run r loaded has one file per version, versions the directory still
\* has; a file it has not loaded came late, or above all it has loaded.
LoadedOK(r) ==
    /\ \A f, g \in loaded[r] : SameVersion(f, g) => f = g
    /\ \A g \in loaded[r] : \E h \in files : SameVersion(g, h)
    /\ \A g \in loaded[r], f \in files \ loaded[r] : f.version < g.version => f \in late

\* What run r has to do, and that nothing below it is forgotten.
TodoOK(r) ==
    /\ todo[r] \subseteq loaded[r]
    /\ todo[r] # {} <=> pc[r] \in InLoop
    /\ \A g \in todo[r], f \in files : f.version < g.version =>
           Applied(f) \/ f \in late \/ \E h \in todo[r] : SameVersion(f, h)

\* What an `up' does not have to do, or has done, is applied.
DoneOK(r) ==
    /\ pc[r] # "idle" => outcome[r] = "none"
    /\ (command[r] = "up" /\ (pc[r] \in InLoop \/ outcome[r] = "ok")) =>
           \A f \in loaded[r] : Applied(f) \/ f \in todo[r]

\* A run that may commit has inserted its record, and nobody had its version before.
CommitOK(r) ==
    pc[r] = "commit" => "record" \in writes[r] /\ ~Applied(Current(r))

RunnerOK(r) == LoadedOK(r) /\ TodoOK(r) /\ DoneOK(r) /\ CommitOK(r)

\* No two runs may commit the same version.
CommitsApart(r, p) ==
    (pc[r] = "commit" /\ pc[p] = "commit") => ~SameVersion(Current(r), Current(p))

RunnersOK ==
    /\ \A r \in Runners : RunnerOK(r)
    /\ \A r, p \in Runners : r # p => CommitsApart(r, p)

\* A version that is recorded stays in the directory, under this name or another.
VersionsStay == \A g \in recorded : \E h \in files : SameVersion(g, h)

MigrationInv ==
    /\ TypeOK
    /\ RunnersOK
    /\ ReportTruthful
    /\ AppliedExactlyOnce
    /\ NoGap
    /\ VersionsStay

-----------------------------------------------------------------------------
(* The order of versions.                                                  *)

\* A set of versions has a lowest.
LEMMA LowestVersion ==
    ASSUME NEW V \in SUBSET Nat, V # {}
    PROVE  \E v \in V : \A w \in V : v <= w
<1>1. PICK R : /\ IsWellFoundedOn(R, Nat)
               /\ \A v, w \in Nat : w < v => <<w, v>> \in R
    <2>1. \A v, w \in Nat : w < v => <<w, v>> \in OpToRel(<, Nat)
        BY DEF OpToRel
    <2> QED
        BY <2>1, NatLessThanWellFounded, Zenon
<1>2. PICK v \in V : \A w \in V : <<w, v>> \notin R
    BY <1>1, WFMin
<1>3. ASSUME NEW w \in V PROVE v <= w
    <2>1. v \in Nat /\ w \in Nat /\ <<w, v>> \notin R
        BY <1>2
    <2>2. ~(w < v)
        BY <2>1, <1>1, Zenon
    <2> QED
        BY <2>1, <2>2
<1> QED
    BY <1>3

\* Load's sorting puts a file first that has no lower one among those to do.
LEMMA FirstIsLowest ==
    ASSUME NEW fs \in SUBSET Files, fs # {}
    PROVE  First(fs) \in fs /\ \A g \in fs : First(fs).version <= g.version
<1>1. {f.version : f \in fs} \in SUBSET Nat /\ {f.version : f \in fs} # {}
    BY MigrationAssumption DEF MigrationAssumption
<1>2. \E v \in {f.version : f \in fs} : \A w \in {f.version : f \in fs} : v <= w
    BY <1>1, LowestVersion
<1>3. \E f \in fs : \A g \in fs : f.version <= g.version
    BY <1>2
<1> QED
    BY <1>3 DEF First

\* A run in its loop is at a file it has loaded, the lowest it has to do.
LEMMA CurrentIsLowest ==
    ASSUME MigrationInv, NEW r \in Runners, pc[r] \in InLoop
    PROVE  /\ Current(r) \in todo[r] /\ Current(r) \in loaded[r] /\ Current(r) \in Files
           /\ \A g \in todo[r] : Current(r).version <= g.version
<1>1. todo[r] \in SUBSET Files /\ todo[r] # {} /\ todo[r] \subseteq loaded[r]
    BY DEF MigrationInv, TypeOK, RunnersOK, RunnerOK, TodoOK
<1> QED
    BY <1>1, FirstIsLowest DEF Current

-----------------------------------------------------------------------------
(* Steps of one run that change no table.                                  *)

\* The other runs' locals stay.
OthersStay(r) ==
    \A p \in Runners \ {r} :
        /\ pc'[p] = pc[p] /\ command'[p] = command[p] /\ loaded'[p] = loaded[p]
        /\ todo'[p] = todo[p] /\ writes'[p] = writes[p]
        /\ report'[p] = report[p] /\ outcome'[p] = outcome[p]

\* What run r lists after its step is applied, and it lists no more as an `up'.
ListsNoMore(r) ==
    /\ \A f \in report'[r] : Applied(f)
    /\ command'[r] = "up" => report'[r] = {} \/ (command[r] = "up" /\ report'[r] = report[r])

LEMMA RunnerMoves ==
    ASSUME MigrationInv, NEW r \in Runners, TypeOK', OthersStay(r),
           UNCHANGED <<files, late, recorded, executed>>, RunnerOK(r)', ListsNoMore(r),
           \A p \in Runners \ {r} : CommitsApart(r, p)'
    PROVE  MigrationInv'
<1>1. \A f : Applied(f)' <=> Applied(f)
    BY DEF Applied
<1>2. ASSUME NEW p \in Runners \ {r} PROVE RunnerOK(p)' /\ Current(p)' = Current(p)
    <2>1. RunnerOK(p)
        BY DEF MigrationInv, RunnersOK
    <2>2. Current(p)' = Current(p)
        BY DEF OthersStay, Current
    <2> QED
        BY <1>1, <2>1, <2>2
           DEF OthersStay, RunnerOK, LoadedOK, TodoOK, DoneOK, CommitOK
<1>3. ASSUME NEW p \in Runners, NEW q \in Runners, p # q PROVE CommitsApart(p, q)'
    <2>1. CASE p # r /\ q # r
        BY <1>2, <1>3, <2>1 DEF MigrationInv, RunnersOK, CommitsApart, OthersStay
    <2>2. CASE p = r
        BY <1>3, <2>2
    <2>3. CASE q = r
        BY <1>3, <2>3 DEF CommitsApart, SameVersion
    <2> QED
        BY <2>1, <2>2, <2>3
<1>4. RunnersOK'
    BY <1>2, <1>3 DEF RunnersOK
<1>5. ReportTruthful'
    <2>1. \A p \in Runners : \A f \in report'[p] : Applied(f)
        BY DEF MigrationInv, ReportTruthful, OthersStay, ListsNoMore
    <2>2. ASSUME NEW p \in Runners, NEW q \in Runners, p # q,
                 command'[p] = "up", command'[q] = "up"
          PROVE  report'[p] \cap report'[q] = {}
        <3>1. (command[p] = "up" /\ command[q] = "up") => report[p] \cap report[q] = {}
            BY <2>2 DEF MigrationInv, ReportTruthful
        <3> QED
            BY <2>2, <3>1 DEF OthersStay, ListsNoMore
    <2> QED
        BY <1>1, <2>1, <2>2 DEF ReportTruthful
<1>6. AppliedExactlyOnce' /\ NoGap' /\ VersionsStay'
    BY <1>1 DEF MigrationInv, AppliedExactlyOnce, NoGap, VersionsStay
<1> QED
    BY <1>4, <1>5, <1>6 DEF MigrationInv

-----------------------------------------------------------------------------
(* One lemma per action.                                                   *)

LEMMA InitHolds == Init => MigrationInv
<1> SUFFICES ASSUME Init PROVE MigrationInv
    OBVIOUS
<1> USE MigrationAssumption DEF Init, MigrationAssumption
<1>1. TypeOK
    BY DEF TypeOK, Labels
<1>2. RunnersOK
    BY DEF RunnersOK, RunnerOK, LoadedOK, TodoOK, DoneOK, CommitOK, CommitsApart, InLoop
<1>3. ReportTruthful /\ AppliedExactlyOnce /\ NoGap /\ VersionsStay
    BY DEF ReportTruthful, AppliedExactlyOnce, NoGap, VersionsStay
<1> QED
    BY <1>1, <1>2, <1>3 DEF MigrationInv

LEMMA StartKeeps ==
    ASSUME MigrationInv, NEW r \in Runners, NEW cmd \in {"up", "status"}, Start(r, cmd)
    PROVE  MigrationInv'
<1> USE DEF Start, Goto, directory, database
<1>1. TypeOK' /\ OthersStay(r)
    BY DEF MigrationInv, TypeOK, Labels, OthersStay
<1>2. todo'[r] = {} /\ loaded'[r] = {} /\ pc'[r] = "ensure" /\ outcome'[r] = "none"
      /\ report'[r] = {}
    BY DEF MigrationInv, TypeOK, RunnersOK, RunnerOK, TodoOK, InLoop
<1>3. RunnerOK(r)' /\ ListsNoMore(r) /\ \A p \in Runners \ {r} : CommitsApart(r, p)'
    BY <1>2 DEF RunnerOK, LoadedOK, TodoOK, DoneOK, CommitOK, CommitsApart, InLoop,
                ListsNoMore
<1> QED
    BY <1>1, <1>3, RunnerMoves

LEMMA EnsureKeeps ==
    ASSUME MigrationInv, NEW r \in Runners, EnsureSchemaMigrations(r)
    PROVE  MigrationInv'
<1> USE DEF EnsureSchemaMigrations, Goto, directory
<1>1. TypeOK' /\ OthersStay(r)
    BY DEF MigrationInv, TypeOK, Labels, OthersStay
<1>2. RunnerOK(r) /\ pc[r] = "ensure" /\ pc'[r] = "load"
    BY DEF MigrationInv, TypeOK, RunnersOK
<1>3. RunnerOK(r)' /\ ListsNoMore(r) /\ \A p \in Runners \ {r} : CommitsApart(r, p)'
    BY <1>2 DEF MigrationInv, ReportTruthful, RunnerOK, LoadedOK, TodoOK, DoneOK, CommitOK,
                CommitsApart, InLoop, ListsNoMore, Applied
<1> QED
    BY <1>1, <1>3, RunnerMoves

\* A run that ends leaves nothing to do.
LEMMA EndKeeps ==
    ASSUME MigrationInv, NEW r \in Runners, NEW how \in {"ok", "error"}, End(r, how),
           UNCHANGED <<files, late, table, recorded, executed>>, ListsNoMore(r),
           report' \in [Runners -> SUBSET Files],
           \A p \in Runners \ {r} : report'[p] = report[p],
           (how = "ok" /\ command[r] = "up") => \A f \in loaded[r] : Applied(f)
    PROVE  MigrationInv'
<1> USE DEF End, Goto
<1>1. TypeOK' /\ OthersStay(r)
    BY DEF MigrationInv, TypeOK, Labels, OthersStay
<1>2. RunnerOK(r) /\ pc'[r] = "idle" /\ todo'[r] = {} /\ outcome'[r] = how
      /\ loaded'[r] = loaded[r] /\ command'[r] = command[r]
    BY DEF MigrationInv, TypeOK, RunnersOK
<1>3. RunnerOK(r)' /\ \A p \in Runners \ {r} : CommitsApart(r, p)'
    BY <1>2 DEF RunnerOK, LoadedOK, TodoOK, DoneOK, CommitOK, CommitsApart, InLoop, Applied
<1> QED
    BY <1>1, <1>3, RunnerMoves

LEMMA StopKeeps ==
    ASSUME MigrationInv, NEW r \in Runners, Stop(r)
    PROVE  MigrationInv'
<1>1. ListsNoMore(r) /\ report' \in [Runners -> SUBSET Files]
      /\ \A p \in Runners \ {r} : report'[p] = report[p]
    BY DEF Stop, End, ListsNoMore, MigrationInv, TypeOK, ReportTruthful
<1> QED
    BY <1>1, EndKeeps DEF Stop, directory, database

LEMMA LoadKeeps ==
    ASSUME MigrationInv, NEW r \in Runners, Load(r)
    PROVE  MigrationInv'
<1>1. CASE \E f, g \in files : f # g /\ SameVersion(f, g)
    BY <1>1, StopKeeps DEF Load
<1>2. CASE ~\E f, g \in files : f # g /\ SameVersion(f, g)
    <2>1. Loaded(r) /\ pc[r] = "load"
        BY <1>2 DEF Load
    <2> USE DEF Loaded, Goto, directory, database
    <2>2. TypeOK' /\ OthersStay(r)
        BY <2>1 DEF MigrationInv, TypeOK, Labels, OthersStay
    <2>3. RunnerOK(r) /\ pc'[r] = "readApplied" /\ loaded'[r] = files
        BY <2>1 DEF MigrationInv, TypeOK, RunnersOK
    <2>4. LoadedOK(r)'
        BY <1>2, <2>1, <2>3 DEF LoadedOK, SameVersion
    <2>5. TodoOK(r)' /\ DoneOK(r)' /\ CommitOK(r)'
        BY <2>1, <2>3 DEF RunnerOK, TodoOK, DoneOK, CommitOK, InLoop
    <2>6. ListsNoMore(r) /\ \A p \in Runners \ {r} : CommitsApart(r, p)'
        BY <2>1, <2>3 DEF MigrationInv, ReportTruthful, CommitsApart, ListsNoMore
    <2> QED
        BY <2>1, <2>2, <2>4, <2>5, <2>6, RunnerMoves DEF RunnerOK
<1> QED
    BY <1>1, <1>2

\* A file that is pending has nothing below it but what is pending too, applied,
\* or late.
LEMMA AppliedVersionsKeeps ==
    ASSUME MigrationInv, NEW r \in Runners, AppliedVersions(r)
    PROVE  MigrationInv'
<1> DEFINE pending == {f \in loaded[r] : ~Applied(f)}
<1> USE DEF AppliedVersions, directory, database
<1>0. RunnerOK(r) /\ loaded[r] \subseteq Files
    BY DEF MigrationInv, TypeOK, RunnersOK
<1>1. CASE command[r] = "status"
    <2>1. ListsNoMore(r)
        BY <1>1 DEF ListsNoMore, End, MigrationInv, TypeOK
    <2>2. report' \in [Runners -> SUBSET Files] /\ \A p \in Runners \ {r} : report'[p] = report[p]
        BY <1>0, <1>1 DEF MigrationInv, TypeOK
    <2> QED
        BY <1>1, <2>1, <2>2, EndKeeps
<1>2. CASE command[r] = "up" /\ End(r, "ok") /\ pending = {} /\ UNCHANGED report
    <2>1. ListsNoMore(r) /\ report' \in [Runners -> SUBSET Files]
          /\ \A p \in Runners \ {r} : report'[p] = report[p]
        BY <1>2 DEF ListsNoMore, End, MigrationInv, TypeOK, ReportTruthful
    <2> QED
        BY <1>2, <2>1, EndKeeps
<1>3. CASE command[r] = "up" /\ pending # {} /\ Proceed(r, pending) /\ UNCHANGED report
    <2>1. /\ pc' = [pc EXCEPT ![r] = "execute"] /\ todo' = [todo EXCEPT ![r] = pending]
          /\ writes' = [writes EXCEPT ![r] = {}]
          /\ UNCHANGED <<command, loaded, outcome, report>>
        BY <1>3 DEF Proceed, Goto
    <2>2. TypeOK' /\ OthersStay(r)
        BY <1>0, <2>1 DEF MigrationInv, TypeOK, Labels, OthersStay
    <2>3. pc'[r] = "execute" /\ todo'[r] = pending
        BY <2>1 DEF MigrationInv, TypeOK
    <2>4. \A f : Applied(f)' <=> Applied(f)
        BY DEF Applied
    <2>5. LoadedOK(r)' /\ DoneOK(r)' /\ CommitOK(r)'
        BY <1>0, <2>1, <2>3, <2>4 DEF RunnerOK, LoadedOK, DoneOK, CommitOK, InLoop
    <2>6. TodoOK(r)'
        BY <1>0, <1>3, <2>1, <2>3, <2>4 DEF RunnerOK, LoadedOK, TodoOK, InLoop, SameVersion
    <2>7. ListsNoMore(r) /\ \A p \in Runners \ {r} : CommitsApart(r, p)'
        BY <2>1, <2>3 DEF MigrationInv, ReportTruthful, CommitsApart, ListsNoMore
    <2> QED
        BY <2>2, <2>5, <2>6, <2>7, RunnerMoves DEF RunnerOK
<1> QED
    BY <1>1, <1>2, <1>3 DEF Proceed

LEMMA ExecuteKeeps ==
    ASSUME MigrationInv, NEW r \in Runners, Execute(r)
    PROVE  MigrationInv'
<1>1. CASE Stop(r)
    BY <1>1, StopKeeps
<1>2. CASE pc[r] = "execute" /\ Executed(r) /\ UNCHANGED report
    <2> USE DEF Executed, Write, Goto, directory, database
    <2>1. TypeOK' /\ OthersStay(r)
        BY <1>2 DEF MigrationInv, TypeOK, Labels, OthersStay
    <2>2. RunnerOK(r) /\ pc'[r] = "record"
        BY <1>2 DEF MigrationInv, TypeOK, RunnersOK
    <2>3. RunnerOK(r)'
        BY <1>2, <2>2
           DEF RunnerOK, LoadedOK, TodoOK, DoneOK, CommitOK, InLoop, Applied
    <2>4. ListsNoMore(r) /\ \A p \in Runners \ {r} : CommitsApart(r, p)'
        BY <1>2, <2>2 DEF MigrationInv, ReportTruthful, CommitsApart, ListsNoMore
    <2> QED
        BY <1>2, <2>1, <2>3, <2>4, RunnerMoves
<1> QED
    BY <1>1, <1>2 DEF Execute

\* The primary key decides: nobody has recorded the version, and nobody is about to.
LEMMA RecordKeeps ==
    ASSUME MigrationInv, NEW r \in Runners, Record(r)
    PROVE  MigrationInv'
<1>1. CASE Stop(r)
    BY <1>1, StopKeeps
<1>2. CASE pc[r] = "record" /\ ~RecordPending(r) /\ ~RecordTaken(r) /\ Recorded(r)
    <2> USE DEF Recorded, Write, Goto, directory, database
    <2>1. TypeOK' /\ OthersStay(r)
        BY <1>2 DEF MigrationInv, TypeOK, Labels, OthersStay
    <2>2. /\ RunnerOK(r) /\ pc'[r] = "commit" /\ writes'[r] = writes[r] \cup {"record"}
          /\ Current(r)' = Current(r)
        BY <1>2 DEF MigrationInv, TypeOK, RunnersOK, Current
    <2>3. RunnerOK(r)'
        BY <1>2, <2>2
           DEF RunnerOK, LoadedOK, TodoOK, DoneOK, CommitOK, InLoop, Applied, RecordTaken
    <2>4. ASSUME NEW p \in Runners \ {r} PROVE CommitsApart(r, p)'
        <3>1. CommitOK(p) /\ pc'[p] = pc[p] /\ Current(p)' = Current(p)
            BY <2>1, <1>2 DEF MigrationInv, RunnersOK, RunnerOK, OthersStay, Current
        <3>2. pc[p] = "commit" => ~SameVersion(Current(p), Current(r))
            BY <1>2, <3>1 DEF RecordPending, CommitOK
        <3> QED
            BY <2>2, <3>1, <3>2 DEF CommitsApart, SameVersion
    <2>5. ListsNoMore(r)
        BY <1>2 DEF MigrationInv, ReportTruthful, ListsNoMore
    <2> QED
        BY <1>2, <2>1, <2>3, <2>4, <2>5, RunnerMoves
<1> QED
    BY <1>1, <1>2 DEF Record

\* What a commit does to the locals of its run.
CommittedLocals(r) ==
    /\ OthersStay(r)
    /\ command'[r] = command[r] /\ loaded'[r] = loaded[r]
    /\ pc'[r] # "commit"
    /\ \/ /\ todo'[r] = todo[r] \ {Current(r)}
          /\ report'[r] = report[r] \cup {Current(r)}
          /\ IF todo'[r] = {} THEN pc'[r] = "idle" /\ outcome'[r] = "ok"
             ELSE pc'[r] = "execute" /\ outcome'[r] = outcome[r]
       \/ /\ todo'[r] = {} /\ pc'[r] = "idle" /\ outcome'[r] = "error"
          /\ report'[r] = report[r]

LEMMA CommitEffect ==
    ASSUME MigrationInv, NEW r \in Runners, Commit(r)
    PROVE  TypeOK' /\ CommittedLocals(r) /\ UNCHANGED <<files, late>>
<1> USE DEF Goto, directory
<1>0. TypeOK /\ Current(r) \in Files
    BY CurrentIsLowest DEF MigrationInv, Commit, InLoop
<1>1. CASE End(r, "error") /\ UNCHANGED report
    BY <1>0, <1>1 DEF Commit, End, TypeOK, Labels, CommittedLocals, OthersStay
<1>2. CASE /\ Proceed(r, todo[r] \ {Current(r)})
           /\ report' = [report EXCEPT ![r] = @ \cup {Current(r)}]
    <2>1. CASE todo[r] \ {Current(r)} = {}
        BY <1>0, <1>2, <2>1 DEF Commit, Proceed, End, TypeOK, Labels, CommittedLocals, OthersStay
    <2>2. CASE todo[r] \ {Current(r)} # {}
        BY <1>0, <1>2, <2>2 DEF Commit, Proceed, TypeOK, Labels, CommittedLocals, OthersStay
    <2> QED
        BY <2>1, <2>2
<1> QED
    BY <1>1, <1>2 DEF Commit

LEMMA CommitKeeps ==
    ASSUME MigrationInv, NEW r \in Runners, Commit(r)
    PROVE  MigrationInv'
<1> DEFINE g == Current(r)
<1>0. /\ g \in todo[r] /\ g \in loaded[r] /\ g \in Files /\ ~Applied(g)
      /\ \A h \in todo[r] : g.version <= h.version
      /\ pc[r] = "commit" /\ RunnerOK(r)
    BY CurrentIsLowest DEF Commit, InLoop, MigrationInv, RunnersOK, RunnerOK, CommitOK
<1>1. TypeOK' /\ CommittedLocals(r) /\ files' = files /\ late' = late
    BY CommitEffect
<1>2. recorded' = recorded \cup {g} /\ executed' = [executed EXCEPT ![g] = @ + 1]
    BY DEF Commit
<1> HIDE DEF g
<1>3. \A f : Applied(f)' <=> Applied(f) \/ SameVersion(f, g)
    BY <1>2 DEF Applied
<1>4. ASSUME NEW p \in Runners \ {r}
      PROVE  RunnerOK(p)' /\ Current(p)' = Current(p) /\ pc'[p] = pc[p]
    <2>1. RunnerOK(p) /\ CommitsApart(p, r)
        BY DEF MigrationInv, RunnersOK
    <2>2. /\ pc'[p] = pc[p] /\ command'[p] = command[p] /\ loaded'[p] = loaded[p]
          /\ todo'[p] = todo[p] /\ writes'[p] = writes[p] /\ outcome'[p] = outcome[p]
        BY <1>1 DEF CommittedLocals, OthersStay
    <2>3. Current(p)' = Current(p)
        BY <2>2 DEF Current
    <2>4. LoadedOK(p)' /\ TodoOK(p)' /\ DoneOK(p)'
        BY <1>1, <1>3, <2>1, <2>2 DEF RunnerOK, LoadedOK, TodoOK, DoneOK
    <2>5. CommitOK(p)'
        BY <1>0, <1>3, <2>1, <2>2, <2>3 DEF RunnerOK, CommitOK, CommitsApart, g
    <2> QED
        BY <2>2, <2>3, <2>4, <2>5 DEF RunnerOK
<1>5. RunnerOK(r)'
    <2>1. LoadedOK(r)' /\ CommitOK(r)'
        BY <1>0, <1>1 DEF RunnerOK, LoadedOK, CommitOK, CommittedLocals
    <2>2. TodoOK(r)'
        BY <1>0, <1>1, <1>3 DEF RunnerOK, TodoOK, CommittedLocals, InLoop, SameVersion, g
    <2>3. DoneOK(r)'
        BY <1>0, <1>1, <1>3 DEF RunnerOK, DoneOK, CommittedLocals, InLoop, SameVersion, g
    <2> QED
        BY <2>1, <2>2, <2>3 DEF RunnerOK
<1>6. RunnersOK'
    BY <1>1, <1>4, <1>5 DEF MigrationInv, RunnersOK, CommitsApart, CommittedLocals
<1>7. ReportTruthful'
    BY <1>0, <1>1, <1>3
       DEF MigrationInv, ReportTruthful, CommittedLocals, OthersStay, SameVersion, g
<1>8. AppliedExactlyOnce'
    BY <1>0, <1>2 DEF MigrationInv, AppliedExactlyOnce, TypeOK, Applied, SameVersion
<1>9. NoGap'
    <2>1. \A f \in files : f.version < g.version => Applied(f) \/ f \in late
        <3>1. \A f, h \in Files : f.version \in Nat /\ (f.version < h.version => ~(h.version <= f.version))
            BY MigrationAssumption DEF MigrationAssumption
        <3> QED
            BY <1>0, <3>1 DEF RunnerOK, TodoOK, SameVersion, MigrationInv, TypeOK
    <2> QED
        BY <1>1, <1>2, <1>3, <2>1 DEF MigrationInv, NoGap
<1>10. VersionsStay'
    BY <1>0, <1>1, <1>2 DEF MigrationInv, VersionsStay, RunnerOK, LoadedOK
<1> QED
    BY <1>1, <1>6, <1>7, <1>8, <1>9, <1>10 DEF MigrationInv

\* A release takes no version away, and marks a file below another as late.
LEMMA DeployEffect ==
    ASSUME MigrationInv, NEW f \in Files, Deploy(f)
    PROVE  /\ f \in files' /\ files' \subseteq files \cup {f} /\ late \subseteq late'
           /\ \A h \in files : \E k \in files' : SameVersion(h, k)
           /\ \A h \in files : f.version < h.version => f \in late'
           /\ TypeOK'
BY DEF Deploy, SameVersion, MigrationInv, TypeOK, database

LEMMA DeployKeeps ==
    ASSUME MigrationInv, NEW f \in Files, Deploy(f)
    PROVE  MigrationInv'
<1>1. UNCHANGED <<recorded, executed, pc, command, loaded, todo, writes, report, outcome>>
    BY DEF Deploy, database
<1>2. \A h : Applied(h)' <=> Applied(h)
    BY <1>1 DEF Applied
<1>3. \A p \in Runners : Current(p)' = Current(p)
    BY <1>1 DEF Current
<1>4. ASSUME NEW p \in Runners PROVE RunnerOK(p)'
    <2>1. RunnerOK(p)
        BY DEF MigrationInv, RunnersOK
    <2>2. \A g \in loaded[p] : f.version < g.version => f \in late'
        BY <2>1, DeployEffect DEF RunnerOK, LoadedOK, SameVersion
    <2>3. LoadedOK(p)'
        <3>1. \A g \in loaded[p] : \E h \in files' : SameVersion(g, h)
            BY <2>1, DeployEffect DEF RunnerOK, LoadedOK, SameVersion
        <3> QED
            BY <1>1, <2>1, <2>2, <3>1, DeployEffect DEF RunnerOK, LoadedOK, SameVersion
    <2>4. TodoOK(p)'
        BY <1>1, <1>2, <2>1, <2>2, DeployEffect DEF RunnerOK, TodoOK
    <2>5. DoneOK(p)' /\ CommitOK(p)'
        BY <1>1, <1>2, <1>3, <2>1 DEF RunnerOK, DoneOK, CommitOK
    <2> QED
        BY <2>3, <2>4, <2>5 DEF RunnerOK
<1>5. RunnersOK'
    BY <1>1, <1>3, <1>4 DEF MigrationInv, RunnersOK, CommitsApart
<1>6. ReportTruthful' /\ AppliedExactlyOnce'
    BY <1>1, <1>2 DEF MigrationInv, ReportTruthful, AppliedExactlyOnce
<1>7. NoGap'
    <2>1. \A g \in recorded : f.version < g.version => f \in late'
        BY DeployEffect DEF MigrationInv, VersionsStay, SameVersion
    <2> QED
        BY <1>1, <1>2, <2>1, DeployEffect DEF MigrationInv, NoGap
<1>8. VersionsStay'
    BY <1>1, DeployEffect DEF MigrationInv, VersionsStay, SameVersion
<1> QED
    BY <1>5, <1>6, <1>7, <1>8, DeployEffect DEF MigrationInv

LEMMA StepKeeps == MigrationInv /\ [Next]_vars => MigrationInv'
<1> SUFFICES ASSUME MigrationInv, [Next]_vars PROVE MigrationInv'
    OBVIOUS
<1>1. CASE \E r \in Runners : Start(r, "up") \/ Start(r, "status")
    BY <1>1, StartKeeps
<1>2. CASE \E r \in Runners : Step(r)
    BY <1>2, EnsureKeeps, LoadKeeps, AppliedVersionsKeeps, ExecuteKeeps, RecordKeeps, CommitKeeps
       DEF Step
<1>3. CASE \E r \in Runners : Fail(r)
    BY <1>3, StopKeeps DEF Fail
<1>4. CASE \E f \in Files : Deploy(f)
    BY <1>4, DeployKeeps
<1>5. CASE UNCHANGED vars
    BY <1>5 DEF vars, MigrationInv, TypeOK, RunnersOK, RunnerOK, LoadedOK, TodoOK, DoneOK,
                CommitOK, CommitsApart, Current, Applied, ReportTruthful, AppliedExactlyOnce,
                NoGap, VersionsStay
<1> QED
    BY <1>1, <1>2, <1>3, <1>4, <1>5 DEF Next

-----------------------------------------------------------------------------

\* However many runs overlap, are killed and started again, and whatever releases
\* bring meanwhile, the invariant holds (migration.go:37-91, 164-192).
THEOREM RunnersInvariance == Spec => []MigrationInv
<1>1. Init => MigrationInv
    BY InitHolds
<1>2. MigrationInv /\ [Next]_vars => MigrationInv'
    BY StepKeeps
<1> QED
    BY <1>1, <1>2, PTL DEF Spec

\* No local of a run and no row leaves its set.
THEOREM RunnersTypeCorrect == Spec => []TypeOK
<1>1. MigrationInv => TypeOK
    BY DEF MigrationInv
<1> QED
    BY <1>1, RunnersInvariance, PTL

\* The SQL of a file takes effect exactly once if its version is recorded under its
\* name, and never otherwise: the primary key is the only lock runs have
\* (migration.go:170-189).
THEOREM ExactlyOnce == Spec => []AppliedExactlyOnce
<1>1. MigrationInv => AppliedExactlyOnce
    BY DEF MigrationInv
<1> QED
    BY <1>1, RunnersInvariance, PTL

\* Overlapping runs keep the ascending order: a version is never recorded before
\* a lower one, except for a file that came late (migration.go:53-62, 128-130).
THEOREM OnlyLateFilesLeaveGaps == Spec => []NoGap
<1>1. MigrationInv => NoGap
    BY DEF MigrationInv
<1> QED
    BY <1>1, RunnersInvariance, PTL

\* What a run lists as applied is, and no other run lists it (migration.go:61, 82-88).
THEOREM ReportsAreTrue == Spec => []ReportTruthful
<1>1. MigrationInv => ReportTruthful
    BY DEF MigrationInv
<1> QED
    BY <1>1, RunnersInvariance, PTL

\* An `up' that ends well has brought the schema up to what it found, with the help
\* of other runs or without (migration.go:52-64).
THEOREM SuccessIsUpToDate == Spec => []UpToDate
<1>1. MigrationInv => UpToDate
    <2> SUFFICES ASSUME MigrationInv, NEW r \in Runners, command[r] = "up",
                        outcome[r] = "ok", NEW f \in loaded[r]
                 PROVE  executed[f] = 1 \/ \E g \in Files \ loaded[r] :
                                               SameVersion(f, g) /\ executed[g] = 1
        BY DEF UpToDate
    <2>1. RunnerOK(r) /\ loaded[r] \subseteq Files /\ recorded \subseteq Files
        BY DEF MigrationInv, RunnersOK, TypeOK
    <2>2. Applied(f)
        BY <2>1 DEF RunnerOK, DoneOK, TodoOK, InLoop
    <2>3. PICK g \in recorded : SameVersion(f, g)
        BY <2>2 DEF Applied
    <2>4. executed[g] = 1 /\ (g \in loaded[r] => g = f)
        BY <2>1, <2>3 DEF MigrationInv, AppliedExactlyOnce, RunnerOK, LoadedOK
    <2> QED
        BY <2>1, <2>3, <2>4
<1> QED
    BY <1>1, RunnersInvariance, PTL
=============================================================================
