------------------------------ MODULE Migration ------------------------------
(***************************************************************************)
(* The migration runner (internal/platform/migration/migration.go, started *)
(* by cmd/migrate): several runs of `migrate up' and `migrate status' may  *)
(* overlap, be killed anywhere and be started again, while releases change *)
(* the directory.  A migration's SQL and its row in schema_migrations are  *)
(* one transaction; nothing locks the whole of a run.                      *)
(***************************************************************************)
EXTENDS Naturals, FiniteSets

CONSTANTS
    Runners,    \* processes that may run `migrate'
    Files,      \* all files there will ever be: version and name
    Shipped     \* the files in the directory at first

ASSUME MigrationAssumption ==
    /\ \A f \in Files : f.version \in Nat
    /\ Shipped \subseteq Files

VARIABLES
    files,      \* the migrations directory
    late,       \* history: files that came when a higher version was there
    table,      \* whether table schema_migrations exists
    recorded,   \* the rows of schema_migrations
    executed,   \* how often the SQL of a file has been committed
    pc,         \* the next step of each runner
    command,    \* what it runs, or ran last
    loaded,     \* what Load returned
    todo,       \* what an `up' still has to apply
    writes,     \* uncommitted statements: the SQL of a file and its record
    report,     \* the files it lists as applied
    outcome     \* how it ended

vars == <<files, late, table, recorded, executed, pc, command, loaded, todo,
          writes, report, outcome>>

directory == <<files, late>>
database == <<table, recorded, executed>>

Labels == {"idle", "ensure", "load", "readApplied", "execute", "record", "commit"}

TypeOK ==
    /\ files \subseteq Files /\ late \subseteq Files
    /\ table \in BOOLEAN
    /\ recorded \subseteq Files
    /\ executed \in [Files -> Nat]
    /\ pc \in [Runners -> Labels]
    /\ command \in [Runners -> {"none", "up", "status"}]
    /\ loaded \in [Runners -> SUBSET Files]
    /\ todo \in [Runners -> SUBSET Files]
    /\ writes \in [Runners -> SUBSET {"sql", "record"}]
    /\ report \in [Runners -> SUBSET Files]
    /\ outcome \in [Runners -> {"none", "ok", "error"}]

Init ==
    /\ files = Shipped /\ late = {}
    /\ table = FALSE /\ recorded = {}
    /\ executed = [f \in Files |-> 0]
    /\ pc = [r \in Runners |-> "idle"]
    /\ command = [r \in Runners |-> "none"]
    /\ loaded = [r \in Runners |-> {}]
    /\ todo = [r \in Runners |-> {}]
    /\ writes = [r \in Runners |-> {}]
    /\ report = [r \in Runners |-> {}]
    /\ outcome = [r \in Runners |-> "none"]

-----------------------------------------------------------------------------

SameVersion(f, g) == f.version = g.version

\* A variant that takes the files in descending order.
Last(fs) == CHOOSE f \in fs : \A g \in fs : g.version <= f.version

\* Load sorts the files by version: the next one is the lowest.
First(fs) == CHOOSE f \in fs : \A g \in fs : f.version <= g.version

\* The file runner r is at.
Current(r) == First(todo[r])

Goto(r, label) == pc' = [pc EXCEPT ![r] = label]

\* A variant that keeps BEGIN among the statements.
WriteBegin(r, statement) == writes' = [writes EXCEPT ![r] = @ \cup {"begin", statement}]

Write(r, statement) == writes' = [writes EXCEPT ![r] = @ \cup {statement}]

\* The run ends; a transaction that is open is rolled back.
End(r, how) ==
    /\ Goto(r, "idle")
    /\ outcome' = [outcome EXCEPT ![r] = how]
    /\ todo' = [todo EXCEPT ![r] = {}]
    /\ writes' = [writes EXCEPT ![r] = {}]
    /\ UNCHANGED <<command, loaded>>

\* A variant that starts over.
StartOver(r) ==
    /\ writes' = [writes EXCEPT ![r] = {}]
    /\ todo' = [todo EXCEPT ![r] = {}]
    /\ Goto(r, "ensure")
    /\ UNCHANGED <<directory, database, command, loaded, report, outcome>>

Stop(r) == End(r, "error") /\ UNCHANGED <<directory, database, report>>

\* The loop of Up: the next pending file, or the end.
Proceed(r, fs) ==
    \/ fs = {} /\ End(r, "ok")
    \/ /\ fs # {}
       /\ Goto(r, "execute")
       /\ todo' = [todo EXCEPT ![r] = fs]
       /\ writes' = [writes EXCEPT ![r] = {}]
       /\ UNCHANGED <<command, loaded, outcome>>

-----------------------------------------------------------------------------

Start(r, cmd) ==
    /\ pc[r] = "idle"
    /\ Goto(r, "ensure")
    /\ command' = [command EXCEPT ![r] = cmd]
    /\ loaded' = [loaded EXCEPT ![r] = {}]
    /\ report' = [report EXCEPT ![r] = {}]
    /\ outcome' = [outcome EXCEPT ![r] = "none"]
    /\ UNCHANGED <<directory, database, todo, writes>>

\* CREATE TABLE IF NOT EXISTS schema_migrations
EnsureSchemaMigrations(r) ==
    /\ pc[r] = "ensure"
    /\ table' = TRUE
    /\ Goto(r, "load")
    /\ UNCHANGED <<directory, recorded, executed, command, loaded, todo, writes,
                   report, outcome>>

Loaded(r) ==
    /\ loaded' = [loaded EXCEPT ![r] = files]
    /\ Goto(r, "readApplied")
    /\ UNCHANGED <<directory, database, command, todo, writes, report, outcome>>

\* A variant that does not look for duplicates.
LoadAnyway(r) == pc[r] = "load" /\ Loaded(r)

\* Two files of one version are refused.
Load(r) ==
    /\ pc[r] = "load"
    /\ IF \E f, g \in files : f # g /\ SameVersion(f, g) THEN Stop(r) ELSE Loaded(r)

\* Whether the version of f is recorded, under whatever name.
Applied(f) == \E g \in recorded : SameVersion(f, g)

\* What Up has left to do, and what Statuses answers.
AppliedVersions(r) ==
    /\ pc[r] = "readApplied"
    /\ \/ /\ command[r] = "up"
          /\ Proceed(r, {f \in loaded[r] : ~Applied(f)})
          /\ UNCHANGED report
       \/ /\ command[r] = "status"
          /\ report' = [report EXCEPT ![r] = {f \in loaded[r] : Applied(f)}]
          /\ End(r, "ok")
    /\ UNCHANGED <<directory, database>>

Executed(r) ==
    /\ Write(r, "sql")
    /\ Goto(r, "record")
    /\ UNCHANGED <<directory, database, command, loaded, todo, outcome>>

\* A variant that lists the migration before it is committed.
ListedWhenExecuted(r) ==
    /\ pc[r] = "execute"
    /\ report' = [report EXCEPT ![r] = @ \cup {Current(r)}]
    /\ Executed(r)

\* The file is read only now and may be gone.  The SQL itself may conflict with
\* what another run has done, and then fails, or may not: nothing is assumed of it.
Execute(r) ==
    /\ pc[r] = "execute"
    /\ IF Current(r) \in files THEN Executed(r) /\ UNCHANGED report ELSE Stop(r)

\* The primary key makes a second runner wait, then fail.
RecordPending(r) ==
    \E p \in Runners \ {r} : "record" \in writes[p] /\ SameVersion(Current(p), Current(r))

RecordTaken(r) == Applied(Current(r))

Recorded(r) ==
    /\ Write(r, "record")
    /\ Goto(r, "commit")
    /\ UNCHANGED <<directory, database, command, loaded, todo, report, outcome>>

\* A variant that does nothing on a conflict.
RecordAnyway(r) == pc[r] = "record" /\ ~RecordPending(r) /\ Recorded(r)

Record(r) ==
    /\ pc[r] = "record"
    /\ ~RecordPending(r)
    /\ IF RecordTaken(r) THEN Stop(r) ELSE Recorded(r)

\* The commit succeeds; the runner may be told otherwise, and then stops.
Commit(r) ==
    /\ pc[r] = "commit"
    /\ recorded' = recorded \cup {Current(r)}
    /\ executed' = [executed EXCEPT ![Current(r)] = @ + 1]
    /\ \/ /\ Proceed(r, todo[r] \ {Current(r)})
          /\ report' = [report EXCEPT ![r] = @ \cup {Current(r)}]
       \/ End(r, "error") /\ UNCHANGED report
    /\ UNCHANGED <<directory, table>>

\* A statement fails, the 30 seconds of the command are over or the process is
\* killed.
Fail(r) == pc[r] # "idle" /\ Stop(r)

\* A release adds a file, or puts it in the place of those of its version.
Deploy(f) ==
    /\ f \notin files
    /\ \/ files' = files \cup {f}
       \/ files' = {g \in files : ~SameVersion(f, g)} \cup {f}
    /\ late' = IF \E g \in files : f.version < g.version THEN late \cup {f} ELSE late
    /\ UNCHANGED <<database, pc, command, loaded, todo, writes, report, outcome>>

-----------------------------------------------------------------------------

Step(r) ==
    \/ EnsureSchemaMigrations(r) \/ Load(r) \/ AppliedVersions(r)
    \/ Execute(r) \/ Record(r) \/ Commit(r)

Next ==
    \/ \E r \in Runners : Start(r, "up") \/ Start(r, "status") \/ Step(r) \/ Fail(r)
    \/ \E f \in Files : Deploy(f)

Spec == Init /\ [][Next]_vars

\* A run that can go on again and again does: waiting inserts are served in turn.
FairSpec == Spec /\ \A r \in Runners : SF_vars(Step(r))

-----------------------------------------------------------------------------

\* However runs overlap and wherever they are killed, the SQL of a file has
\* taken effect exactly once if it is recorded and never if it is not, and of two
\* files of one version at most one has.
AppliedExactlyOnce ==
    /\ \A f \in Files : executed[f] = IF f \in recorded THEN 1 ELSE 0
    /\ \A f, g \in recorded : SameVersion(f, g) => f = g

\* No version is recorded while a lower one in the directory is not, unless the
\* lower one came late: overlapping runs keep the ascending order of
\* migrations/README.md, and only a release can break it.
NoGap ==
    \A g \in recorded, f \in files :
        f.version < g.version => Applied(f) \/ f \in late

\* An `up' that ends without an error leaves every file it found executed once,
\* by whichever run, or replaced one of the same version that was.
UpToDate ==
    \A r \in Runners : (command[r] = "up" /\ outcome[r] = "ok") =>
        \A f \in loaded[r] :
            \/ executed[f] = 1
            \/ \E g \in Files \ loaded[r] : SameVersion(f, g) /\ executed[g] = 1

\* Every file a run lists as applied has its version recorded, and no two `up'
\* that are under way or were last to run both list a file.
ReportTruthful ==
    \A r, p \in Runners :
        /\ \A f \in report[r] : Applied(f)
        /\ (r # p /\ command[r] = "up" /\ command[p] = "up")
              => report[r] \cap report[p] = {}

\* A run ends: it never waits forever for another that has recorded its version.
EveryRunEnds == \A r \in Runners : pc[r] # "idle" ~> pc[r] = "idle"
=============================================================================
