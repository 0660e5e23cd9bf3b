----------------------------- MODULE Checkpoints -----------------------------
(***************************************************************************)
(* The file checkpoints of tasks (checkpoint.rs, review.rs, the change     *)
(* sets of tools.rs and capture.rs): what a task changes is journalled in  *)
(* the table file_changes, a rewind puts the files back and can itself be  *)
(* undone.                                                                 *)
(*                                                                         *)
(* One operation at a time works in a project (a turn's lane, or the       *)
(* reservation of a rewind); the user's editor does not ask.  A step is    *)
(* one statement of the database or one replaced file.  The program may    *)
(* stop between any two, and any of them may fail.                         *)
(***************************************************************************)
EXTENDS Naturals, FiniteSets

CONSTANTS
    CpFiles,       \* the files of the project
    CpTasks,       \* its tasks
    CpUndos,       \* ids of rewinds that can be undone
    Written,       \* contents that agents and commands write
    UserTexts,     \* contents the user writes, each once
    Missing,       \* what a file is that is not there
    Original,      \* what a file is at first, if it is there
    NoChange,      \* no row
    NoCpTask,
    NoUndo,
    NoContent,
    MaxCalls,      \* bound: tool calls and undos of single changes
    MaxBreaks      \* bound: stops of the program, refused writes of the database or the disk

Contents == Written \cup UserTexts \cup {Missing, Original}

\* A row of the table.
Change == [before : Contents, after : Contents, observed : Contents, restored : BOOLEAN]

ASSUME CheckpointsAssumption ==
    /\ UserTexts \cap (Written \cup {Missing, Original}) = {}
    /\ CpTasks \cap CpUndos = {}
    /\ CpTasks \cap {"nobody", "user", "typing", "command", "rewind", "undo", "review", "mixed"} = {}
    /\ NoCpTask \notin CpTasks /\ NoUndo \notin CpUndos
    /\ NoContent \notin Contents /\ NoChange \notin Change
    /\ MaxCalls \in Nat /\ MaxBreaks \in Nat

VARIABLES
    onDisk,      \* the content of each file
    fileChanges, \* the table, by task or undo id (rewind:<id>) and file
    rewindOf,    \* native_meta: the task each rewind that can be undone was of
    phase,       \* of each task
    fileOp,      \* the operation that works in the project
    cpCalls,
    breaks,
    \* what happened
    author,      \* who gave each file its content
    atStart,     \* the files when each task started
    touched,     \* files the user changed while the task ran
    uncovered,   \* files a command of the task changed without a checkpoint
    replaced     \* what each rewind has replaced and its undo not put back

cpVars == <<onDisk, fileChanges, rewindOf, phase, fileOp, cpCalls, breaks, author, atStart,
            touched, uncovered, replaced>>

Owners == CpTasks \cup CpUndos

\* who: the task.  id: the undo id.  seen: the contents looked at before.
\* todo and done: files.  placed: those written whose row does not say so yet.
NoOp == [kind |-> "none", at |-> "none", who |-> NoCpTask, id |-> NoUndo,
         plan |-> [f \in CpFiles |-> NoContent], seen |-> [f \in CpFiles |-> NoContent],
         todo |-> {}, placed |-> {}, done |-> {}]

FileOp == [kind : {"none", "commit", "command", "rewind", "job rewind", "undo", "review"},
           at : {"none", "journal", "write", "covered", "blind", "record", "keep", "check",
                 "put", "close", "fail", "back", "forget", "drop", "move"},
           who : CpTasks \cup {NoCpTask}, id : CpUndos \cup {NoUndo},
           plan : [CpFiles -> Contents \cup {NoContent}],
           seen : [CpFiles -> Contents \cup {NoContent}],
           todo : SUBSET CpFiles, placed : SUBSET CpFiles, done : SUBSET CpFiles]

\* "user": an edit while nothing worked in the project; "typing": any other edit;
\* "mixed": such an edit by the user, in a file one change of which was undone since.
Authors == CpTasks \cup {"nobody", "user", "typing", "command", "rewind", "undo", "review", "mixed"}

CheckpointTypes ==
    /\ onDisk \in [CpFiles -> Contents]
    /\ fileChanges \in [Owners -> [CpFiles -> Change \cup {NoChange}]]
    /\ rewindOf \in [CpUndos -> CpTasks \cup {NoCpTask}]
    /\ phase \in [CpTasks -> {"new", "running", "over"}]
    /\ fileOp \in FileOp
    /\ cpCalls \in 0 .. MaxCalls /\ breaks \in 0 .. MaxBreaks
    /\ author \in [CpFiles -> Authors]
    /\ atStart \in [CpTasks -> [CpFiles -> Contents]]
    /\ touched \in [CpTasks -> SUBSET CpFiles] /\ uncovered \in [CpTasks -> SUBSET CpFiles]
    /\ replaced \in [CpUndos -> [CpFiles -> Contents \cup {NoContent}]]

NoRows == [f \in CpFiles |-> NoChange]
NoContents == [f \in CpFiles |-> NoContent]

CheckpointsInit ==
    /\ onDisk \in [CpFiles -> {Original, Missing}]
    /\ fileChanges = [o \in Owners |-> NoRows]
    /\ rewindOf = [u \in CpUndos |-> NoCpTask]
    /\ phase = [t \in CpTasks |-> "new"]
    /\ fileOp = NoOp /\ cpCalls = 0 /\ breaks = 0
    /\ author = [f \in CpFiles |-> "nobody"]
    /\ atStart = [t \in CpTasks |-> onDisk]
    /\ touched = [t \in CpTasks |-> {}] /\ uncovered = [t \in CpTasks |-> {}]
    /\ replaced = [u \in CpUndos |-> NoContents]

Running(t) == phase[t] = "running"
Quiet == fileOp.kind = "none"
Resting == Quiet /\ \A t \in CpTasks : ~Running(t)

Has(o, f) == fileChanges[o][f] # NoChange
Unrestored(o) == {f \in CpFiles : Has(o, f) /\ ~fileChanges[o][f].restored}
Knows(row, c) == c \in {row.before, row.after, row.observed}

\* Mutant: a row that was restored stays so.
UpsertStaysRestored(o, f, b, a, s) ==
    fileChanges' = [fileChanges EXCEPT ![o][f] =
        IF @ = NoChange THEN [before |-> b, after |-> a, observed |-> s, restored |-> FALSE]
                        ELSE [@ EXCEPT !.after = a, !.observed = s]]

\* The statement of record and of record_external: the first original is kept.
Upsert(o, f, b, a, s) ==
    fileChanges' = [fileChanges EXCEPT ![o][f] =
        [before |-> IF @ = NoChange THEN b ELSE @.before, after |-> a, observed |-> s,
         restored |-> FALSE]]

TablesOnly == UNCHANGED <<rewindOf, phase, breaks, atStart>>
ButBreaks == UNCHANGED <<rewindOf, phase, atStart>>

\* Something is refused, unless this happens to the file anyway.
Breaks == breaks < MaxBreaks /\ breaks' = breaks + 1

-----------------------------------------------------------------------------
(* A task's turn                                                           *)

CpTaskStarts(t) ==
    /\ Resting /\ phase[t] = "new"
    /\ phase' = [phase EXCEPT ![t] = "running"]
    /\ atStart' = [atStart EXCEPT ![t] = onDisk]
    /\ UNCHANGED <<onDisk, fileChanges, rewindOf, fileOp, cpCalls, breaks, author, touched,
                   uncovered, replaced>>

CpTaskEnds(t) ==
    /\ Quiet /\ Running(t)
    /\ phase' = [phase EXCEPT ![t] = "over"]
    /\ UNCHANGED <<onDisk, fileChanges, rewindOf, fileOp, cpCalls, breaks, author, atStart,
                   touched, uncovered, replaced>>

Begins(op) ==
    /\ fileOp' = op
    /\ UNCHANGED <<onDisk, fileChanges, author, touched, uncovered, replaced>> /\ TablesOnly

\* Snapshots of files.
LookAt(files) == [f \in CpFiles |-> IF f \in files THEN onDisk[f] ELSE NoContent]

Counts == cpCalls < MaxCalls /\ cpCalls' = cpCalls + 1

\* commit_changes, with files as they were when the change was prepared.  Which
\* calls are refused before (unread files, text that is not found) is left open.
CommitBegins(t) ==
    /\ Quiet /\ Running(t) /\ Counts
    /\ \E files \in SUBSET CpFiles \ {{}} :
       \E plan \in [files -> Written \cup {Missing}] :
          /\ \A f \in files : plan[f] = Missing => onDisk[f] # Missing
          /\ Begins([NoOp EXCEPT !.kind = "commit", !.at = "journal", !.who = t,
                                 !.plan = [f \in CpFiles |-> IF f \in files THEN plan[f]
                                                             ELSE NoContent],
                                 !.seen = LookAt(files), !.todo = files])

Planned == {f \in CpFiles : fileOp.plan[f] # NoContent}

\* Every intended change is journalled before any file is touched.
CommitJournals(f) ==
    /\ fileOp.kind = "commit" /\ fileOp.at = "journal" /\ f \in fileOp.todo
    /\ Upsert(fileOp.who, f, fileOp.seen[f], fileOp.plan[f], fileOp.seen[f])
    /\ fileOp' = IF fileOp.todo = {f} THEN [fileOp EXCEPT !.at = "write", !.todo = Planned]
                                      ELSE [fileOp EXCEPT !.todo = @ \ {f}]
    /\ UNCHANGED <<onDisk, cpCalls, author, touched, uncovered, replaced>> /\ TablesOnly

CommitWrites(f) ==
    /\ fileOp.kind = "commit" /\ fileOp.at = "write" /\ f \in fileOp.todo
    /\ onDisk[f] = fileOp.seen[f]
    /\ onDisk' = [onDisk EXCEPT ![f] = fileOp.plan[f]]
    /\ author' = [author EXCEPT ![f] = fileOp.who]
    /\ fileOp' = IF fileOp.todo = {f} THEN NoOp ELSE [fileOp EXCEPT !.todo = @ \ {f}]
    /\ UNCHANGED <<fileChanges, cpCalls, touched, uncovered, replaced>> /\ TablesOnly

\* The task is cancelled between two files, a file is not as it was, or a write fails.
CommitStops ==
    /\ fileOp.kind = "commit"
    /\ (fileOp.at = "write" /\ UNCHANGED breaks) \/ Breaks
    /\ fileOp' = NoOp
    /\ UNCHANGED <<onDisk, fileChanges, cpCalls, author, touched, uncovered, replaced>>
    /\ ButBreaks

-----------------------------------------------------------------------------
(* Shell commands and turns of vendor programs                             *)

\* capture::before: the project as it is; blind if it cannot be captured.
CommandBegins(t) ==
    /\ Quiet /\ Running(t) /\ Counts
    /\ \E at \in {"covered", "blind"} :
          Begins([NoOp EXCEPT !.kind = "command", !.at = at, !.who = t, !.seen = onDisk])

CommandWrites(f) ==
    /\ fileOp.kind = "command" /\ fileOp.at \in {"covered", "blind"}
    /\ \E c \in (Written \cup {Missing}) \ {onDisk[f]} : onDisk' = [onDisk EXCEPT ![f] = c]
    /\ author' = [author EXCEPT ![f] = "command"]
    /\ uncovered' = IF fileOp.at = "covered" THEN uncovered
                    ELSE [uncovered EXCEPT ![fileOp.who] = @ \cup {f}]
    /\ UNCHANGED <<fileChanges, fileOp, cpCalls, touched, replaced>> /\ TablesOnly

Differing == {f \in CpFiles : onDisk[f] # fileOp.seen[f]}

\* capture::after finds what differs.
CommandEnds ==
    /\ fileOp.kind = "command" /\ fileOp.at \in {"covered", "blind"}
    /\ fileOp' = IF fileOp.at = "blind" \/ Differing = {} THEN NoOp
                 ELSE [fileOp EXCEPT !.at = "record", !.todo = Differing]
    /\ UNCHANGED <<onDisk, fileChanges, cpCalls, author, touched, uncovered, replaced>>
    /\ TablesOnly

\* record_external, with the file as it is by now.
CommandRecords(f) ==
    /\ fileOp.kind = "command" /\ fileOp.at = "record" /\ f \in fileOp.todo
    /\ \/ /\ Upsert(fileOp.who, f, fileOp.seen[f], onDisk[f], fileOp.seen[f])
          /\ author' = IF author[f] = "command" THEN [author EXCEPT ![f] = fileOp.who] ELSE author
          /\ UNCHANGED uncovered
       \/ \* it is too large, a link, under a filter, or one too many
          /\ uncovered' = [uncovered EXCEPT ![fileOp.who] = @ \cup {f}]
          /\ UNCHANGED <<fileChanges, author>>
    /\ fileOp' = IF fileOp.todo = {f} THEN NoOp ELSE [fileOp EXCEPT !.todo = @ \ {f}]
    /\ UNCHANGED <<onDisk, cpCalls, touched, replaced>> /\ TablesOnly

\* What a command has changed and nobody has recorded.
LeftBehind ==
    IF fileOp.kind # "command" THEN {}
    ELSE IF fileOp.at = "record" THEN fileOp.todo ELSE Differing

\* The comparison or a row fails; the turn goes on with a warning.
CommandUncovered ==
    /\ Breaks /\ fileOp.kind = "command" /\ fileOp.at \in {"covered", "record"}
    /\ uncovered' = [uncovered EXCEPT ![fileOp.who] = @ \cup LeftBehind]
    /\ fileOp' = NoOp
    /\ UNCHANGED <<onDisk, fileChanges, cpCalls, author, touched, replaced>> /\ ButBreaks

-----------------------------------------------------------------------------
(* checkpoint::restore, which rewinds and their undos share                *)

Restores == {"rewind", "job rewind", "undo"}

\* Whose rows are restored.
Owner == IF fileOp.kind = "undo" THEN fileOp.id ELSE fileOp.who

RowOf(f) == fileChanges[Owner][f]

\* Mutant: a file that was changed since is restored like any other.
RestoreChecksNothing ==
    /\ fileOp.kind \in Restores /\ fileOp.at = "check"
    /\ fileOp' = [fileOp EXCEPT !.at = IF Unrestored(Owner) = {} THEN "close" ELSE "put",
                                !.todo = Unrestored(Owner), !.seen = LookAt(Unrestored(Owner))]
    /\ UNCHANGED <<onDisk, fileChanges, cpCalls, author, touched, uncovered, replaced>>
    /\ TablesOnly

\* No file is written before every file has been looked at.
RestoreChecks ==
    /\ fileOp.kind \in Restores /\ fileOp.at = "check"
    /\ fileOp' = IF \E f \in Unrestored(Owner) : ~Knows(RowOf(f), onDisk[f])
                 THEN [fileOp EXCEPT !.at = "fail"]
                 ELSE [fileOp EXCEPT !.at = IF Unrestored(Owner) = {} THEN "close" ELSE "put",
                                     !.todo = Unrestored(Owner), !.seen = LookAt(Unrestored(Owner))]
    /\ UNCHANGED <<onDisk, fileChanges, cpCalls, author, touched, uncovered, replaced>>
    /\ TablesOnly

\* Only if the file is still what was looked at.
RestorePuts(f) ==
    /\ fileOp.kind \in Restores /\ fileOp.at = "put" /\ fileOp.placed = {}
    /\ f \in fileOp.todo
    /\ IF RowOf(f).before = fileOp.seen[f] THEN UNCHANGED <<onDisk, author>>
       ELSE /\ onDisk[f] = fileOp.seen[f]
            /\ onDisk' = [onDisk EXCEPT ![f] = RowOf(f).before]
            /\ author' = [author EXCEPT ![f] = IF fileOp.kind = "undo" THEN "undo" ELSE "rewind"]
    /\ replaced' = CASE fileOp.kind = "rewind" /\ RowOf(f).before # fileOp.seen[f] ->
                            [replaced EXCEPT ![fileOp.id][f] = onDisk[f]]
                     [] fileOp.kind = "undo" -> [replaced EXCEPT ![fileOp.id][f] = NoContent]
                     [] OTHER -> replaced
    /\ fileOp' = [fileOp EXCEPT !.placed = {f}]
    /\ UNCHANGED <<fileChanges, cpCalls, touched, uncovered>> /\ TablesOnly

RestoreMarks(f) ==
    /\ fileOp.kind \in Restores /\ fileOp.at = "put" /\ f \in fileOp.placed
    /\ fileChanges' = [fileChanges EXCEPT ![Owner][f] =
          IF @ = NoChange THEN @ ELSE [@ EXCEPT !.restored = TRUE]]
    /\ fileOp' = [fileOp EXCEPT !.placed = {}, !.todo = @ \ {f}, !.done = @ \cup {f},
                                !.at = IF fileOp.todo = {f} THEN "close" ELSE "put"]
    /\ UNCHANGED <<onDisk, cpCalls, author, touched, uncovered, replaced>> /\ TablesOnly

\* A file has changed since the look at it, or a write fails.
RestoreFails ==
    /\ fileOp.kind \in Restores /\ fileOp.at = "put"
    /\ \/ /\ \E f \in fileOp.todo \ fileOp.placed : onDisk[f] # fileOp.seen[f]
          /\ UNCHANGED breaks
       \/ Breaks
    /\ fileOp' = [fileOp EXCEPT !.at = "fail"]
    /\ UNCHANGED <<onDisk, fileChanges, cpCalls, author, touched, uncovered, replaced>>
    /\ ButBreaks

-----------------------------------------------------------------------------
(* Rewinds and undos                                                       *)

Unused(u) == rewindOf[u] = NoCpTask /\ fileChanges[u] = NoRows /\ replaced[u] = NoContents

\* review.rs rewind of a finished task: what is there now is recorded first, as the
\* change of the undo id.
RewindBegins(t, u) ==
    /\ Resting /\ phase[t] = "over" /\ Unused(u) /\ UNCHANGED cpCalls
    /\ Begins([NoOp EXCEPT !.kind = "rewind", !.who = t, !.id = u, !.todo = Unrestored(t),
                           !.at = IF Unrestored(t) = {} THEN "check" ELSE "keep"])

RewindKeeps(f) ==
    /\ fileOp.kind = "rewind" /\ fileOp.at = "keep" /\ f \in fileOp.todo
    /\ LET row == fileChanges[fileOp.who][f] IN
       IF onDisk[f] = row.before THEN UNCHANGED fileChanges
       ELSE Upsert(fileOp.id, f, onDisk[f], row.before, onDisk[f])
    /\ fileOp' = [fileOp EXCEPT !.todo = @ \ {f},
                                !.at = IF fileOp.todo = {f} THEN "check" ELSE "keep"]
    /\ UNCHANGED <<onDisk, cpCalls, author, touched, uncovered, replaced>> /\ TablesOnly

Forgets(u) == fileChanges' = [fileChanges EXCEPT ![u] = NoRows]

\* The rewind can be undone from here on, if it has replaced something.
RewindCloses ==
    /\ fileOp.kind = "rewind" /\ fileOp.at = "close"
    /\ IF fileChanges[fileOp.id] # NoRows /\ fileOp.done # {}
       THEN /\ rewindOf' = [rewindOf EXCEPT ![fileOp.id] = fileOp.who]
            /\ UNCHANGED fileChanges
       ELSE Forgets(fileOp.id) /\ UNCHANGED rewindOf
    /\ fileOp' = NoOp
    /\ UNCHANGED <<onDisk, phase, cpCalls, breaks, author, atStart, touched, uncovered, replaced>>

RewindGivesUp ==
    /\ fileOp.kind = "rewind" /\ fileOp.at = "fail"
    /\ Forgets(fileOp.id)
    /\ fileOp' = NoOp
    /\ UNCHANGED <<onDisk, cpCalls, author, touched, uncovered, replaced>> /\ TablesOnly

\* Engine::rewind_job, also of a task that is parked in a pause.  It keeps no undo.
JobRewindBegins(t) ==
    /\ Quiet /\ phase[t] # "new" /\ (Running(t) \/ Resting) /\ UNCHANGED cpCalls
    /\ Begins([NoOp EXCEPT !.kind = "job rewind", !.at = "check", !.who = t])

JobRewindReturns ==
    /\ fileOp.kind = "job rewind" /\ fileOp.at \in {"close", "fail"}
    /\ fileOp' = NoOp
    /\ UNCHANGED <<onDisk, fileChanges, cpCalls, author, touched, uncovered, replaced>>
    /\ TablesOnly

\* undo_rewind restores the rows of the undo id.
UndoBegins(u) ==
    /\ Resting /\ rewindOf[u] # NoCpTask /\ UNCHANGED cpCalls
    /\ Begins([NoOp EXCEPT !.kind = "undo", !.at = "check", !.who = rewindOf[u], !.id = u])

UndoRestored ==
    /\ fileOp.kind = "undo" /\ fileOp.at = "close"
    /\ fileOp' = [fileOp EXCEPT !.todo = fileOp.done,
                                !.at = IF fileOp.done = {} THEN "forget" ELSE "back"]
    /\ UNCHANGED <<onDisk, fileChanges, cpCalls, author, touched, uncovered, replaced>>
    /\ TablesOnly

\* The task can be rewound again: its row takes the file as it is by now.
UndoMovesBack(f) ==
    /\ fileOp.kind = "undo" /\ fileOp.at = "back" /\ f \in fileOp.todo
    /\ fileChanges' = [fileChanges EXCEPT ![fileOp.who][f] =
          IF @ = NoChange THEN @
          ELSE [@ EXCEPT !.restored = FALSE, !.after = onDisk[f], !.observed = onDisk[f]]]
    /\ author' = IF author[f] = "undo" THEN [author EXCEPT ![f] = fileOp.who] ELSE author
    /\ fileOp' = [fileOp EXCEPT !.todo = @ \ {f},
                                !.at = IF fileOp.todo = {f} THEN "forget" ELSE "back"]
    /\ UNCHANGED <<onDisk, cpCalls, touched, uncovered, replaced>> /\ TablesOnly

UndoForgets ==
    /\ fileOp.kind = "undo" /\ fileOp.at = "forget"
    /\ Forgets(fileOp.id)
    /\ fileOp' = [fileOp EXCEPT !.at = "drop"]
    /\ UNCHANGED <<onDisk, cpCalls, author, touched, uncovered, replaced>> /\ TablesOnly

UndoEnds ==
    /\ fileOp.kind = "undo" /\ fileOp.at \in {"drop", "fail"}
    /\ rewindOf' = IF fileOp.at = "fail" THEN rewindOf
                   ELSE [rewindOf EXCEPT ![fileOp.id] = NoCpTask]
    /\ fileOp' = NoOp
    /\ UNCHANGED <<onDisk, fileChanges, phase, cpCalls, breaks, author, atStart, touched,
                   uncovered, replaced>>

Kept(o, f) ==
    IF Has(o, f) THEN {fileChanges[o][f].before, fileChanges[o][f].after, fileChanges[o][f].observed}
                 ELSE {}

\* The contents of these files, and all that was kept.
UsedIn(files) ==
    {onDisk[f] : f \in files}
        \cup UNION {Kept(o, f) : o \in Owners, f \in CpFiles}
        \cup UNION {{fileOp.seen[f], fileOp.plan[f]} : f \in CpFiles}
        \cup {atStart[t][f] : t \in CpTasks, f \in CpFiles}
        \cup {replaced[u][f] : u \in CpUndos, f \in CpFiles}

\* Undoing one change of a file the user has edited keeps his edits: a content that
\* is nowhere else (one value may stand for it and for the content it replaces, if that
\* is nowhere else).  Any other result has nothing of his.
ReviewResults(t, f) ==
    {[content |-> c, author |-> "review"] : c \in Written \cup {fileChanges[t][f].before}}
        \cup {[content |-> c, author |-> IF author[f] \in {"user", "mixed"} THEN "mixed" ELSE "review"] :
                  c \in IF onDisk[f] \in UserTexts THEN UserTexts \ UsedIn(CpFiles \ {f}) ELSE {}}

\* review.rs undo of a file or of one change in it: the file first, ...
ReviewWrites(t, f) ==
    /\ Resting /\ phase[t] = "over" /\ Has(t, f) /\ Counts
    /\ \E r \in ReviewResults(t, f) :
          /\ onDisk' = [onDisk EXCEPT ![f] = r.content]
          /\ author' = [author EXCEPT ![f] = r.author]
          /\ fileOp' = [NoOp EXCEPT !.kind = "review", !.at = "move", !.who = t,
                                    !.seen = [NoContents EXCEPT ![f] = r.content], !.todo = {f}]
    /\ UNCHANGED <<fileChanges, touched, uncovered, replaced>> /\ TablesOnly

\* ... then its row, which takes the result for the task's, whoever wrote it.
ReviewMoves(f) ==
    /\ fileOp.kind = "review" /\ f \in fileOp.todo
    /\ fileChanges' = [fileChanges EXCEPT ![fileOp.who][f] =
          IF @ = NoChange THEN @
          ELSE [@ EXCEPT !.after = fileOp.seen[f], !.observed = fileOp.seen[f]]]
    /\ fileOp' = NoOp
    /\ UNCHANGED <<onDisk, cpCalls, author, touched, uncovered, replaced>> /\ TablesOnly

\* A statement of an operation fails and ends it, without the steps that remain.
OperationBreaks ==
    /\ Breaks /\ \/ fileOp.kind = "rewind" /\ fileOp.at \in {"keep", "close", "fail"}
                 \/ fileOp.kind = "undo" /\ fileOp.at \in {"back", "forget", "drop"}
                 \/ fileOp.kind = "review"
    /\ fileOp' = NoOp
    /\ UNCHANGED <<onDisk, fileChanges, cpCalls, author, touched, uncovered, replaced>>
    /\ ButBreaks

-----------------------------------------------------------------------------
(* The user's editor, and the end of the program                           *)

\* Each edit makes a content that is nowhere else.
UserEdits(f) ==
    /\ \E e \in UserTexts \ UsedIn(CpFiles) : onDisk' = [onDisk EXCEPT ![f] = e]
    /\ author' = [author EXCEPT ![f] = IF Resting THEN "user" ELSE "typing"]
    /\ touched' = [t \in CpTasks |-> touched[t] \cup (IF Running(t) THEN {f} ELSE {})]
    /\ UNCHANGED <<fileChanges, fileOp, cpCalls, uncovered, replaced>> /\ TablesOnly

\* The turn is over with the program; what was written stays.
CpCrash ==
    /\ ~Resting /\ Breaks
    /\ fileOp' = NoOp
    /\ phase' = [t \in CpTasks |-> IF Running(t) THEN "over" ELSE phase[t]]
    /\ uncovered' = IF LeftBehind = {} THEN uncovered
                    ELSE [uncovered EXCEPT ![fileOp.who] = @ \cup LeftBehind]
    /\ UNCHANGED <<onDisk, fileChanges, rewindOf, cpCalls, author, atStart, touched, replaced>>

CheckpointsNext ==
    \/ \E t \in CpTasks :
          \/ CpTaskStarts(t) \/ CpTaskEnds(t) \/ CommitBegins(t) \/ CommandBegins(t)
          \/ JobRewindBegins(t)
          \/ \E u \in CpUndos : RewindBegins(t, u)
          \/ \E f \in CpFiles : ReviewWrites(t, f)
    \/ \E f \in CpFiles :
          \/ CommitJournals(f) \/ CommitWrites(f) \/ CommandWrites(f) \/ CommandRecords(f)
          \/ RestorePuts(f) \/ RestoreMarks(f) \/ RewindKeeps(f) \/ UndoMovesBack(f)
          \/ ReviewMoves(f) \/ UserEdits(f)
    \/ \E u \in CpUndos : UndoBegins(u)
    \/ CommitStops \/ CommandEnds \/ CommandUncovered
    \/ RestoreChecks \/ RestoreFails
    \/ RewindCloses \/ RewindGivesUp \/ JobRewindReturns
    \/ UndoRestored \/ UndoForgets \/ UndoEnds \/ OperationBreaks
    \/ CpCrash

CheckpointsSpec == CheckpointsInit /\ [][CheckpointsNext]_cpVars

-----------------------------------------------------------------------------
(* What must hold                                                          *)

\* What a task has put into a file, a rewind recognises and takes back: the row says
\* so before the file is written, also after a crash or a task that stopped half way
\* (checkpoint.rs record).
TaskIsCovered ==
    \A t \in CpTasks, f \in CpFiles :
        author[f] = t =>
            /\ Has(t, f) /\ Knows(fileChanges[t][f], onDisk[f])
            /\ fileChanges[t][f].restored => onDisk[f] = fileChanges[t][f].before

\* What a rewind puts back is the file as it was when the task started, unless the
\* user or a command without a checkpoint changed it meanwhile (review.rs baseline).
FirstIsKept ==
    \A t \in CpTasks, f \in CpFiles :
        Has(t, f) /\ f \notin touched[t] \cup uncovered[t] =>
            fileChanges[t][f].before = atStart[t][f]

\* As long as a rewind can be undone, all that it replaced is there to be put back,
\* however often the undo failed (review.rs undo_rewind).
UndoKeepsAll ==
    \A u \in CpUndos, f \in CpFiles :
        rewindOf[u] # NoCpTask /\ replaced[u][f] # NoContent =>
            Has(u, f) /\ fileChanges[u][f].before = replaced[u][f]

\* The journal of the changes agrees with the files.
CheckpointsAgree == TaskIsCovered /\ FirstIsKept /\ UndoKeepsAll

\* What the user wrote while nothing worked in the project, no rewind, undo of one or
\* rewind of a paused task replaces: it refuses (docs/USER_GUIDE.md:214), unless a
\* change of the edited file was undone since (RewindRefuses).
EditsSurvive ==
    [][\A f \in CpFiles :
          author[f] = "user" /\ fileOp.kind \in Restores =>
              onDisk'[f] = onDisk[f] \/ author'[f] = "typing"]_cpVars

\* What the document says and the code does not do: a rewind "refuses, and changes
\* nothing, if a file was edited again after the task" (docs/USER_GUIDE.md:214), also
\* if one change of the edited file was undone in the review since.
RewindRefuses ==
    [][\A f \in CpFiles :
          author[f] \in {"user", "mixed"} /\ fileOp.kind = "rewind" =>
              onDisk'[f] = onDisk[f] \/ author'[f] = "typing"]_cpVars

-----------------------------------------------------------------------------
(* The inductive invariant                                                 *)

\* One task runs at a time, and one operation, for a task that has started.
OpKnown ==
    /\ \A t, v \in CpTasks : Running(t) /\ Running(v) => t = v
    /\ ~Quiet => /\ fileOp.who \in CpTasks /\ phase[fileOp.who] # "new"
                 /\ \A t \in CpTasks : Running(t) => t = fileOp.who
    /\ fileOp.kind \in {"commit", "command"} => Running(fileOp.who)
    /\ fileOp.kind \in {"rewind", "undo", "review"} => ~Running(fileOp.who)
    /\ fileOp.kind = "commit" => fileOp.at \in {"journal", "write"}
    /\ fileOp.kind = "command" => fileOp.at \in {"covered", "blind", "record"}
    /\ fileOp.kind = "rewind" =>
          /\ fileOp.at \in {"keep", "check", "put", "close", "fail"}
          /\ fileOp.id \in CpUndos /\ rewindOf[fileOp.id] = NoCpTask
    /\ fileOp.kind = "job rewind" => fileOp.at \in {"check", "put", "close", "fail"}
    /\ fileOp.kind = "undo" =>
          /\ fileOp.at \in {"check", "put", "close", "fail", "back", "forget", "drop"}
          /\ fileOp.id \in CpUndos /\ rewindOf[fileOp.id] = fileOp.who
    /\ \A t \in CpTasks, f \in CpFiles : phase[t] = "new" => ~Has(t, f)

\* The files an operation has still to do are such that it can.
OpFiles ==
    /\ fileOp.kind = "commit" =>
          fileOp.todo \subseteq Planned /\ \A f \in Planned : fileOp.seen[f] \in Contents
    /\ fileOp.kind = "command" => \A f \in CpFiles : fileOp.seen[f] \in Contents
    /\ fileOp.kind = "rewind" /\ fileOp.at = "keep" => fileOp.todo \subseteq Unrestored(fileOp.who)
    /\ fileOp.kind \in Restores /\ fileOp.at \in {"keep", "check"} => fileOp.placed = {}
    /\ fileOp.kind \in Restores /\ fileOp.at = "put" =>
          /\ fileOp.placed \subseteq fileOp.todo /\ \A f, g \in fileOp.placed : f = g
          /\ \A f \in fileOp.todo : /\ Has(Owner, f) /\ fileOp.seen[f] \in Contents
                                    /\ Knows(RowOf(f), fileOp.seen[f])
    /\ fileOp.kind = "undo" =>
          /\ fileOp.at \in {"put", "close"} => \A f \in fileOp.done : Has(fileOp.who, f)
          /\ fileOp.at = "check" => fileOp.done = {}
          /\ fileOp.at = "back" => \A f \in fileOp.todo : Has(fileOp.who, f)
    /\ fileOp.kind = "review" =>
          \A f \in fileOp.todo : Has(fileOp.who, f) /\ fileOp.seen[f] \in Contents

\* What a commit is about to write is in the row.
Journalled ==
    fileOp.kind = "commit" =>
        \A f \in IF fileOp.at = "journal" THEN Planned \ fileOp.todo ELSE fileOp.todo :
            /\ Has(fileOp.who, f) /\ fileChanges[fileOp.who][f].after = fileOp.plan[f]
            /\ ~fileChanges[fileOp.who][f].restored

\* The files an operation takes to be as it has seen them.
LookedAt ==
    CASE fileOp.kind = "commit" /\ fileOp.at = "journal" -> fileOp.todo
      [] fileOp.kind = "command" /\ fileOp.at # "record" -> CpFiles
      [] fileOp.kind \in Restores /\ fileOp.at = "put" -> fileOp.todo \ fileOp.placed
      [] OTHER -> {}

\* The contents of tasks, and of a user who found the project at rest.
Settled(f) == author[f] \in CpTasks \cup {"user"}

\* They are so, but for what the user types meanwhile.
Fresh ==
    /\ \A f \in LookedAt : Settled(f) => onDisk[f] = fileOp.seen[f]
    /\ fileOp.kind \in Restores /\ fileOp.at = "put" =>
          \A f \in fileOp.placed : author[f] \in CpTasks => onDisk[f] = RowOf(f).before
    /\ fileOp.kind = "review" \/ (fileOp.kind = "command" /\ fileOp.at = "record") =>
          \A f \in fileOp.todo : ~Settled(f)

\* A file without a row is as it was when the task started, and if a command has
\* changed it, it was so before that.
UnchangedYet ==
    \A t \in CpTasks, f \in CpFiles :
        Running(t) /\ ~Has(t, f) /\ f \notin touched[t] \cup uncovered[t] =>
            /\ fileOp.kind = "command" \/ (fileOp.kind = "commit" /\ f \in Planned) =>
                  fileOp.seen[f] = atStart[t][f]
            /\ \/ fileOp.kind # "command" \/ fileOp.at = "blind"
               \/ fileOp.at = "record" /\ f \notin fileOp.todo
               => onDisk[f] = atStart[t][f]

\* What a rewind, finished or not, has replaced is in a row that was not put back.
ReplacedKept ==
    \A u \in CpUndos :
        rewindOf[u] # NoCpTask \/ (fileOp.kind = "rewind" /\ fileOp.id = u) =>
            \A f \in CpFiles :
                replaced[u][f] # NoContent =>
                    /\ Has(u, f) /\ fileChanges[u][f].before = replaced[u][f]
                    /\ ~fileChanges[u][f].restored

\* A rewind keeps only what it changes, in rows the task has.
UndoRows ==
    /\ \A u \in CpUndos : rewindOf[u] # NoCpTask => phase[rewindOf[u]] # "new"
    /\ \A u \in CpUndos, f \in CpFiles :
          rewindOf[u] # NoCpTask /\ Has(u, f) => Has(rewindOf[u], f)
    /\ fileOp.kind = "rewind" =>
          /\ \A f \in CpFiles : Has(fileOp.id, f) =>
                Has(fileOp.who, f) /\ ~fileChanges[fileOp.id][f].restored
          /\ fileOp.at = "keep" => \A f \in fileOp.todo : ~Has(fileOp.id, f)

\* A rewind finds in the row of its id what it replaces, or it refuses.
KeepsWhatItReplaces ==
    fileOp.kind = "rewind" =>
        /\ \A f \in CASE fileOp.at = "keep" -> Unrestored(fileOp.who) \ fileOp.todo
                      [] fileOp.at = "check" -> Unrestored(fileOp.who)
                      [] OTHER -> {} :
              \/ onDisk[f] = fileChanges[fileOp.who][f].before
              \/ Has(fileOp.id, f) /\ fileChanges[fileOp.id][f].before = onDisk[f]
              \/ ~Knows(fileChanges[fileOp.who][f], onDisk[f])
        /\ fileOp.at = "put" =>
              \A f \in fileOp.todo :
                  \/ fileOp.seen[f] = fileChanges[fileOp.who][f].before
                  \/ Has(fileOp.id, f) /\ fileChanges[fileOp.id][f].before = fileOp.seen[f]

\* An undo has put back what its rows say, when it forgets them.
UndoPutsAll ==
    fileOp.kind = "undo" =>
        /\ fileOp.at = "put" => /\ Unrestored(fileOp.id) \subseteq fileOp.todo
                                /\ \A f \in fileOp.placed : replaced[fileOp.id][f] = NoContent
        /\ fileOp.at \in {"close", "back", "forget", "drop"} =>
              \A f \in CpFiles : replaced[fileOp.id][f] = NoContent

\* No row takes what the user wrote for what a task wrote, until a change of the file is
\* undone: a row that knows it has it as the content to put back.
EditsKnown ==
    \A f \in CpFiles : author[f] = "user" =>
        /\ \A t \in CpTasks : Has(t, f) /\ (Running(t) \/ Knows(fileChanges[t][f], onDisk[f])) =>
              fileChanges[t][f].before = onDisk[f]
        /\ \A u \in CpUndos : rewindOf[u] # NoCpTask /\ Has(u, f) =>
              ~Knows(fileChanges[u][f], onDisk[f])
        /\ fileOp.kind = "rewind" /\ fileOp.at # "fail" /\ Has(fileOp.id, f) =>
              /\ fileOp.at \in {"keep", "check"} /\ f \in Unrestored(fileOp.who)
              /\ ~Knows(fileChanges[fileOp.who][f], onDisk[f])
        /\ fileOp.kind = "undo" => f \notin fileOp.todo \cup fileOp.done

CheckpointsInv ==
    /\ CheckpointTypes /\ OpKnown /\ OpFiles
    /\ Journalled /\ Fresh /\ TaskIsCovered
    /\ UnchangedYet /\ FirstIsKept
    /\ ReplacedKept /\ UndoRows /\ KeepsWhatItReplaces /\ UndoPutsAll
    /\ EditsKnown
=============================================================================
