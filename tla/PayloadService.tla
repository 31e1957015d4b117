--------------------------- MODULE PayloadService ---------------------------
(***************************************************************************)
(* Payload offload: PayloadService::WritePayload with the payload files,   *)
(* the memory_payloads rows and the detached threads that sweep old        *)
(* temporary files.                                                        *)
(*                                                                         *)
(* Writers of one runtime serialise on the service's mutex; the sweepers   *)
(* take no lock, and another runtime on the same data path shares files    *)
(* and rows only.  Every file operation and the row insert are steps of    *)
(* their own and each may fail.  Refs and temporary names are drawn at     *)
(* random: any name may come up, or, without MayCollide, any new one.      *)
(***************************************************************************)
EXTENDS Integers, FiniteSets

CONSTANTS Runtimes, Threads, RuntimeOf, NoThread,
          Refs, TempNames,
          Large,          \* contents of at least offloadThresholdChars
          Small,          \* a content that stays inline (or offload is off)
          Partial,        \* what a temporary file holds while it is written
          NoFile, NoName,
          MayCollide

ASSUME WritersAssumption == NoThread \notin Threads /\ RuntimeOf \in [Threads -> Runtimes]
ASSUME ContentsAssumption ==
    /\ Small \notin Large /\ Partial \notin Large /\ NoFile \notin Large
    /\ Small # NoFile /\ Partial # NoFile
ASSUME NamesAssumption == NoName \notin Refs /\ NoName \notin TempNames
ASSUME CollideAssumption == MayCollide \in BOOLEAN

TempFile == [content : Large \cup {Partial}, old : BOOLEAN]
Working == {"check", "open", "write", "rename", "save", "undo"}

ASSUME TempFileAssumption == NoFile \notin TempFile

VARIABLES
    files,          \* ref -> content of <ref>.txt
    temps,          \* temporary name -> content, and whether it is past the 24 h TTL
    rows,           \* ref -> the content its memory_payloads row describes
    storeUp,        \* per runtime: there is a store
    mutex,          \* per runtime: the writer inside WritePayload
    pc, content, ref, tempName,    \* per writer
    result,         \* per writer: what its last WritePayload returned
    scheduled,      \* per runtime: a sweeper was started and has not listed the directory
    sweep,          \* per runtime: what its sweepers know of each temporary name
    acked,          \* history: (ref, content) pairs returned as offloaded
    abandoned,      \* history: refs a dying process was working on
    drawn           \* history: names drawn so far (kept when names are distinct)

disk == <<files, temps, rows>>
writer == <<mutex, pc, content, ref, tempName, result>>
history == <<acked, abandoned, drawn>>
sweeper == <<scheduled, sweep>>
vars == <<disk, storeUp, writer, sweeper, history>>

Init ==
    /\ files = [f \in Refs |-> NoFile]
    /\ temps = [n \in TempNames |-> NoFile]
    /\ rows = [f \in Refs |-> NoFile]
    /\ storeUp \in [Runtimes -> BOOLEAN]
    /\ mutex = [r \in Runtimes |-> NoThread]
    /\ pc = [t \in Threads |-> "idle"]
    /\ content = [t \in Threads |-> Small]
    /\ ref = [t \in Threads |-> NoName]
    /\ tempName = [t \in Threads |-> NoName]
    /\ result = [t \in Threads |-> "none"]
    /\ scheduled = [r \in Runtimes |-> FALSE]
    /\ sweep = [r \in Runtimes |-> [n \in TempNames |-> "done"]]
    /\ acked = {}
    /\ abandoned = {}
    /\ drawn = {}

-----------------------------------------------------------------------------
Drawable(name) == MayCollide \/ name \notin drawn

Draw(name) == drawn' = IF MayCollide THEN drawn ELSE drawn \cup {name}

\* The call returns and its lock_guard with it.
Return(t, outcome) ==
    /\ mutex' = [mutex EXCEPT ![RuntimeOf[t]] = NoThread]
    /\ pc' = [pc EXCEPT ![t] = "idle"]
    /\ content' = [content EXCEPT ![t] = Small]
    /\ ref' = [ref EXCEPT ![t] = NoName]
    /\ tempName' = [tempName EXCEPT ![t] = NoName]
    /\ result' = [result EXCEPT ![t] = outcome]

Goto(t, place) ==
    /\ pc' = [pc EXCEPT ![t] = place]
    /\ UNCHANGED <<mutex, content, ref, result>>

\* Offload disabled, an empty or a short content: it stays inline.
WriteInline(t) ==
    /\ pc[t] = "idle" /\ mutex[RuntimeOf[t]] = NoThread
    /\ Return(t, "inline")
    /\ UNCHANGED <<disk, storeUp, sweeper, history>>

WriteWithoutStore(t) ==
    /\ pc[t] = "idle" /\ mutex[RuntimeOf[t]] = NoThread
    /\ ~storeUp[RuntimeOf[t]]
    /\ Return(t, "error")
    /\ UNCHANGED <<disk, storeUp, sweeper, history>>

\* Mutant: nobody sweeps.
ScheduleNothing(r) == UNCHANGED <<scheduled, sweep>>

\* Every offload starts a sweeper before it draws its ref.
ScheduleTempFileCleanup(r) == scheduled' = [scheduled EXCEPT ![r] = TRUE] /\ UNCHANGED sweep

WritePayload(t, c, f) ==
    /\ pc[t] = "idle" /\ mutex[RuntimeOf[t]] = NoThread
    /\ storeUp[RuntimeOf[t]]
    /\ Drawable(f)
    /\ ScheduleTempFileCleanup(RuntimeOf[t])
    /\ mutex' = [mutex EXCEPT ![RuntimeOf[t]] = t]
    /\ pc' = [pc EXCEPT ![t] = "check"]
    /\ content' = [content EXCEPT ![t] = c]
    /\ ref' = [ref EXCEPT ![t] = f]
    /\ result' = [result EXCEPT ![t] = "none"]
    /\ Draw(f)
    /\ UNCHANGED <<disk, storeUp, tempName, acked, abandoned>>

-----------------------------------------------------------------------------
(* WritePayloadFileAtomically, step by step.                               *)

\* Mutant: no check that the payload file exists.
CheckTempOnly(t, n) ==
    /\ pc[t] = "check"
    /\ Drawable(n)
    /\ temps[n] = NoFile
    /\ tempName' = [tempName EXCEPT ![t] = n]
    /\ Goto(t, "open")
    /\ Draw(n)
    /\ UNCHANGED <<disk, storeUp, sweeper, acked, abandoned>>

CheckNames(t, n) ==
    /\ pc[t] = "check"
    /\ Drawable(n)
    /\ files[ref[t]] = NoFile /\ temps[n] = NoFile
    /\ tempName' = [tempName EXCEPT ![t] = n]
    /\ Goto(t, "open")
    /\ Draw(n)
    /\ UNCHANGED <<disk, storeUp, sweeper, acked, abandoned>>

OpenTemp(t) ==
    /\ pc[t] = "open"
    /\ temps' = [temps EXCEPT ![tempName[t]] = [content |-> Partial, old |-> FALSE]]
    /\ Goto(t, "write")
    /\ UNCHANGED <<files, rows, storeUp, tempName, sweeper, history>>

\* A file that a sweeper has unlinked takes the bytes and stays unlinked.
WriteTemp(t) ==
    /\ pc[t] = "write"
    /\ temps' = [temps EXCEPT ![tempName[t]] =
                    IF @ = NoFile THEN NoFile ELSE [content |-> content[t], old |-> FALSE]]
    /\ Goto(t, "rename")
    /\ UNCHANGED <<files, rows, storeUp, tempName, sweeper, history>>

\* rename(2) replaces an existing target.
Rename(t) ==
    /\ pc[t] = "rename"
    /\ temps[tempName[t]] # NoFile
    /\ files' = [files EXCEPT ![ref[t]] = temps[tempName[t]].content]
    /\ temps' = [temps EXCEPT ![tempName[t]] = NoFile]
    /\ Goto(t, "save")
    /\ UNCHANGED <<rows, storeUp, tempName, sweeper, history>>

\* A name that exists, mkdir, open, write or rename failed.  After a failed
\* write or rename the temporary file is removed, if that succeeds.
FileStepFails(t) ==
    /\ pc[t] \in {"check", "open", "write", "rename"}
    /\ \/ UNCHANGED temps
       \/ /\ pc[t] \in {"write", "rename"}
          /\ temps' = [temps EXCEPT ![tempName[t]] = NoFile]
    /\ Return(t, "error")
    /\ UNCHANGED <<files, rows, storeUp, sweeper, history>>

-----------------------------------------------------------------------------
(* The metadata row, after the file is in place.                           *)

\* Mutant: the row is bound to the wrong value.
SavePayloadWrongBind(t) ==
    /\ pc[t] = "save"
    /\ rows' = [rows EXCEPT ![ref[t]] = ref[t]]
    /\ acked' = acked \cup {<<ref[t], content[t]>>}
    /\ Return(t, "offloaded")
    /\ UNCHANGED <<files, temps, storeUp, sweeper, abandoned, drawn>>

SavePayload(t) ==
    /\ pc[t] = "save"
    /\ rows' = [rows EXCEPT ![ref[t]] = content[t]]
    /\ acked' = acked \cup {<<ref[t], content[t]>>}
    /\ Return(t, "offloaded")
    /\ UNCHANGED <<files, temps, storeUp, sweeper, abandoned, drawn>>

\* Mutant: the file of a failed row is not removed.
SavePayloadFailsQuietly(t) ==
    /\ pc[t] = "save"
    /\ Return(t, "error")
    /\ UNCHANGED <<disk, storeUp, sweeper, history>>

SavePayloadFails(t) ==
    /\ pc[t] = "save"
    /\ Goto(t, "undo")
    /\ UNCHANGED <<disk, storeUp, tempName, sweeper, history>>

RemoveFile(t) ==
    /\ pc[t] = "undo"
    /\ files' = [files EXCEPT ![ref[t]] = NoFile]
    /\ Return(t, "error")
    /\ UNCHANGED <<temps, rows, storeUp, sweeper, history>>

\* The error then names the orphan file that stays.
RemoveFileFails(t) ==
    /\ pc[t] = "undo"
    /\ Return(t, "error")
    /\ abandoned' = abandoned \cup {ref[t]}
    /\ UNCHANGED <<disk, storeUp, sweeper, acked, drawn>>

-----------------------------------------------------------------------------
(* The sweepers: the listing, which an error cuts short and new files may  *)
(* miss, and for each entry IsExpired and remove are steps of their own.   *)

SweepList(r, names) ==
    /\ scheduled[r]
    /\ scheduled' = [scheduled EXCEPT ![r] = FALSE]
    /\ sweep' = [sweep EXCEPT ![r] =
                    [n \in TempNames |->
                        IF n \in names /\ temps[n] # NoFile /\ @[n] = "done" THEN "listed" ELSE @[n]]]
    /\ UNCHANGED <<disk, storeUp, writer, history>>

SweepCheck(r, n) ==
    /\ sweep[r][n] = "listed"
    /\ sweep' = [sweep EXCEPT ![r][n] =
                    IF temps[n] # NoFile /\ temps[n].old THEN "expired" ELSE "done"]
    /\ UNCHANGED <<disk, storeUp, writer, scheduled, history>>

SweepRemove(r, n) ==
    /\ sweep[r][n] = "expired"
    /\ temps' = [temps EXCEPT ![n] = NoFile]
    /\ sweep' = [sweep EXCEPT ![r][n] = "done"]
    /\ UNCHANGED <<files, rows, storeUp, writer, scheduled, history>>

SweepRemoveFails(r, n) ==
    /\ sweep[r][n] = "expired"
    /\ sweep' = [sweep EXCEPT ![r][n] = "done"]
    /\ UNCHANGED <<disk, storeUp, writer, scheduled, history>>

\* 24 hours pass since the last write to a temporary file.
Age(n) ==
    /\ temps[n] # NoFile /\ ~temps[n].old
    /\ temps' = [temps EXCEPT ![n] = [content |-> @.content, old |-> TRUE]]
    /\ UNCHANGED <<files, rows, storeUp, writer, sweeper, history>>

\* The process of r dies with its writers and sweepers and comes back.
Crash(r) ==
    /\ storeUp' \in {u \in [Runtimes -> BOOLEAN] : \A q \in Runtimes \ {r} : u[q] = storeUp[q]}
    /\ mutex' = [mutex EXCEPT ![r] = NoThread]
    /\ pc' = [t \in Threads |-> IF RuntimeOf[t] = r THEN "idle" ELSE pc[t]]
    /\ content' = [t \in Threads |-> IF RuntimeOf[t] = r THEN Small ELSE content[t]]
    /\ ref' = [t \in Threads |-> IF RuntimeOf[t] = r THEN NoName ELSE ref[t]]
    /\ tempName' = [t \in Threads |-> IF RuntimeOf[t] = r THEN NoName ELSE tempName[t]]
    /\ result' = [t \in Threads |-> IF RuntimeOf[t] = r THEN "none" ELSE result[t]]
    /\ scheduled' = [scheduled EXCEPT ![r] = FALSE]
    /\ sweep' = [sweep EXCEPT ![r] = [n \in TempNames |-> "done"]]
    /\ abandoned' = abandoned \cup {ref[t] : t \in {u \in Threads : RuntimeOf[u] = r /\ pc[u] \in {"save", "undo"}}}
    /\ UNCHANGED <<disk, acked, drawn>>

-----------------------------------------------------------------------------
Offload(t) == \E c \in Large, f \in Refs : WritePayload(t, c, f)

Proceed(t) ==
    \/ \E n \in TempNames : CheckNames(t, n)
    \/ OpenTemp(t) \/ WriteTemp(t) \/ Rename(t) \/ FileStepFails(t)
    \/ SavePayload(t) \/ SavePayloadFails(t)
    \/ RemoveFile(t) \/ RemoveFileFails(t)

Next ==
    \/ \E t \in Threads : WriteInline(t) \/ WriteWithoutStore(t) \/ Offload(t) \/ Proceed(t)
    \/ \E r \in Runtimes, names \in SUBSET TempNames : SweepList(r, names)
    \/ \E r \in Runtimes, n \in TempNames :
          SweepCheck(r, n) \/ SweepRemove(r, n) \/ SweepRemoveFails(r, n)
    \/ \E n \in TempNames : Age(n)
    \/ \E r \in Runtimes : Crash(r)

Spec == Init /\ [][Next]_vars

\* Writers and sweepers are scheduled, time passes, the host goes on
\* offloading, and listing the directory and removing an old file do not
\* fail every time.
FairSpec ==
    /\ Spec
    /\ \A t \in Threads : WF_vars(Proceed(t)) /\ SF_vars(Offload(t))
    /\ \A n \in TempNames : WF_vars(Age(n))
    /\ \A r \in Runtimes : SF_vars(SweepList(r, TempNames))
    /\ \A r \in Runtimes, n \in TempNames :
          WF_vars(SweepCheck(r, n)) /\ SF_vars(SweepRemove(r, n))

-----------------------------------------------------------------------------
(* Properties.                                                             *)

\* Files, rows, locks and locals hold values of their kind.
TypeOK ==
    /\ files \in [Refs -> Large \cup {Partial, NoFile}]
    /\ temps \in [TempNames -> TempFile \cup {NoFile}]
    /\ rows \in [Refs -> Large \cup {NoFile}]
    /\ storeUp \in [Runtimes -> BOOLEAN]
    /\ mutex \in [Runtimes -> Threads \cup {NoThread}]
    /\ pc \in [Threads -> Working \cup {"idle"}]
    /\ content \in [Threads -> Large \cup {Small}]
    /\ ref \in [Threads -> Refs \cup {NoName}]
    /\ tempName \in [Threads -> TempNames \cup {NoName}]
    /\ result \in [Threads -> {"none", "inline", "error", "offloaded"}]
    /\ scheduled \in [Runtimes -> BOOLEAN]
    /\ sweep \in [Runtimes -> [TempNames -> {"done", "listed", "expired"}]]
    /\ acked \subseteq Refs \X Large
    /\ abandoned \subseteq Refs
    /\ drawn \subseteq Refs \cup TempNames

\* What ReadPayload returns for a ref inside the payload directory.
ReadPayload(f) == files[f]

SoleRuntime == \A r1, r2 \in Runtimes : r1 = r2

\* One runtime needs nothing of the random names; two need them distinct,
\* for the exists checks and the rename are not one step.
NamesSafe == SoleRuntime \/ ~MayCollide

\* A payload that the context offers (it has a row) can be read in full and is
\* the one the row describes: the row comes after the rename, the undo of a
\* failed row never hits a file that has one, sweepers touch no final file.
RowsReadable == NamesSafe => \A f \in Refs : rows[f] # NoFile => ReadPayload(f) = rows[f]

\* A ref handed to a caller in place of its content gives that content back
\* for ever after, whatever later writers, failures, sweepers and crashes do.
AckedReadable == NamesSafe => \A p \in acked : ReadPayload(p[1]) = p[2]

\* A final file never shows a torn write, not even one that an abandoned
\* writer left: what ReadPayload can open is complete.
NoPartialFile == NamesSafe => \A f \in Refs : files[f] # Partial

\* What readers of payloads rely on: rows, acknowledged refs and files all give
\* complete contents, the ones that were written under their names.
PayloadsReadable == RowsReadable /\ AckedReadable /\ NoPartialFile

\* A payload file without a row is being worked on, or its error named it as
\* the orphan that remains, or its process died before the row.
NoSilentOrphan ==
    \A f \in Refs :
        files[f] # NoFile /\ rows[f] = NoFile =>
            \/ \E t \in Threads : ref[t] = f /\ pc[t] \in {"save", "undo"}
            \/ f \in abandoned

InUse(n) == \E t \in Threads : tempName[t] = n /\ pc[t] # "idle"

\* A temporary file that a dead or failed writer left is removed in the end,
\* although each sweeper looks at it once and the file may still be young.
TempsSwept ==
    <>[][~\E r \in Runtimes : Crash(r)]_vars /\ <>[](\A r \in Runtimes : storeUp[r]) =>
        \A n \in TempNames : (temps[n] # NoFile /\ ~InUse(n)) ~> (temps[n] = NoFile)
=============================================================================
