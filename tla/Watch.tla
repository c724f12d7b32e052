-------------------------------- MODULE Watch -------------------------------
(***************************************************************************)
(* The watch command's event loop (cmd/dippin/cmd_watch.go): file system   *)
(* events, one debounce timer and one remembered file, against editors     *)
(* that save files whenever they like.                                     *)
(*                                                                         *)
(* The watcher library is modelled from its use: events are delivered in   *)
(* order; a save in place is a write; a save that renames a new file over  *)
(* the old one is a create in a watched directory, and removes the watch   *)
(* of a file that was itself the target.                                   *)
(***************************************************************************)
EXTENDS Sequences, Naturals

CONSTANTS
    Files,          \* the files that are saved
    DipFiles,       \* those whose name ends in .dip
    DirTarget,      \* TRUE: their directory is the target; FALSE: each file is
    RenameSaves,    \* TRUE: an editor may save by renaming a new file over the old one
    MaxSaves        \* bound: saves in all

ASSUME FilesAssumption == DipFiles \subseteq Files /\ "" \notin Files

ASSUME TargetAssumption == DirTarget \in BOOLEAN /\ RenameSaves \in BOOLEAN

VARIABLES
    version,    \* version[f]: how often f was saved
    linted,     \* linted[f]: the version lintAndPrint read last
    watched,    \* the file targets that still have a watch
    queue,      \* watcher.Events
    timer,      \* "off", "running" or "expired"
    pending,    \* watchState.pending
    saves       \* bounds the saves

vars == <<version, linted, watched, queue, timer, pending, saves>>

Init ==
    /\ version = [f \in Files |-> 0] /\ linted = [f \in Files |-> 0]
    /\ watched = IF DirTarget THEN {} ELSE Files
    /\ queue = <<>>
    /\ timer = "off" /\ pending = "" /\ saves = 0

Event(f, op) == [file |-> f, op |-> op]

Events == [file : Files, op : {"write", "create", "remove"}]

SaveInPlace(f) ==
    /\ saves < MaxSaves
    /\ version' = [version EXCEPT ![f] = @ + 1] /\ saves' = saves + 1
    /\ queue' = IF DirTarget \/ f \in watched THEN Append(queue, Event(f, "write")) ELSE queue
    /\ UNCHANGED <<linted, watched, timer, pending>>

SaveByRename(f) ==
    /\ RenameSaves /\ saves < MaxSaves
    /\ version' = [version EXCEPT ![f] = @ + 1] /\ saves' = saves + 1
    /\ queue' = IF DirTarget THEN Append(queue, Event(f, "create"))
                ELSE IF f \in watched THEN Append(queue, Event(f, "remove")) ELSE queue
    /\ watched' = watched \ {f}
    /\ UNCHANGED <<linted, timer, pending>>

\* Mutant: only writes are looked at.
WritesOnly(e) == e.op = "write" /\ e.file \in DipFiles

\* filterDipEvent
IsDipEvent(e) == e.op \in {"write", "create"} /\ e.file \in DipFiles

HandleFsEvent ==
    /\ queue # <<>>
    /\ queue' = Tail(queue)
    /\ IF IsDipEvent(Head(queue))
       THEN pending' = Head(queue).file /\ timer' = "running"
       ELSE UNCHANGED <<pending, timer>>
    /\ UNCHANGED <<version, linted, watched, saves>>

\* The debounce delay is over; a Reset may still come before drain runs.
Expire ==
    /\ timer = "running" /\ timer' = "expired"
    /\ UNCHANGED <<version, linted, watched, queue, pending, saves>>

\* drain: the linter reads the file as it is now.
Drain ==
    /\ timer = "expired" /\ timer' = "off"
    /\ pending' = ""
    /\ linted' = IF pending = "" THEN linted ELSE [linted EXCEPT ![pending] = version[pending]]
    /\ UNCHANGED <<version, watched, queue, saves>>

Loop == HandleFsEvent \/ Drain

Next ==
    \/ \E f \in Files : SaveInPlace(f) \/ SaveByRename(f)
    \/ Loop \/ Expire

\* Go's select never starves a ready case for ever, time passes, and nobody
\* is obliged to save anything.
Spec == Init /\ [][Next]_vars /\ WF_vars(HandleFsEvent) /\ WF_vars(Drain) /\ WF_vars(Expire)

-----------------------------------------------------------------------------
(* Properties                                                              *)

TypeOK ==
    /\ version \in [Files -> Nat] /\ linted \in [Files -> Nat]
    /\ watched \subseteq Files
    /\ queue \in Seq(Events)
    /\ timer \in {"off", "running", "expired"}
    /\ pending \in DipFiles \cup {""} /\ saves \in Nat

(* No file is remembered without a timer that will bring it to the linter. *)
PendingHasTimer == pending # "" <=> timer # "off"

(* A .dip file saved since it was linted last is the remembered one, or an *)
(* event of it is under way.  Holds of a directory with one .dip file.     *)
NothingForgotten ==
    \A f \in DipFiles :
        linted[f] < version[f] =>
            pending = f \/ \E i \in DOMAIN queue : queue[i].file = f

(* "re-run lint on save" (docs/cli.md:639): every file ends up linted as   *)
(* it was saved last.                                                      *)
EverySaveIsLinted == \A f \in DipFiles : <>[](linted[f] = version[f])

=============================================================================
