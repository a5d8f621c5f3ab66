----------------------------- MODULE MapPackage -----------------------------
(***************************************************************************)
(* ProductionMapStore and MapPackageWriter / Reader (map_package.cpp): how *)
(* a SaveMap step publishes a map as a directory of files, and how the     *)
(* admission of a NavigateTo step reads one.                               *)
(*                                                                         *)
(* The file system keeps what it shows (the page cache) apart from what a  *)
(* crash leaves: a file nobody synced may be missing or torn, a rename     *)
(* nobody synced may have happened or not.  Each save fills a directory of *)
(* its own, named by its number; the contents of a file are the number of  *)
(* the save that wrote it, so that hashes agree when the numbers do.  The  *)
(* root is there from the start or made by the first save; nobody syncs    *)
(* its parents, so that a root that is new may go with a crash as a whole. *)
(***************************************************************************)
EXTENDS Integers

CONSTANTS
  Artifacts,  \* the files that slam_toolbox, Nav2 and the store produce
  MaxSaves,   \* how often one map ID is saved
  MaxFaults   \* how many calls of the file system or upstream fail

ASSUME PackageAssumption ==
  /\ Artifacts # {} /\ "manifest" \notin Artifacts
  /\ MaxSaves \in Nat \ {0} /\ MaxFaults \in Nat

VARIABLES
  cache,    \* per save: its files as the file system shows them
  disk,     \* per save: its files as a crash leaves them
  flushed,  \* the saves whose files, not yet their directory, are synced
  dest,     \* the save the destination shows, 0 when there is none
  kept,     \* the saves a crash that leaves the root may leave there
  root,     \* root_: not there, made but never synced into its parent, or durable
  writer,   \* the save in progress: step, number
  reader,   \* the load in progress: step, manifest it goes by, place it read
  outcome,  \* per save: what its caller was told
  faults,   \* the failures so far
  undone,   \* history: the saves a file of which was removed again
  swept     \* history: the saves that a crash took together with a new root

vars == <<cache, disk, flushed, dest, kept, root, writer, reader, outcome, faults,
          undone, swept>>

Files == Artifacts \cup {"manifest"}
Saves == 1..MaxSaves
Missing == 0
Torn == -1
Content == {Torn, Missing} \cup Saves
Empty == [f \in Files |-> Missing]

Fault == faults < MaxFaults /\ faults' = faults + 1
NoFault == UNCHANGED faults
n == writer.save

\* What only a crash, or only a removal, writes.
HistoryStays == UNCHANGED <<undone, swept>>
RootStays == UNCHANGED root /\ HistoryStays

Init ==
  /\ cache = [s \in Saves |-> Empty] /\ disk = cache /\ flushed = {}
  /\ dest = 0 /\ kept = {0} /\ root \in {"none", "durable"} /\ faults = 0
  /\ writer = [at |-> "idle", save |-> 0]
  /\ reader = [at |-> "idle", manifest |-> 0, place |-> 0]
  /\ outcome = [s \in Saves |-> "none"]
  /\ undone = {} /\ swept = {}

-----------------------------------------------------------------------------
(***************************************************************************)
(* save and publish.                                                       *)
(***************************************************************************)
Moves(step) == writer' = [writer EXCEPT !.at = step]
Told(what) == outcome' = [outcome EXCEPT ![n] = what] /\ Moves("idle")

\* remove_stage: the staging directory of this save goes.
Discarded == cache' = [cache EXCEPT ![n] = Empty] /\ Told("failed")
ReaderStays == UNCHANGED reader

\* parse_manifest and the hashes: the files are those the manifest was made of.
Whole(files) == files["manifest"] \in Saves /\ \A f \in Files : files[f] = files["manifest"]
Hashed(files) == files["manifest"] \in Saves
ExactFiles(files) == \A f \in Files : files[f] # Missing

\* validate_package_directory.
Valid(files) == ExactFiles(files) /\ Hashed(files) /\ Whole(files)

\* create_directories makes the root where it is missing.
Made == IF root = "none" THEN "new" ELSE root

\* save: the root and the staging directory are made, or not; refused when the
\* destination exists.
SaveBegins ==
  /\ writer.at = "idle" /\ writer.save < MaxSaves
  /\ \/ /\ NoFault /\ root' = Made
        /\ writer' = [at |-> IF dest = 0 THEN "capture" ELSE "idle", save |-> n + 1]
        /\ outcome' = [outcome EXCEPT ![n + 1] = IF dest = 0 THEN @ ELSE "exists"]
     \/ /\ Fault /\ root' \in {root, Made}
        /\ writer' = [writer EXCEPT !.save = n + 1]
        /\ outcome' = [outcome EXCEPT ![n + 1] = "failed"]
  /\ UNCHANGED <<cache, disk, flushed, dest, kept>> /\ HistoryStays /\ ReaderStays

\* The upstream capture and the named places, in a staging directory of the store.
Captures ==
  /\ writer.at = "capture"
  /\ \/ NoFault /\ Moves("copy") /\ UNCHANGED outcome
     \/ Fault /\ Told("failed")
  /\ UNCHANGED <<cache, disk, flushed, dest, kept>> /\ RootStays /\ ReaderStays

\* publish: each artifact is copied into its staging directory.
Copies(f) ==
  /\ writer.at = "copy" /\ cache[n][f] = Missing
  /\ \/ NoFault /\ cache' = [cache EXCEPT ![n][f] = n] /\ UNCHANGED <<writer, outcome>>
     \/ Fault /\ Discarded
  /\ UNCHANGED <<disk, flushed, dest, kept>> /\ RootStays /\ ReaderStays

\* The manifest holds the hashes of what was staged.
WritesManifest ==
  /\ writer.at = "copy" /\ \A f \in Artifacts : cache[n][f] # Missing
  /\ \/ /\ NoFault /\ cache' = [cache EXCEPT ![n]["manifest"] = n]
        /\ Moves("validate") /\ UNCHANGED outcome
     \/ Fault /\ Discarded
  /\ UNCHANGED <<disk, flushed, dest, kept>> /\ RootStays /\ ReaderStays

\* (a validation that leaves the files unsynced)
ValidatesUnsynced ==
  /\ writer.at = "validate"
  /\ \/ NoFault /\ Valid(cache[n]) /\ Moves("sync") /\ UNCHANGED <<cache, outcome>>
     \/ Fault /\ Discarded
  /\ UNCHANGED <<disk, flushed, dest, kept>> /\ RootStays /\ ReaderStays

\* validate_package_directory ends with a sync of every file.
Validates ==
  /\ writer.at = "validate"
  /\ \/ /\ NoFault /\ Valid(cache[n]) /\ flushed' = flushed \cup {n}
        /\ Moves("sync") /\ UNCHANGED <<cache, outcome>>
     \/ Fault /\ Discarded /\ UNCHANGED flushed
  /\ UNCHANGED <<disk, dest, kept>> /\ RootStays /\ ReaderStays

\* (a publication that renames the stage before it synced it)
SyncsStageNever ==
  /\ writer.at = "sync" /\ Moves("rename")
  /\ UNCHANGED <<cache, disk, flushed, dest, kept, outcome, faults>> /\ RootStays /\ ReaderStays

\* The names of the files, and the files.
SyncsStage ==
  /\ writer.at = "sync"
  /\ \/ /\ NoFault /\ disk' = [disk EXCEPT ![n] = IF n \in flushed THEN cache[n] ELSE @]
        /\ Moves("rename") /\ UNCHANGED <<cache, outcome>>
     \/ Fault /\ Discarded /\ UNCHANGED disk
  /\ UNCHANGED <<flushed, dest, kept>> /\ RootStays /\ ReaderStays

\* The rename, after a second look at the destination (no other writer filled it).
Renames ==
  /\ writer.at = "rename"
  /\ \/ /\ dest = 0 /\ NoFault /\ dest' = n /\ kept' = kept \cup {n}
        /\ Moves("root") /\ UNCHANGED <<cache, outcome>>
     \/ Fault /\ Discarded /\ UNCHANGED <<dest, kept>>
  /\ UNCHANGED <<disk, flushed>> /\ RootStays /\ ReaderStays

\* (a publication that ends with the rename)
SyncsRootNever ==
  /\ writer.at = "root" /\ Told("succeeded")
  /\ UNCHANGED <<cache, disk, flushed, dest, kept, faults>> /\ RootStays /\ ReaderStays

\* sync_path on the root: what it shows is what a crash leaves.
SyncsRoot ==
  /\ writer.at = "root"
  /\ \/ NoFault /\ kept' = {dest} /\ Told("succeeded")
     \/ Fault /\ UNCHANGED <<kept, outcome>> /\ Moves("remove")
  /\ UNCHANGED <<cache, disk, flushed, dest>> /\ RootStays /\ ReaderStays

\* remove_all of the completed package: file by file, then the directory; it may
\* fail on the way.
Removes(f) ==
  /\ writer.at = "remove" /\ cache[n][f] # Missing
  /\ \/ /\ NoFault /\ cache' = [cache EXCEPT ![n][f] = Missing]
        /\ undone' = undone \cup {n} /\ UNCHANGED writer
     \/ Fault /\ Moves("resync") /\ UNCHANGED <<cache, undone>>
  /\ UNCHANGED <<disk, flushed, dest, kept, root, outcome, swept>> /\ ReaderStays

RemovesDirectory ==
  /\ writer.at = "remove" /\ cache[n] = Empty /\ Moves("resync")
  /\ \/ NoFault /\ dest' = 0 /\ kept' = kept \cup {0}
     \/ Fault /\ UNCHANGED <<dest, kept>>
  /\ UNCHANGED <<cache, disk, flushed, outcome>> /\ RootStays /\ ReaderStays

\* (a cleanup that is believed without a sync of the root)
ResyncsBelieving ==
  /\ writer.at = "resync" /\ NoFault /\ UNCHANGED kept
  /\ Told(IF dest = 0 THEN "removed" ELSE "unproven")
  /\ UNCHANGED <<cache, disk, flushed, dest>> /\ RootStays /\ ReaderStays

\* The cleanup is proven by the absence of the package and a sync of the root.
Resyncs ==
  /\ writer.at = "resync"
  /\ \/ NoFault /\ kept' = {dest} /\ Told(IF dest = 0 THEN "removed" ELSE "unproven")
     \/ Fault /\ UNCHANGED kept /\ Told("unproven")
  /\ UNCHANGED <<cache, disk, flushed, dest>> /\ RootStays /\ ReaderStays

Write ==
  \/ SaveBegins \/ Captures \/ WritesManifest \/ Validates \/ SyncsStage \/ Renames
  \/ SyncsRoot \/ RemovesDirectory \/ Resyncs
  \/ \E f \in Artifacts : Copies(f)
  \/ \E f \in Files : Removes(f)

-----------------------------------------------------------------------------
(***************************************************************************)
(* load and read_named_place, on the thread that admits a goal.            *)
(***************************************************************************)
Shown == IF dest = 0 THEN Empty ELSE cache[dest]
Idle == [at |-> "idle", manifest |-> 0, place |-> 0]
StoreStays ==
  UNCHANGED <<cache, disk, flushed, dest, kept, root, writer, outcome, faults, undone, swept>>

\* validate_package_directory reads the manifest first and the files it names later;
\* the package may be removed, and another published, in between.  A read or a sync
\* that fails ends the load of a good package too.
SeesManifest(from, to) ==
  /\ reader.at = from
  /\ \/ /\ ExactFiles(Shown) /\ Hashed(Shown)
        /\ reader' = [Idle EXCEPT !.at = to, !.manifest = Shown["manifest"]]
     \/ reader' = Idle
  /\ StoreStays

SeesFiles(from, to) ==
  /\ reader.at = from
  /\ \/ /\ \A f \in Artifacts : Shown[f] = reader.manifest
        /\ reader' = [reader EXCEPT !.at = to]
     \/ reader' = Idle
  /\ StoreStays

LoadBegins == SeesManifest("idle", "load")
LoadChecks == SeesFiles("load", "loaded")

\* read_named_place validates the package once more, and then parses the file.
Rereads == SeesManifest("loaded", "reread")
Rechecks == SeesFiles("reread", "parse")

\* The file may be gone by now; it is read whole or not at all.
Parses(f) ==
  /\ reader.at = "parse"
  /\ \/ Shown[f] # Missing /\ reader' = [reader EXCEPT !.at = "done", !.place = Shown[f]]
     \/ reader' = Idle
  /\ StoreStays

ReadEnds == reader.at = "done" /\ reader' = Idle /\ StoreStays

Read ==
  \/ LoadBegins \/ LoadChecks \/ Rereads \/ Rechecks \/ ReadEnds
  \/ \E f \in Artifacts : Parses(f)

-----------------------------------------------------------------------------
\* The machine stops: each file of the destination is as it was synced, or as a
\* write of it left it; the destination is one of those it may have had.  Nobody
\* looks at the staging directories it left.
Survivors(s, f) ==
  {disk[s][f]} \cup (IF disk[s][f] = cache[s][f] THEN {} ELSE {cache[s][f]})
               \cup (IF disk[s][f] = cache[s][f] \/ s \in flushed THEN {} ELSE {Torn})

CrashLeavesRoot ==
  /\ \E d \in kept : \E left \in [Files -> Content] :
       /\ IF d = 0 THEN left = Empty ELSE \A f \in Files : left[f] \in Survivors(d, f)
       /\ dest' = d /\ kept' = {d}
       /\ cache' = [s \in Saves |-> IF s = d THEN left ELSE cache[s]]
       /\ disk' = [s \in Saves |-> IF s = d THEN left ELSE disk[s]]
  /\ root' = IF root = "none" THEN "none" ELSE "durable"
  /\ UNCHANGED swept

\* A root that was made since the last crash may never have reached its parent.
CrashTakesRoot ==
  /\ root = "new" /\ root' = "none" /\ dest' = 0 /\ kept' = {0}
  /\ swept' = 1..n
  /\ UNCHANGED <<cache, disk>>

Crash ==
  /\ Fault /\ (CrashLeavesRoot \/ CrashTakesRoot)
  /\ Moves("idle") /\ reader' = Idle
  /\ UNCHANGED <<flushed, outcome, undone>>

Next == Write \/ Read \/ Crash
Spec == Init /\ [][Next]_vars

-----------------------------------------------------------------------------
(***************************************************************************)
(* Properties.                                                             *)
(***************************************************************************)
\* A save that reported success is what the destination shows and what any crash
\* leaves there, whole, whatever later saves, loads and crashes do.  The assumption is
\* that the root stays: a save below a root that was new, and that a crash took as a
\* whole, is swept.
SucceededIsDurable ==
  \A s \in Saves \ swept : outcome[s] = "succeeded" =>
    dest = s /\ kept = {s} /\ Whole(cache[s]) /\ Whole(disk[s])

\* A save that reported that it removed its package again, or that it failed before
\* it published one, left none that a crash could bring back.
RemovedIsGone ==
  \A s \in Saves : outcome[s] \in {"removed", "failed"} => dest # s /\ s \notin kept

\* The destination shows a whole package, also behind a crash, unless remove_all has
\* taken a file of it, because the sync of the root failed; even then what is left
\* was written by its save.
PublishedIsWhole ==
  dest # 0 => \/ Whole(cache[dest])
              \/ dest \in undone /\ \A f \in Files : cache[dest][f] \in {Missing, dest}

\* What testing-strategy.md says of a partial failure: it exposes no half-written
\* package, once publish has returned or the machine has stopped.
HalfWrittenNeverShows == writer.at = "idle" /\ dest # 0 => Whole(cache[dest])

\* The place a goal is admitted with comes from a package whose files were all synced
\* before the destination showed it, whatever is removed and published while it is read.
ReadIsWhole ==
  reader.at = "done" => reader.place \in Saves /\ Whole(disk[reader.place])

=============================================================================
