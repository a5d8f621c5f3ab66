-------------------------- MODULE MapPackageProofs --------------------------
(***************************************************************************)
(* The safety properties of MapPackage, for every number of artifacts,     *)
(* saves and faults.                                                       *)
(*                                                                         *)
(* None of the properties is inductive.  What makes them hold together:    *)
(* only the save in progress touches the destination, and before it does   *)
(* its files are whole on the disk; what a crash may bring back was        *)
(* synced, so it can lose files of a package that was being removed, but   *)
(* of no other one, and never tear one; and a file that a reader still     *)
(* sees in the destination is one the disk has too.                        *)
(***************************************************************************)
EXTENDS MapPackage, TLAPS

Staging == {"capture", "copy", "validate", "sync", "rename"}
Step == Staging \cup {"idle", "root", "remove", "resync"}
Outcome == {"none", "exists", "failed", "succeeded", "removed", "unproven"}

Types ==
  /\ cache \in [Saves -> [Files -> Content]] /\ disk \in [Saves -> [Files -> Content]]
  /\ flushed \subseteq Saves /\ dest \in {0} \cup Saves /\ kept \subseteq {0} \cup Saves
  /\ writer \in [at : Step, save : {0} \cup Saves]
  /\ reader \in [at : {"idle", "load", "loaded", "reread", "parse", "done"},
                 manifest : Content, place : Content]
  /\ outcome \in [Saves -> Outcome]
  /\ root \in {"none", "new", "durable"} /\ undone \subseteq Saves /\ swept \subseteq Saves

\* Every file is that of the save its directory belongs to, or missing: none is torn.
Own == \A s \in Saves, f \in Files : cache[s][f] \in {Missing, s} /\ disk[s][f] \in {Missing, s}

\* All files of a save are there.
Full(files, s) == \A f \in Files : files[f] = s

\* The save in progress owns the destination, and a save to come is unheard of.
Owner ==
  /\ dest \in kept
  /\ writer.at # "idle" => writer.save \in Saves /\ outcome[writer.save] = "none"
  /\ writer.at \in Staging => dest = 0 /\ writer.save \notin kept
  /\ writer.at \in {"root", "remove"} => dest = writer.save
  /\ writer.at = "resync" => dest \in {0, writer.save}
  /\ \A s \in Saves : s > writer.save => s \notin kept /\ outcome[s] = "none"

\* What the steps of publish have secured.
Secured ==
  /\ writer.at \in {"validate", "sync", "rename", "root"} => Full(cache[writer.save], writer.save)
  /\ writer.at \in {"sync", "rename", "root"} => writer.save \in flushed
  /\ writer.at \in {"rename", "root"} => Full(disk[writer.save], writer.save)

\* What a crash may leave in the destination was synced.
Synced ==
  /\ kept \ {0} \subseteq flushed
  /\ dest # 0 => \A f \in Files : cache[dest][f] = dest => disk[dest][f] = dest

\* What may show, or come back, is whole until a removal takes its first file.
Unbroken == \A s \in kept \ ({0} \cup undone) : Full(cache[s], s) /\ Full(disk[s], s)

\* The properties, by the contents of the files.
Success ==
  \A s \in Saves \ swept : outcome[s] = "succeeded" =>
    dest = s /\ kept = {s} /\ Full(cache[s], s) /\ Full(disk[s], s)
Removal == \A s \in Saves : outcome[s] \in {"removed", "failed"} => s \notin kept

\* A reader that found a manifest looks at a package that is whole on the disk.
Reading ==
  /\ reader.at # "idle" /\ dest # 0 => Full(disk[dest], dest)
  /\ reader.at = "done" => reader.place \in Saves /\ Full(disk[reader.place], reader.place)

IInv == Types /\ Own /\ Owner /\ Secured /\ Synced /\ Unbroken
        /\ Success /\ Removal /\ Reading

-----------------------------------------------------------------------------
(***************************************************************************)
(* Each step keeps the invariant.                                          *)
(***************************************************************************)
USE DEF Files, Saves, Missing, Torn, Content, Empty, Step, Staging, Outcome, n

\* Writing one entry of a map of directories.
LEMMA WrittenFacts ==
  ASSUME NEW c \in [Saves -> [Files -> Content]], NEW s \in Saves, NEW f \in Files, NEW v \in Content
  PROVE  /\ [c EXCEPT ![s][f] = v] \in [Saves -> [Files -> Content]]
         /\ \A t \in Saves, g \in Files :
              [c EXCEPT ![s][f] = v][t][g] = IF t = s /\ g = f THEN v ELSE c[t][g]
<1>1. [c[s] EXCEPT ![f] = v] \in [Files -> Content]
  OBVIOUS
<1>2. [c EXCEPT ![s][f] = v] = [c EXCEPT ![s] = [c[s] EXCEPT ![f] = v]]
  OBVIOUS
<1> QED
  BY <1>1, <1>2

\* Replacing one directory.
LEMMA ReplacedFacts ==
  ASSUME NEW c \in [Saves -> [Files -> Content]], NEW s \in Saves, NEW d \in [Files -> Content]
  PROVE  /\ [c EXCEPT ![s] = d] \in [Saves -> [Files -> Content]]
         /\ \A t \in Saves : [c EXCEPT ![s] = d][t] = IF t = s THEN d ELSE c[t]
OBVIOUS

\* A save that ends tells its caller how.
LEMMA ToldFacts ==
  ASSUME Types, writer.save \in Saves, NEW what \in Outcome, Told(what)
  PROVE  /\ outcome' \in [Saves -> Outcome]
         /\ \A s \in Saves : outcome'[s] = IF s = writer.save THEN what ELSE outcome[s]
         /\ writer' = [at |-> "idle", save |-> writer.save]
<1>1. outcome' = [outcome EXCEPT ![writer.save] = what] /\ outcome \in [Saves -> Outcome]
  BY DEF Types, Told
<1>2. writer' = [at |-> "idle", save |-> writer.save]
  BY DEF Types, Told, Moves
<1> HIDE DEF Saves, Outcome
<1> QED
  BY <1>1, <1>2

LEMMA ToldOwner ==
  ASSUME IInv, writer.save \in Saves, NEW what \in Outcome, Told(what), UNCHANGED <<dest, kept>>
  PROVE  Owner'
<1>1. /\ \A s \in Saves : outcome'[s] = IF s = writer.save THEN what ELSE outcome[s]
      /\ writer' = [at |-> "idle", save |-> writer.save]
  BY ToldFacts DEF IInv
<1> QED
  BY <1>1 DEF IInv, Owner

\* Writing or removing one file of the save in progress.
LEMMA WroteFacts ==
  ASSUME Types, writer.save \in Saves, NEW f \in Files, NEW v \in Content,
         cache' = [cache EXCEPT ![writer.save][f] = v]
  PROVE  /\ cache' \in [Saves -> [Files -> Content]]
         /\ \A t \in Saves, g \in Files :
              cache'[t][g] = IF t = writer.save /\ g = f THEN v ELSE cache[t][g]
<1> HIDE DEF Saves, Files, Content
<1> QED
  BY WrittenFacts DEF Types

\* remove_stage leaves the other saves alone.
LEMMA DiscardedFacts ==
  ASSUME Types, writer.save \in Saves, Discarded
  PROVE  /\ cache' \in [Saves -> [Files -> Content]]
         /\ \A s \in Saves, f \in Files :
              cache'[s][f] = IF s = writer.save THEN Missing ELSE cache[s][f]
<1>1. Empty \in [Files -> Content]
  OBVIOUS
<1>2. cache' = [cache EXCEPT ![writer.save] = Empty] /\ cache \in [Saves -> [Files -> Content]]
  BY DEF Discarded, Types
<1>3. \A f \in Files : Empty[f] = Missing
  OBVIOUS
<1> HIDE DEF Saves, Files, Content, Empty, Missing
<1> QED
  BY <1>1, <1>2, <1>3, ReplacedFacts

\* A step on one file of the save in progress, or the end of it.
LEMMA OneFile ==
  ASSUME IInv, writer.save \in Saves, NEW f \in Files, NEW v \in {Missing, writer.save},
         cache' = [cache EXCEPT ![writer.save][f] = v] \/ Discarded,
         UNCHANGED disk
  PROVE  Own' /\ cache' \in [Saves -> [Files -> Content]]
<1> USE DEF IInv
<1>1. CASE cache' = [cache EXCEPT ![writer.save][f] = v]
  <2>1. v \in Content
    OBVIOUS
  <2>2. /\ cache' \in [Saves -> [Files -> Content]]
        /\ \A t \in Saves, g \in Files :
              cache'[t][g] = IF t = writer.save /\ g = f THEN v ELSE cache[t][g]
    <3> HIDE DEF Saves, Files, Content
    <3> QED BY <1>1, <2>1, WroteFacts
  <2> QED
    BY <2>2 DEF Own
<1>2. CASE Discarded
  <2>1. /\ cache' \in [Saves -> [Files -> Content]]
        /\ \A s \in Saves, g \in Files :
             cache'[s][g] = IF s = writer.save THEN Missing ELSE cache[s][g]
    <3> HIDE DEF Saves, Files, Content, Missing
    <3> QED BY <1>2, DiscardedFacts
  <2> QED
    BY <2>1 DEF Own
<1> QED
  BY <1>1, <1>2

\* A save in its staging directory touches no package that shows or may come back.
LEMMA StagedUnbroken ==
  ASSUME IInv, writer.at \in Staging, UNCHANGED <<kept, undone>>,
         \A s \in Saves \ {writer.save} : cache'[s] = cache[s] /\ disk'[s] = disk[s]
  PROVE  Unbroken'
BY DEF IInv, Types, Owner, Unbroken, Full

LEMMA InitInv == Init => IInv
BY PackageAssumption
  DEF Init, IInv, Types, Own, Owner, Secured, Synced, Unbroken, Success,
      Removal, Reading, Full

LEMMA SaveBeginsInv ==
  ASSUME IInv, SaveBegins
  PROVE  IInv'
<1> USE PackageAssumption DEF IInv
<1>1. Types'
  <2>1. writer' \in [at : Step, save : {0} \cup Saves]
    BY DEF SaveBegins, Types
  <2>2. outcome' \in [Saves -> Outcome]
    BY DEF SaveBegins, Types
  <2>3. cache' \in [Saves -> [Files -> Content]]
    BY DEF SaveBegins, Types
  <2>4. disk' \in [Saves -> [Files -> Content]]
    BY DEF SaveBegins, Types
  <2>5. /\ flushed' \subseteq Saves /\ dest' \in {0} \cup Saves /\ kept' \subseteq {0} \cup Saves
        /\ UNCHANGED reader
        /\ root' \in {"none", "new", "durable"} /\ undone' \subseteq Saves /\ swept' \subseteq Saves
    BY DEF SaveBegins, ReaderStays, HistoryStays, Made, Fault, Types
  <2> QED
    BY <2>1, <2>2, <2>3, <2>4, <2>5 DEF Types
<1>2. Own'
  BY DEF SaveBegins, Own
<1>0. writer.at = "idle" /\ writer.save + 1 \in Saves
  BY DEF SaveBegins, Types
<1>w. PICK w \in {outcome[writer.save + 1], "exists", "failed"} :
        /\ \A s \in Saves : outcome'[s] = IF s = writer.save + 1 THEN w ELSE outcome[s]
        /\ writer'.save = writer.save + 1 /\ writer'.at \in {"idle", "capture"}
        /\ writer'.at = "capture" => dest = 0 /\ w = outcome[writer.save + 1]
        /\ UNCHANGED <<cache, disk, flushed, dest, kept, undone, swept, reader>>
  BY <1>0 DEF SaveBegins, HistoryStays, ReaderStays, Types
<1>n. writer.save + 1 \notin kept /\ outcome[writer.save + 1] = "none"
  BY <1>0 DEF Types, Owner
<1>3. Owner'
  <2>1. writer.save \in Nat
    BY DEF Types
  <2>2. \A s \in Saves : s > writer'.save => s > writer.save /\ s # writer.save + 1
    BY <1>w, <2>1
  <2>3. \A s \in Saves : s > writer'.save => s \notin kept' /\ outcome'[s] = "none"
    BY <1>w, <2>2 DEF Owner
  <2>4. writer'.at # "idle" => /\ writer'.save \in Saves /\ outcome'[writer'.save] = "none"
                               /\ dest' = 0 /\ writer'.save \notin kept'
    BY <1>0, <1>w, <1>n
  <2> QED
    BY <1>w, <2>3, <2>4 DEF Owner
<1>4. Secured'
  BY <1>w DEF Secured
<1>5. Synced'
  BY <1>w DEF Synced
<1>6. Success'
  BY <1>w, <1>n DEF Success
<1>7. Removal'
  BY <1>w, <1>n DEF Removal
<1>8. Reading'
  BY <1>w DEF Reading
<1>9. Unbroken'
  BY <1>w DEF Unbroken
<1> QED
  BY <1>1, <1>2, <1>3, <1>4, <1>5, <1>6, <1>7, <1>8, <1>9

LEMMA CapturesInv ==
  ASSUME IInv, Captures
  PROVE  IInv'
<1> USE PackageAssumption DEF IInv
<1>0. writer.save \in Saves
  BY DEF Captures, Owner
<1>1. Types'
  <2>1. writer' \in [at : Step, save : {0} \cup Saves]
    BY DEF Captures, Told, Moves, Types
  <2>2. outcome' \in [Saves -> Outcome]
    BY <1>0, ToldFacts DEF Captures, Types
  <2>3. cache' \in [Saves -> [Files -> Content]]
    BY DEF Captures, Types
  <2>4. disk' \in [Saves -> [Files -> Content]]
    BY DEF Captures, Types
  <2>5. /\ flushed' \subseteq Saves /\ dest' \in {0} \cup Saves /\ kept' \subseteq {0} \cup Saves
        /\ UNCHANGED reader
        /\ root' \in {"none", "new", "durable"} /\ undone' \subseteq Saves /\ swept' \subseteq Saves
    BY DEF Captures, ReaderStays, RootStays, HistoryStays, Types
  <2> QED
    BY <2>1, <2>2, <2>3, <2>4, <2>5 DEF Types
<1>2. Own'
  BY DEF Captures, Own
<1>3. Owner'
  BY DEF Captures, Told, Moves, Fault, Types, Owner
<1>4. Secured'
  BY DEF Captures, Told, Moves, Types, Secured
<1>5. Synced'
  BY DEF Captures, Synced
<1>6. Success'
  BY DEF Captures, RootStays, HistoryStays, Told, Types, Success
<1>7. Removal'
  BY DEF Captures, Told, Types, Owner, Removal
<1>8. Reading'
  BY DEF Captures, ReaderStays, Reading
<1>9. Unbroken'
  BY DEF Captures, RootStays, HistoryStays, Types, Owner, Unbroken
<1> QED
  BY <1>1, <1>2, <1>3, <1>4, <1>5, <1>6, <1>7, <1>8, <1>9

LEMMA CopiesInv ==
  ASSUME IInv, NEW f \in Artifacts, Copies(f)
  PROVE  IInv'
<1> USE PackageAssumption DEF IInv
<1>0. writer.save \in Saves
  BY DEF Copies, Owner
<1>file. Own' /\ cache' \in [Saves -> [Files -> Content]]
  <2>1. f \in Files /\ UNCHANGED disk
    BY DEF Copies
  <2>2. CASE cache' = [cache EXCEPT ![writer.save][f] = writer.save]
    BY <1>0, <2>1, <2>2, OneFile
  <2>3. CASE Discarded
    BY <1>0, <2>1, <2>3, OneFile
  <2> QED
    BY <2>2, <2>3 DEF Copies
<1>1. Types'
  <2>1. writer' \in [at : Step, save : {0} \cup Saves]
    BY DEF Copies, Discarded, Told, Moves, Types
  <2>2. outcome' \in [Saves -> Outcome]
    BY <1>0, ToldFacts DEF Copies, Discarded, Types
  <2>3. cache' \in [Saves -> [Files -> Content]]
    BY <1>file
  <2>4. disk' \in [Saves -> [Files -> Content]]
    BY DEF Copies, Types
  <2>5. /\ flushed' \subseteq Saves /\ dest' \in {0} \cup Saves /\ kept' \subseteq {0} \cup Saves
        /\ UNCHANGED reader
        /\ root' \in {"none", "new", "durable"} /\ undone' \subseteq Saves /\ swept' \subseteq Saves
    BY DEF Copies, ReaderStays, RootStays, HistoryStays, Types
  <2> QED
    BY <2>1, <2>2, <2>3, <2>4, <2>5 DEF Types
<1>2. Own'
  BY <1>file
<1>3. Owner'
  <2>1. CASE UNCHANGED <<writer, outcome>>
    BY <2>1 DEF Owner, Copies
  <2>2. CASE Told("failed")
    BY <1>0, <2>2, ToldOwner DEF Copies
  <2> QED
    BY <2>1, <2>2 DEF Copies, Discarded
<1>4. Secured'
  BY DEF Copies, Discarded, Told, Moves, Types, Secured
<1>5. Synced'
  BY DEF Copies, Owner, Synced
<1>6. Success'
  BY DEF Copies, RootStays, HistoryStays, Discarded, Told, Types, Owner, Success
<1>7. Removal'
  BY DEF Copies, Discarded, Told, Types, Owner, Removal
<1>8. Reading'
  BY DEF Copies, ReaderStays, Reading
<1>others. \A s \in Saves \ {writer.save} : cache'[s] = cache[s] /\ disk'[s] = disk[s]
  BY DEF Copies, Discarded, Types
<1>9. Unbroken'
  BY <1>others, StagedUnbroken DEF Copies, RootStays, HistoryStays
<1> QED
  BY <1>1, <1>2, <1>3, <1>4, <1>5, <1>6, <1>7, <1>8, <1>9

LEMMA WritesManifestInv ==
  ASSUME IInv, WritesManifest
  PROVE  IInv'
<1> USE PackageAssumption DEF IInv
<1>0. writer.save \in Saves
  BY DEF WritesManifest, Owner
<1>file. Own' /\ cache' \in [Saves -> [Files -> Content]]
  <2>1. "manifest" \in Files /\ UNCHANGED disk
    BY DEF WritesManifest
  <2>2. CASE cache' = [cache EXCEPT ![writer.save]["manifest"] = writer.save]
    BY <1>0, <2>1, <2>2, OneFile
  <2>3. CASE Discarded
    BY <1>0, <2>1, <2>3, OneFile
  <2> QED
    BY <2>2, <2>3 DEF WritesManifest
<1>1. Types'
  <2>1. writer' \in [at : Step, save : {0} \cup Saves]
    BY DEF WritesManifest, Discarded, Told, Moves, Types
  <2>2. outcome' \in [Saves -> Outcome]
    BY <1>0, ToldFacts DEF WritesManifest, Discarded, Types
  <2>3. cache' \in [Saves -> [Files -> Content]]
    BY <1>file
  <2>4. disk' \in [Saves -> [Files -> Content]]
    BY DEF WritesManifest, Types
  <2>5. /\ flushed' \subseteq Saves /\ dest' \in {0} \cup Saves /\ kept' \subseteq {0} \cup Saves
        /\ UNCHANGED reader
        /\ root' \in {"none", "new", "durable"} /\ undone' \subseteq Saves /\ swept' \subseteq Saves
    BY DEF WritesManifest, ReaderStays, RootStays, HistoryStays, Types
  <2> QED
    BY <2>1, <2>2, <2>3, <2>4, <2>5 DEF Types
<1>2. Own'
  BY <1>file
<1>3. Owner'
  BY DEF WritesManifest, Discarded, Told, Moves, Types, Owner
<1>4. Secured'
  <2>1. CASE Discarded
    BY <2>1 DEF Discarded, Told, Moves, Types, Secured
  <2>2. CASE /\ cache' = [cache EXCEPT ![writer.save]["manifest"] = writer.save]
             /\ Moves("validate")
    <3>1. writer' = [at |-> "validate", save |-> writer.save]
      BY <2>2 DEF Moves, Types
    <3>2. \A f \in Files : cache'[writer.save][f] = IF f = "manifest" THEN writer.save
                                                                    ELSE cache[writer.save][f]
      BY <1>0, <2>2, WroteFacts
    <3>3. Full(cache'[writer.save], writer.save)
      BY <1>0, <3>2 DEF WritesManifest, Own, Full
    <3> QED
      BY <3>1, <3>3 DEF Secured
  <2> QED
    BY <2>1, <2>2 DEF WritesManifest
<1>5. Synced'
  BY DEF WritesManifest, Owner, Synced
<1>6. Success'
  BY DEF WritesManifest, RootStays, HistoryStays, Discarded, Told, Types, Owner, Success
<1>7. Removal'
  BY DEF WritesManifest, Discarded, Told, Types, Owner, Removal
<1>8. Reading'
  BY DEF WritesManifest, ReaderStays, Reading
<1>others. \A s \in Saves \ {writer.save} : cache'[s] = cache[s] /\ disk'[s] = disk[s]
  BY DEF WritesManifest, Discarded, Types
<1>9. Unbroken'
  BY <1>others, StagedUnbroken DEF WritesManifest, RootStays, HistoryStays
<1> QED
  BY <1>1, <1>2, <1>3, <1>4, <1>5, <1>6, <1>7, <1>8, <1>9

LEMMA ValidatesInv ==
  ASSUME IInv, Validates
  PROVE  IInv'
<1> USE PackageAssumption DEF IInv
<1>0. writer.save \in Saves
  BY DEF Validates, Owner
<1>1. Types'
  <2>1. writer' \in [at : Step, save : {0} \cup Saves]
    BY DEF Validates, Discarded, Told, Moves, Types
  <2>2. outcome' \in [Saves -> Outcome]
    BY <1>0, ToldFacts DEF Validates, Discarded, Types
  <2>3. cache' \in [Saves -> [Files -> Content]]
    BY <1>0, DiscardedFacts DEF Validates, Types
  <2>4. disk' \in [Saves -> [Files -> Content]]
    BY DEF Validates, Types
  <2>5. /\ flushed' \subseteq Saves /\ dest' \in {0} \cup Saves /\ kept' \subseteq {0} \cup Saves
        /\ UNCHANGED reader
        /\ root' \in {"none", "new", "durable"} /\ undone' \subseteq Saves /\ swept' \subseteq Saves
    BY <1>0 DEF Validates, ReaderStays, RootStays, HistoryStays, Types
  <2> QED
    BY <2>1, <2>2, <2>3, <2>4, <2>5 DEF Types
<1>2. Own'
  BY DEF Validates, Discarded, Told, Fault, Types, Own, Owner, Secured, Success,
    Reading
<1>3. Owner'
  BY DEF Validates, Discarded, Told, Moves, Types, Owner
<1>4. Secured'
  BY DEF Validates, Discarded, Told, Moves, Types, Secured
<1>5. Synced'
  BY DEF Validates, Owner, Synced
<1>6. Success'
  BY DEF Validates, RootStays, HistoryStays, Discarded, Told, Types, Success
<1>7. Removal'
  BY DEF Validates, Discarded, Told, Types, Owner, Removal
<1>8. Reading'
  BY DEF Validates, ReaderStays, Reading
<1>others. \A s \in Saves \ {writer.save} : cache'[s] = cache[s] /\ disk'[s] = disk[s]
  BY DEF Validates, Discarded, Types
<1>9. Unbroken'
  BY <1>others, StagedUnbroken DEF Validates, RootStays, HistoryStays
<1> QED
  BY <1>1, <1>2, <1>3, <1>4, <1>5, <1>6, <1>7, <1>8, <1>9

LEMMA SyncsStageInv ==
  ASSUME IInv, SyncsStage
  PROVE  IInv'
<1> USE PackageAssumption DEF IInv
<1>0. writer.save \in Saves
  BY DEF SyncsStage, Owner
<1>file. /\ disk' \in [Saves -> [Files -> Content]]
      /\ \A s \in Saves : disk'[s] \in {disk[s], cache[s]}
  <2>1. CASE disk' = [disk EXCEPT ![writer.save] = cache[writer.save]] \/ disk' = disk
    <3>1. cache[writer.save] \in [Files -> Content] /\ disk \in [Saves -> [Files -> Content]]
      BY <1>0 DEF Types
    <3>2. CASE disk' = [disk EXCEPT ![writer.save] = cache[writer.save]]
      <4> HIDE DEF Files, Saves, Content
      <4> QED
        BY <1>0, <3>1, <3>2, ReplacedFacts
    <3> QED
      BY <2>1, <3>1, <3>2
  <2>2. CASE disk' = [disk EXCEPT ![writer.save] = disk[writer.save]]
    BY <1>0, <2>2 DEF Types
  <2> QED
    BY <2>1, <2>2 DEF SyncsStage
<1>cache. \A s \in Saves, f \in Files : cache'[s][f] \in {Missing, cache[s][f]}
  BY <1>0, DiscardedFacts DEF SyncsStage
<1>1. Types'
  <2>1. writer' \in [at : Step, save : {0} \cup Saves]
    BY DEF SyncsStage, Discarded, Told, Moves, Types
  <2>2. outcome' \in [Saves -> Outcome]
    BY <1>0, ToldFacts DEF SyncsStage, Discarded, Types
  <2>3. cache' \in [Saves -> [Files -> Content]]
    BY <1>0, DiscardedFacts DEF SyncsStage, Types
  <2>4. disk' \in [Saves -> [Files -> Content]]
    BY <1>file
  <2>5. /\ flushed' \subseteq Saves /\ dest' \in {0} \cup Saves /\ kept' \subseteq {0} \cup Saves
        /\ UNCHANGED reader
        /\ root' \in {"none", "new", "durable"} /\ undone' \subseteq Saves /\ swept' \subseteq Saves
    BY DEF SyncsStage, ReaderStays, RootStays, HistoryStays, Types
  <2> QED
    BY <2>1, <2>2, <2>3, <2>4, <2>5 DEF Types
<1>2. Own'
  BY <1>file, <1>cache DEF Own
<1>3. Owner'
  <2>1. CASE Moves("rename") /\ UNCHANGED outcome
    BY <2>1 DEF Owner, SyncsStage, Moves, Types
  <2>2. CASE Told("failed")
    BY <1>0, <2>2, ToldOwner DEF SyncsStage
  <2> QED
    BY <2>1, <2>2 DEF SyncsStage, Discarded
<1>4. Secured'
  BY DEF SyncsStage, Discarded, Told, Moves, Types, Own, Owner, Secured
<1>5. Synced'
  BY DEF SyncsStage, Owner, Synced
<1>6. Success'
  BY <1>0 DEF SyncsStage, RootStays, HistoryStays, Discarded, Told, Moves, ReaderStays, Fault, Types, Own,
    Success
<1>7. Removal'
  BY DEF SyncsStage, Discarded, Told, Types, Owner, Removal
<1>8. Reading'
  BY DEF SyncsStage, ReaderStays, Types, Owner, Secured, Success, Removal, Reading
<1>others. \A s \in Saves \ {writer.save} : cache'[s] = cache[s] /\ disk'[s] = disk[s]
  BY DEF SyncsStage, Discarded, Types
<1>9. Unbroken'
  BY <1>others, StagedUnbroken DEF SyncsStage, RootStays, HistoryStays
<1> QED
  BY <1>1, <1>2, <1>3, <1>4, <1>5, <1>6, <1>7, <1>8, <1>9

LEMMA RenamesInv ==
  ASSUME IInv, Renames
  PROVE  IInv'
<1> USE PackageAssumption DEF IInv
<1>0. writer.save \in Saves
  BY DEF Renames, Owner
<1>1. Types'
  <2>1. writer' \in [at : Step, save : {0} \cup Saves]
    BY DEF Renames, Discarded, Told, Moves, Types
  <2>2. outcome' \in [Saves -> Outcome]
    BY <1>0, ToldFacts DEF Renames, Discarded, Types
  <2>3. cache' \in [Saves -> [Files -> Content]]
    BY <1>0, DiscardedFacts DEF Renames, Types
  <2>4. disk' \in [Saves -> [Files -> Content]]
    BY DEF Renames, Types
  <2>5. /\ flushed' \subseteq Saves /\ dest' \in {0} \cup Saves /\ kept' \subseteq {0} \cup Saves
        /\ UNCHANGED reader
        /\ root' \in {"none", "new", "durable"} /\ undone' \subseteq Saves /\ swept' \subseteq Saves
    BY DEF Renames, ReaderStays, RootStays, HistoryStays, Types
  <2> QED
    BY <2>1, <2>2, <2>3, <2>4, <2>5 DEF Types
<1>2. Own'
  BY <1>0, DiscardedFacts DEF Renames, Own
<1>3. Owner'
  BY DEF Renames, Discarded, Told, Moves, Types, Owner
<1>4. Secured'
  BY DEF Renames, Discarded, Told, Moves, Types, Secured, Removal
<1>5. Synced'
  BY DEF Renames, Discarded, Moves, Types, Secured, Synced, Full
<1>6. Success'
  BY DEF Renames, RootStays, HistoryStays, Discarded, Told, Types, Success
<1>7. Removal'
  BY DEF Renames, Discarded, Told, Types, Owner, Removal
<1>8. Reading'
  BY DEF Renames, ReaderStays, Secured, Reading
<1>9. Unbroken'
  <2>1. CASE Discarded
    <3>1. \A s \in Saves \ {writer.save} : cache'[s] = cache[s]
      BY <2>1 DEF Discarded, Types
    <3>2. UNCHANGED <<disk, kept, undone>>
      BY <2>1 DEF Renames, Discarded, Told, Moves, Types, RootStays, HistoryStays
    <3> QED
      BY <3>1, <3>2, StagedUnbroken DEF Renames
  <2>2. CASE kept' = kept \cup {writer.save} /\ UNCHANGED <<cache, disk, undone>>
    BY <1>0, <2>2 DEF Renames, Secured, Unbroken
  <2> QED
    BY <2>1, <2>2 DEF Renames, RootStays, HistoryStays
<1> QED
  BY <1>1, <1>2, <1>3, <1>4, <1>5, <1>6, <1>7, <1>8, <1>9

LEMMA SyncsRootInv ==
  ASSUME IInv, SyncsRoot
  PROVE  IInv'
<1> USE PackageAssumption DEF IInv
<1>0. writer.save \in Saves
  BY DEF SyncsRoot, Owner
<1>1. Types'
  <2>1. writer' \in [at : Step, save : {0} \cup Saves]
    BY DEF SyncsRoot, Told, Moves, Types
  <2>2. outcome' \in [Saves -> Outcome]
    BY <1>0, ToldFacts DEF SyncsRoot, Types
  <2>3. cache' \in [Saves -> [Files -> Content]]
    BY DEF SyncsRoot, Types
  <2>4. disk' \in [Saves -> [Files -> Content]]
    BY DEF SyncsRoot, Types
  <2>5. /\ flushed' \subseteq Saves /\ dest' \in {0} \cup Saves /\ kept' \subseteq {0} \cup Saves
        /\ UNCHANGED reader
        /\ root' \in {"none", "new", "durable"} /\ undone' \subseteq Saves /\ swept' \subseteq Saves
    BY DEF SyncsRoot, ReaderStays, RootStays, HistoryStays, Types
  <2> QED
    BY <2>1, <2>2, <2>3, <2>4, <2>5 DEF Types
<1>2. Own'
  BY DEF SyncsRoot, Own
<1>3. Owner'
  BY DEF SyncsRoot, Told, Moves, Types, Owner
<1>4. Secured'
  BY DEF SyncsRoot, Told, Moves, Types, Secured
<1>5. Synced'
  BY DEF SyncsRoot, Owner, Synced
<1>6. Success'
  BY DEF SyncsRoot, RootStays, HistoryStays, Told, Types, Owner, Secured, Success
<1>7. Removal'
  BY DEF SyncsRoot, Told, Types, Owner, Removal
<1>8. Reading'
  BY DEF SyncsRoot, ReaderStays, Reading
<1>9. Unbroken'
  BY DEF SyncsRoot, RootStays, HistoryStays, Types, Owner, Unbroken
<1> QED
  BY <1>1, <1>2, <1>3, <1>4, <1>5, <1>6, <1>7, <1>8, <1>9

LEMMA RemovesInv ==
  ASSUME IInv, NEW f \in Files, Removes(f)
  PROVE  IInv'
<1> USE PackageAssumption DEF IInv
<1>0. writer.save \in Saves
  BY DEF Removes, Owner
<1>file. Own' /\ cache' \in [Saves -> [Files -> Content]]
  <2>1. f \in Files /\ UNCHANGED disk
    BY DEF Removes
  <2>2. CASE cache' = [cache EXCEPT ![writer.save][f] = Missing]
    BY <1>0, <2>1, <2>2, OneFile
  <2>3. CASE UNCHANGED cache
    BY <1>0, <2>1, <2>3 DEF Own, Types
  <2> QED
    BY <2>2, <2>3 DEF Removes
<1>1. Types'
  <2>1. writer' \in [at : Step, save : {0} \cup Saves]
    BY DEF Removes, Moves, Types
  <2>2. outcome' \in [Saves -> Outcome]
    BY DEF Removes, Types
  <2>3. cache' \in [Saves -> [Files -> Content]]
    BY <1>file
  <2>4. disk' \in [Saves -> [Files -> Content]]
    BY DEF Removes, Types
  <2>5. /\ flushed' \subseteq Saves /\ dest' \in {0} \cup Saves /\ kept' \subseteq {0} \cup Saves
        /\ UNCHANGED reader
        /\ root' \in {"none", "new", "durable"} /\ undone' \subseteq Saves /\ swept' \subseteq Saves
    BY <1>0 DEF Removes, ReaderStays, Types
  <2> QED
    BY <2>1, <2>2, <2>3, <2>4, <2>5 DEF Types
<1>2. Own'
  BY <1>file
<1>3. Owner'
  BY DEF Removes, Moves, Types, Owner
<1>4. Secured'
  BY DEF Removes, Moves, Types, Secured
<1>5. Synced'
  BY DEF Removes, Types, Owner, Synced
<1>6. Success'
  BY DEF Removes, Owner, Success
<1>7. Removal'
  BY DEF Removes, Removal
<1>8. Reading'
  BY DEF Removes, ReaderStays, Reading
<1>9. Unbroken'
  BY DEF Removes, Types, Owner, Unbroken
<1> QED
  BY <1>1, <1>2, <1>3, <1>4, <1>5, <1>6, <1>7, <1>8, <1>9

LEMMA RemovesDirectoryInv ==
  ASSUME IInv, RemovesDirectory
  PROVE  IInv'
<1> USE PackageAssumption DEF IInv
<1>0. writer.save \in Saves
  BY DEF RemovesDirectory, Owner
<1>1. Types'
  <2>1. writer' \in [at : Step, save : {0} \cup Saves]
    BY DEF RemovesDirectory, Moves, Types
  <2>2. outcome' \in [Saves -> Outcome]
    BY DEF RemovesDirectory, Types
  <2>3. cache' \in [Saves -> [Files -> Content]]
    BY DEF RemovesDirectory, Types
  <2>4. disk' \in [Saves -> [Files -> Content]]
    BY DEF RemovesDirectory, Types
  <2>5. /\ flushed' \subseteq Saves /\ dest' \in {0} \cup Saves /\ kept' \subseteq {0} \cup Saves
        /\ UNCHANGED reader
        /\ root' \in {"none", "new", "durable"} /\ undone' \subseteq Saves /\ swept' \subseteq Saves
    BY DEF RemovesDirectory, ReaderStays, RootStays, HistoryStays, Types
  <2> QED
    BY <2>1, <2>2, <2>3, <2>4, <2>5 DEF Types
<1>2. Own'
  BY DEF RemovesDirectory, Own
<1>3. Owner'
  BY DEF RemovesDirectory, Moves, Owner
<1>4. Secured'
  BY DEF RemovesDirectory, Moves, Secured
<1>5. Synced'
  BY DEF RemovesDirectory, Synced
<1>6. Success'
  BY DEF RemovesDirectory, RootStays, HistoryStays, Owner, Success
<1>7. Removal'
  BY DEF RemovesDirectory, Removal
<1>8. Reading'
  BY DEF RemovesDirectory, ReaderStays, Reading
<1>9. Unbroken'
  BY DEF RemovesDirectory, RootStays, HistoryStays, Types, Owner, Unbroken
<1> QED
  BY <1>1, <1>2, <1>3, <1>4, <1>5, <1>6, <1>7, <1>8, <1>9

LEMMA ResyncsInv ==
  ASSUME IInv, Resyncs
  PROVE  IInv'
<1> USE PackageAssumption DEF IInv
<1>0. writer.save \in Saves
  BY DEF Resyncs, Owner
<1>1. Types'
  <2>1. writer' \in [at : Step, save : {0} \cup Saves]
    BY DEF Resyncs, Told, Moves, Types
  <2>2. outcome' \in [Saves -> Outcome]
    BY <1>0, ToldFacts DEF Resyncs, Types
  <2>3. cache' \in [Saves -> [Files -> Content]]
    BY DEF Resyncs, Types
  <2>4. disk' \in [Saves -> [Files -> Content]]
    BY DEF Resyncs, Types
  <2>5. /\ flushed' \subseteq Saves /\ dest' \in {0} \cup Saves /\ kept' \subseteq {0} \cup Saves
        /\ UNCHANGED reader
        /\ root' \in {"none", "new", "durable"} /\ undone' \subseteq Saves /\ swept' \subseteq Saves
    BY DEF Resyncs, ReaderStays, RootStays, HistoryStays, Types
  <2> QED
    BY <2>1, <2>2, <2>3, <2>4, <2>5 DEF Types
<1>2. Own'
  BY DEF Resyncs, Own
<1>3. Owner'
  BY DEF Resyncs, Told, Moves, ReaderStays, Types, Owner
<1>4. Secured'
  BY DEF Resyncs, Told, Moves, Types, Secured
<1>5. Synced'
  BY DEF Resyncs, Owner, Synced
<1>6. Success'
  BY DEF Resyncs, RootStays, HistoryStays, Told, Types, Success
<1>7. Removal'
  BY DEF Resyncs, Told, Types, Owner, Removal
<1>8. Reading'
  BY DEF Resyncs, ReaderStays, Reading
<1>9. Unbroken'
  BY DEF Resyncs, RootStays, HistoryStays, Types, Owner, Unbroken
<1> QED
  BY <1>1, <1>2, <1>3, <1>4, <1>5, <1>6, <1>7, <1>8, <1>9

-----------------------------------------------------------------------------
\* The reader changes nothing but what it knows.
LEMMA ReaderOnly ==
  ASSUME IInv, StoreStays
  PROVE  Own' /\ Owner' /\ Secured' /\ Synced' /\ Unbroken' /\ Success' /\ Removal'
BY DEF StoreStays, IInv, Own, Owner, Secured, Synced, Unbroken, Success, Removal, Full

\* A manifest that shows with all its files belongs to a package the disk has.
LEMMA SeesManifestInv ==
  ASSUME IInv, NEW from, NEW to \in {"load", "reread"}, SeesManifest(from, to)
  PROVE  IInv'
<1> USE PackageAssumption DEF IInv
<1>1. StoreStays
  BY DEF SeesManifest
<1>2. CASE reader' = Idle
  BY <1>1, <1>2, ReaderOnly DEF StoreStays, Types, Reading, Idle
<1>3. CASE /\ reader' = [Idle EXCEPT !.at = to, !.manifest = Shown["manifest"]]
           /\ ExactFiles(Shown)
  <2>1. CASE dest = 0
    BY <1>3, <2>1 DEF Shown, ExactFiles
  <2>2. CASE dest # 0
    <3>1. dest \in Saves /\ Shown = cache[dest] /\ Shown["manifest"] \in Content
      BY <2>2 DEF Types, Shown
    <3>2. \A f \in Files : cache[dest][f] = dest
      BY <1>3, <3>1 DEF Own, ExactFiles
    <3>3. Full(disk[dest], dest)
      BY <2>2, <3>2 DEF Synced, Full
    <3>4. Types'
      BY <1>1, <1>3, <3>1 DEF StoreStays, Types, Idle
    <3>5. Reading'
      BY <1>1, <1>3, <3>3 DEF StoreStays, Reading, Idle, Full
    <3> QED
      BY <1>1, <3>4, <3>5, ReaderOnly
  <2> QED
    BY <2>1, <2>2
<1> QED
  BY <1>2, <1>3 DEF SeesManifest

LEMMA SeesFilesInv ==
  ASSUME IInv, NEW from \in {"load", "reread"}, NEW to \in {"loaded", "parse"},
         SeesFiles(from, to)
  PROVE  IInv'
<1> USE PackageAssumption DEF IInv
<1>1. StoreStays
  BY DEF SeesFiles
<1>2. reader' = [reader EXCEPT !.at = to] \/ reader' = Idle
  BY DEF SeesFiles
<1>3. Types'
  <2>1. reader' \in [at : {"idle", "load", "loaded", "reread", "parse", "done"},
                     manifest : Content, place : Content]
    <3>1. Idle \in [at : {"idle", "load", "loaded", "reread", "parse", "done"},
                    manifest : Content, place : Content]
      BY DEF Idle
    <3>2. [reader EXCEPT !.at = to] \in
            [at : {"idle", "load", "loaded", "reread", "parse", "done"},
             manifest : Content, place : Content]
      BY DEF Types
    <3> QED
      BY <1>2, <3>1, <3>2
  <2> QED
    BY <1>1, <2>1 DEF StoreStays, Types
<1>4. Reading'
  BY <1>1, <1>2 DEF SeesFiles, StoreStays, Types, Reading, Idle, Full
<1> QED
  BY <1>1, <1>3, <1>4, ReaderOnly

LEMMA ParsesInv ==
  ASSUME IInv, NEW f \in Artifacts, Parses(f)
  PROVE  IInv'
<1> USE PackageAssumption DEF IInv
<1>1. StoreStays
  BY DEF Parses
<1>2. CASE reader' = Idle
  BY <1>1, <1>2, ReaderOnly DEF StoreStays, Types, Reading, Idle
<1>3. CASE /\ reader' = [reader EXCEPT !.at = "done", !.place = Shown[f]]
           /\ Shown[f] # Missing
  <2>1. dest \in Saves /\ Shown[f] = dest
    BY <1>3 DEF Types, Own, Shown
  <2>2. Full(disk[dest], dest)
    BY <2>1 DEF Parses, Reading
  <2>3. Types'
    BY <1>1, <1>3, <2>1 DEF StoreStays, Types
  <2>4. Reading'
    BY <1>1, <1>3, <2>1, <2>2 DEF StoreStays, Types, Reading, Full
  <2> QED
    BY <1>1, <2>3, <2>4, ReaderOnly
<1> QED
  BY <1>2, <1>3 DEF Parses

LEMMA ReadEndsInv ==
  ASSUME IInv, ReadEnds
  PROVE  IInv'
<1>1. StoreStays /\ reader' = Idle
  BY DEF ReadEnds
<1> QED
  BY <1>1, ReaderOnly, PackageAssumption DEF IInv, StoreStays, Types, Reading, Idle

\* A crash leaves in the destination what was synced, or less of it.
LEMMA CrashLeavesRootInv ==
  ASSUME IInv, Crash, CrashLeavesRoot
  PROVE  IInv'
<1> USE PackageAssumption DEF IInv
<1>1. PICK d \in kept, left \in [Files -> Content] :
        /\ IF d = 0 THEN left = Empty ELSE \A f \in Files : left[f] \in Survivors(d, f)
        /\ dest' = d /\ kept' = {d}
        /\ cache' = [s \in Saves |-> IF s = d THEN left ELSE cache[s]]
        /\ disk' = [s \in Saves |-> IF s = d THEN left ELSE disk[s]]
  BY DEF CrashLeavesRoot
<1>2. /\ writer' = [writer EXCEPT !.at = "idle"] /\ reader' = Idle
      /\ UNCHANGED <<flushed, outcome, undone, swept>>
      /\ root' \in {"none", "durable"}
  BY DEF Crash, CrashLeavesRoot, Moves
<1>3. d \in {0} \cup Saves /\ (d # 0 => d \in flushed)
  BY DEF Types, Synced
<1>4. d # 0 => \A f \in Files : left[f] \in {Missing, d}
  BY <1>1, <1>3 DEF Survivors, Own
<1>left. ASSUME d # 0, Full(cache[d], d), Full(disk[d], d)
         PROVE  Full(left, d)
  BY <1>1, <1>left DEF Survivors, Full
<1>5. Types'
  <2>1. cache' \in [Saves -> [Files -> Content]] /\ disk' \in [Saves -> [Files -> Content]]
    BY <1>1 DEF Types
  <2> QED
    BY <1>1, <1>2, <1>3, <2>1 DEF Types, Idle
<1>6. Own'
  BY <1>1, <1>4 DEF Own
<1>7. Owner'
  BY <1>1, <1>2, <1>3 DEF Types, Owner
<1>8. Secured'
  BY <1>2 DEF Types, Secured
<1>9. Synced'
  BY <1>1, <1>2, <1>3 DEF Synced
<1>10. Unbroken'
  <2> SUFFICES ASSUME d # 0, d \notin undone
               PROVE  Full(cache'[d], d) /\ Full(disk'[d], d)
    BY <1>1, <1>2 DEF Unbroken
  <2>1. Full(left, d)
    BY <1>left DEF Unbroken
  <2>2. cache'[d] = left /\ disk'[d] = left
    BY <1>1, <1>3
  <2> QED
    BY <2>1, <2>2
<1>11. Success'
  <2> SUFFICES ASSUME NEW s \in Saves \ swept, outcome[s] = "succeeded"
               PROVE  /\ dest' = s /\ kept' = {s}
                      /\ Full(cache'[s], s) /\ Full(disk'[s], s)
    BY <1>2 DEF Success
  <2>1. d = s /\ Full(cache[s], s) /\ Full(disk[s], s)
    BY DEF Success
  <2>2. Full(left, s)
    BY <1>left, <2>1
  <2>3. cache'[s] = left /\ disk'[s] = left
    BY <1>1, <2>1
  <2> QED
    BY <1>1, <2>1, <2>2, <2>3
<1>12. Removal'
  BY <1>1, <1>2 DEF Removal
<1>13. Reading'
  BY <1>2 DEF Reading, Idle
<1> QED
  BY <1>5, <1>6, <1>7, <1>8, <1>9, <1>10, <1>11, <1>12, <1>13

\* A crash that takes a new root leaves nothing that could come back, and sweeps every
\* save before it.
LEMMA CrashTakesRootInv ==
  ASSUME IInv, Crash, CrashTakesRoot
  PROVE  IInv'
<1> USE DEF IInv
<1>1. /\ writer' = [writer EXCEPT !.at = "idle"] /\ reader' = Idle
      /\ dest' = 0 /\ kept' = {0} /\ root' = "none" /\ swept' = 1..writer.save
      /\ UNCHANGED <<cache, disk, flushed, outcome, undone>>
  BY DEF Crash, CrashTakesRoot, Moves
<1>2. Types'
  <2>1. writer' \in [at : Step, save : {0} \cup Saves] /\ swept' \subseteq Saves
    BY <1>1, PackageAssumption DEF Types
  <2>2. reader' \in [at : {"idle", "load", "loaded", "reread", "parse", "done"},
                     manifest : Content, place : Content]
    BY <1>1 DEF Idle
  <2> QED
    BY <1>1, <2>1, <2>2 DEF Types
<1>3. Own'
  BY <1>1 DEF Own
<1>4. Owner'
  BY <1>1 DEF Types, Owner
<1>5. Secured'
  BY <1>1 DEF Types, Secured
<1>6. Synced' /\ Unbroken' /\ Removal'
  BY <1>1 DEF Synced, Unbroken, Removal
<1>7. Success'
  BY <1>1 DEF Types, Owner, Success
<1>8. Reading'
  BY <1>1 DEF Reading, Idle
<1> QED
  BY <1>2, <1>3, <1>4, <1>5, <1>6, <1>7, <1>8

LEMMA NextInv ==
  ASSUME IInv, [Next]_vars
  PROVE  IInv'
<1>1. CASE Write
  BY <1>1, SaveBeginsInv, CapturesInv, CopiesInv, WritesManifestInv, ValidatesInv,
     SyncsStageInv, RenamesInv, SyncsRootInv, RemovesInv, RemovesDirectoryInv, ResyncsInv
     DEF Write
<1>2. CASE Read
  BY <1>2, SeesManifestInv, SeesFilesInv, ParsesInv, ReadEndsInv
     DEF Read, LoadBegins, LoadChecks, Rereads, Rechecks
<1>3. CASE Crash
  BY <1>3, CrashLeavesRootInv, CrashTakesRootInv DEF Crash
<1>4. CASE UNCHANGED vars
  <2>1. StoreStays /\ UNCHANGED reader
    BY <1>4 DEF vars, StoreStays
  <2>2. Types'
    BY <2>1 DEF StoreStays, IInv, Types
  <2>3. Reading'
    BY <2>1 DEF StoreStays, IInv, Reading, Full
  <2> QED
    BY <2>1, <2>2, <2>3, ReaderOnly DEF IInv
<1> QED
  BY <1>1, <1>2, <1>3, <1>4 DEF Next

LEMMA Invariance == Spec => []IInv
<1>1. IInv /\ [Next]_vars => IInv'
  BY NextInv
<1> QED
  BY InitInv, <1>1, PTL DEF Spec

-----------------------------------------------------------------------------
(***************************************************************************)
(* What follows for the callers.                                           *)
(***************************************************************************)
\* A save that reported success stays in the destination, whole, on every disk a
\* crash can leave, unless the root was new and the crash took it (publish, sync_path).
THEOREM SuccessLasts == Spec => []SucceededIsDurable
<1>1. IInv => SucceededIsDurable
  BY PackageAssumption DEF IInv, Success, SucceededIsDurable, Full, Whole
<1> QED
  BY Invariance, <1>1, PTL

\* Below a root that was there, on the disk, from the start, a crash sweeps nothing, so
\* that SucceededIsDurable holds of every save (create_directories of an existing root).
THEOREM OldRootStays == Spec /\ root = "durable" => [](swept = {})
<1> DEFINE Old == root = "durable" /\ swept = {}
<1>1. Init /\ root = "durable" => Old
  BY DEF Init
<1>2. Old /\ [Next]_vars => Old'
  BY DEF Next, Write, SaveBegins, Captures, Copies, WritesManifest, Validates, SyncsStage,
     Renames, SyncsRoot, Removes, RemovesDirectory, Resyncs, Read, LoadBegins, LoadChecks,
     Rereads, Rechecks, SeesManifest, SeesFiles, Parses, ReadEnds, Crash, CrashLeavesRoot,
     CrashTakesRoot, RootStays, HistoryStays, StoreStays, Made, vars
<1>3. Old => swept = {}
  OBVIOUS
<1> QED
  BY <1>1, <1>2, <1>3, PTL DEF Spec

\* A package that a save reported removed, or never published, does not come back
\* (publish, remove_all and the second sync of the root).
THEOREM RemovalLasts == Spec => []RemovedIsGone
<1>1. IInv => RemovedIsGone
  BY DEF IInv, Removal, Owner, RemovedIsGone
<1> QED
  BY Invariance, <1>1, PTL

\* No crash leaves a package in the destination that is torn, or that lacks a file
\* which no removal has taken (publish: validation, sync of the stage, then rename).
THEOREM AlwaysWhole == Spec => []PublishedIsWhole
<1>1. IInv => PublishedIsWhole
  <2> SUFFICES ASSUME IInv, dest # 0
               PROVE  \/ Whole(cache[dest])
                      \/ dest \in undone /\ \A f \in Files : cache[dest][f] \in {Missing, dest}
    BY DEF PublishedIsWhole
  <2>1. dest \in Saves /\ dest \in kept
    BY DEF IInv, Types, Owner
  <2>2. CASE dest \in undone
    BY <2>1, <2>2 DEF IInv, Own
  <2>3. CASE dest \notin undone
    BY <2>1, <2>3, PackageAssumption DEF IInv, Unbroken, Full, Whole
  <2> QED
    BY <2>2, <2>3
<1> QED
  BY Invariance, <1>1, PTL

\* A place that a goal is admitted with comes from a package that was whole on the
\* disk before it showed (load, read_named_place).
THEOREM ReaderSeesWhole == Spec => []ReadIsWhole
<1>1. IInv => ReadIsWhole
  BY PackageAssumption DEF IInv, Reading, ReadIsWhole, Full, Whole
<1> QED
  BY Invariance, <1>1, PTL

=============================================================================
