---------------------------- MODULE ExternalMemory ----------------------------
(***************************************************************************)
(* The chunk cache of external_memory.mojo: processes that share one       *)
(* CacheLayout spill a one-shot source, build a cache in several passes,   *)
(* reopen it, load it for training and discard it, any of them dying       *)
(* between any two file operations.                                        *)
(*                                                                         *)
(* A file is written in two steps, because open(path, "w") truncates it    *)
(* before the text is there, and read in one.  A text is the record of     *)
(* what it describes, and its checksum is that record: checksums that      *)
(* collide are left out.  A file that is missing, empty or a torn prefix   *)
(* is Blank; no checksum matches it, and a manifest cut short lacks its    *)
(* closing "end".  The categorical tally, byte budgets and the sparse      *)
(* twins of the dense operations are left out.                             *)
(***************************************************************************)
EXTENDS Integers, Sequences

CONSTANTS
    Procs,      \* the processes that use the layout
    Data,       \* what a source may deliver
    MaxCut,     \* bound on the chunks a source is cut into
    MaxPrograms \* bound on the builds and openings, one after another or at once

ASSUME CutAssumption == MaxCut \in Nat \ {0}
ASSUME ProgramAssumption == MaxPrograms \in Nat

VARIABLES
    disk,       \* [file name -> text]
    pc,         \* [process -> what it is doing; "idle" between programs]
    at,         \* [process -> the chunk or file it is at]
    half,       \* [process -> its file is truncated and not yet written]
    source,     \* [process -> the data and cut it builds from]
    spilt,      \* [process -> whether it reads its source from raw files]
    rowsOf,     \* [process -> the data its row fields were gathered from]
    edgesOf,    \* [process -> the data its bin edges were fitted to]
    rec,        \* [process -> the records of the chunks it transformed]
    held,       \* [process -> the manifest of its ExternalDataset]
    loaded,     \* [process -> the texts of the load in progress]
    trusted,    \* [process -> it built its dataset, or verified it on opening]
    disturbed,  \* history: processes another has written beside since then
    programs,   \* how many builds and openings were started
    contended   \* history: two writers met, or one built over a cache

build == <<source, spilt, rowsOf, edgesOf, rec>>
handle == <<held, loaded, trusted>>
history == <<disturbed, contended>>
vars == <<disk, pc, at, half, build, handle, programs, history>>

Sources == [data : Data, cut : 1 .. MaxCut]
Manifest == <<"manifest", 0>>
FieldsFile == <<"fields", 0>>
Bins(i) == <<"bins", i>>
Raw(i) == <<"raw", i>>
Files == {Manifest, FieldsFile} \cup {Bins(i) : i \in 1 .. MaxCut}
                                \cup {Raw(i) : i \in 1 .. MaxCut}
Blank == [kind |-> "blank"]

RawText(d, n, i) == [kind |-> "raw", data |-> d, cut |-> n, index |-> i]
FieldsText(rows) == [kind |-> "fields", rows |-> rows]
BinsText(c, edges, i) ==
    [kind |-> "bins", data |-> c.data, cut |-> c.cut, edges |-> edges, index |-> i]
ManifestText(edges, rows, chunks) ==
    [kind |-> "manifest", edges |-> edges, fields |-> FieldsText(rows),
     chunks |-> chunks]

\* The chunks and the manifest of a cache that is s from end to end.
ChunkOf(s, i) == BinsText(RawText(s.data, s.cut, i), {s.data}, i)
CacheOf(s) == ManifestText({s.data}, {s.data}, [i \in 1 .. s.cut |-> ChunkOf(s, i)])

\* Mutant: any whole file of the right kind will do.
MatchesKind(text, expected) == text.kind = expected.kind

\* _read_file: the checksum of what was read is the recorded one.
Matches(text, expected) == text = expected

\* What next_chunk of p's source delivers: its own memory, or the raw file.
Delivered(p) ==
    IF spilt[p] THEN disk[Raw(at[p])]
    ELSE RawText(source[p].data, source[p].cut, at[p])
ChunkReads(p) ==
    Matches(Delivered(p), RawText(source[p].data, source[p].cut, at[p]))

\* Mutant: the manifest is the last file to be emptied.
PathsManifestLast(m) ==
    [i \in 1 .. Len(m.chunks) |-> Bins(i)] \o <<FieldsFile, Manifest>>

\* paths(): the manifest first.
Paths(m) == <<Manifest, FieldsFile>> \o [i \in 1 .. Len(m.chunks) |-> Bins(i)]

\* Mutant: the last chunk is never looked at.
VerifyPathsShort(m) == <<FieldsFile>> \o [i \in 1 .. Len(m.chunks) - 1 |-> Bins(i)]

\* The files verify reads, and the order in which it does.
VerifyPaths(m) == <<FieldsFile>> \o [i \in 1 .. Len(m.chunks) |-> Bins(i)]

\* The files a training run loads: materialize_binned, then row_fields.
LoadPaths(m) == [i \in 1 .. Len(m.chunks) |-> Bins(i)] \o <<FieldsFile>>

\* What the manifest records of a file.
Recorded(m, f) == IF f = FieldsFile THEN m.fields ELSE m.chunks[f[2]]

Writing(p) == pc[p] \in {"transform", "fields", "manifest", "discard"}
Published == disk[Manifest].kind = "manifest"

Init ==
    /\ disk = [f \in Files |-> Blank]
    /\ pc = [p \in Procs |-> "idle"]
    /\ at = [p \in Procs |-> 1]
    /\ half = [p \in Procs |-> FALSE]
    /\ source = [p \in Procs |-> Blank]
    /\ spilt = [p \in Procs |-> FALSE]
    /\ rowsOf = [p \in Procs |-> {}]
    /\ edgesOf = [p \in Procs |-> {}]
    /\ rec = [p \in Procs |-> <<>>]
    /\ held = [p \in Procs |-> Blank]
    /\ loaded = [p \in Procs |-> <<>>]
    /\ trusted = [p \in Procs |-> FALSE]
    /\ programs = 0
    /\ disturbed = {}
    /\ contended = FALSE

Goto(p, l) == pc' = [pc EXCEPT ![p] = l] /\ at' = [at EXCEPT ![p] = 1]
\* On to the next of n files or chunks, or past the last of them to l.
Step(p, n, l) ==
    IF at[p] < n THEN at' = [at EXCEPT ![p] = @ + 1] /\ UNCHANGED pc ELSE Goto(p, l)

\* p raises or dies: its locals are gone, and whatever is on disk stays there.
Abandon(p) ==
    /\ Goto(p, "idle")
    /\ half' = [half EXCEPT ![p] = FALSE]
    /\ source' = [source EXCEPT ![p] = Blank]
    /\ spilt' = [spilt EXCEPT ![p] = FALSE]
    /\ rowsOf' = [rowsOf EXCEPT ![p] = {}]
    /\ edgesOf' = [edgesOf EXCEPT ![p] = {}]
    /\ rec' = [rec EXCEPT ![p] = <<>>]
    /\ held' = [held EXCEPT ![p] = Blank]
    /\ loaded' = [loaded EXCEPT ![p] = <<>>]
    /\ trusted' = [trusted EXCEPT ![p] = FALSE]

-----------------------------------------------------------------------------
(* Writing files. *)

\* open(path, "w"): whatever the file held is gone.
Truncate(p, f) ==
    /\ half[p] = FALSE
    /\ half' = [half EXCEPT ![p] = TRUE]
    /\ disk' = [disk EXCEPT ![f] = Blank]

\* f.write and close.
Store(p, f, text) ==
    /\ half[p]
    /\ half' = [half EXCEPT ![p] = FALSE]
    /\ disk' = [disk EXCEPT ![f] = text]

Others(p) == Procs \ {p}
\* A cache file changed under everyone else.
Disturbs(p) == disturbed' = disturbed \cup Others(p)
\* p changes its first cache file: does it meet another writer, or a cache?
Enters(p, rebuilds) ==
    contended' = (contended \/ rebuilds \/ \E q \in Others(p) : Writing(q))

StartProgram == programs < MaxPrograms /\ programs' = programs + 1

-----------------------------------------------------------------------------
(* Building. *)

\* From a source that can be read again, or through a spill of one that cannot.
StartBuild(p) == \E s \in Sources, spill \in BOOLEAN :
    /\ pc[p] = "idle" /\ StartProgram
    /\ source' = [source EXCEPT ![p] = s]
    /\ spilt' = [spilt EXCEPT ![p] = spill]
    /\ Goto(p, IF spill THEN "spill" ELSE "census")
    /\ UNCHANGED <<disk, half, rowsOf, edgesOf, rec, handle, history>>

SpillOpen(p) ==
    /\ pc[p] = "spill"
    /\ Truncate(p, Raw(at[p]))
    /\ UNCHANGED <<pc, at, build, handle, programs, history>>

SpillWrite(p) ==
    /\ pc[p] = "spill"
    /\ Store(p, Raw(at[p]), RawText(source[p].data, source[p].cut, at[p]))
    /\ Step(p, source[p].cut, "census")
    /\ UNCHANGED <<build, handle, programs, history>>

\* gather_row_fields.
Census(p) ==
    /\ pc[p] = "census" /\ ChunkReads(p)
    /\ rowsOf' = [rowsOf EXCEPT ![p] = @ \cup {Delivered(p).data}]
    /\ Step(p, source[p].cut, "fit")
    /\ UNCHANGED <<disk, half, source, spilt, edgesOf, rec, handle, programs, history>>

\* fit_mapper_external: its passes over the feature blocks, taken as one.
Fit(p) ==
    /\ pc[p] = "fit" /\ ChunkReads(p)
    /\ edgesOf' = [edgesOf EXCEPT ![p] = @ \cup {Delivered(p).data}]
    /\ Step(p, source[p].cut, "transform")
    /\ UNCHANGED <<disk, half, source, spilt, rowsOf, rec, handle, programs, history>>

\* The transform pass reads and bins a chunk and opens its file, ...
TransformOpen(p) ==
    /\ pc[p] = "transform" /\ ChunkReads(p)
    /\ Truncate(p, Bins(at[p]))
    /\ rec' = [rec EXCEPT ![p] = Append(@, BinsText(Delivered(p), edgesOf[p], at[p]))]
    /\ IF at[p] = 1 THEN Enters(p, Published) /\ disturbed' = Others(p)
                    ELSE Disturbs(p) /\ UNCHANGED contended
    /\ UNCHANGED <<pc, at, source, spilt, rowsOf, edgesOf, handle, programs>>

\* ... then writes it.
TransformWrite(p) ==
    /\ pc[p] = "transform"
    /\ Store(p, Bins(at[p]), rec[p][at[p]])
    /\ Step(p, source[p].cut, "fields")
    /\ Disturbs(p)
    /\ UNCHANGED <<build, handle, programs, contended>>

\* The files that follow the chunks, in their order: row fields, then manifest.
LastFile(p) == IF pc[p] = "fields" THEN FieldsFile ELSE Manifest
OwnManifest(p) == ManifestText(edgesOf[p], rowsOf[p], rec[p])

LastOpen(p) ==
    /\ pc[p] \in {"fields", "manifest"}
    /\ Truncate(p, LastFile(p))
    /\ Disturbs(p)
    /\ UNCHANGED <<pc, at, build, handle, programs, contended>>

FieldsWrite(p) ==
    /\ pc[p] = "fields"
    /\ Store(p, FieldsFile, FieldsText(rowsOf[p]))
    /\ Goto(p, "manifest")
    /\ Disturbs(p)
    /\ UNCHANGED <<build, handle, programs, contended>>

\* The build is published, and returns its dataset.
ManifestWrite(p) ==
    /\ pc[p] = "manifest"
    /\ Store(p, Manifest, OwnManifest(p))
    /\ held' = [held EXCEPT ![p] = OwnManifest(p)]
    /\ trusted' = [trusted EXCEPT ![p] = TRUE]
    /\ Goto(p, "ready")
    /\ Disturbs(p)
    /\ UNCHANGED <<build, loaded, programs, contended>>

\* next_chunk raises on a raw file that is not what was spilled.
SourceRaises(p) ==
    /\ pc[p] \in {"census", "fit", "transform"} /\ ~half[p] /\ ~ChunkReads(p)
    /\ Abandon(p)
    /\ UNCHANGED <<disk, programs, history>>

\* cancel.check(), once per chunk and at the end of a pass.
Cancelled(p) ==
    /\ pc[p] \in {"spill", "census", "fit", "transform"} /\ ~half[p]
    /\ Abandon(p)
    /\ UNCHANGED <<disk, programs, history>>

-----------------------------------------------------------------------------
(* Using a cache. *)

\* open_external_dataset with the mapper fitted to d.
Open(p) == \E d \in Data, verify \in BOOLEAN :
    /\ pc[p] = "idle" /\ StartProgram
    /\ Published /\ disk[Manifest].edges = {d}
    /\ held' = [held EXCEPT ![p] = disk[Manifest]]
    /\ trusted' = [trusted EXCEPT ![p] = verify]
    /\ disturbed' = disturbed \ {p}
    /\ Goto(p, IF verify THEN "verify" ELSE "ready")
    /\ UNCHANGED <<disk, half, build, loaded, contended>>

\* No whole manifest, or one of another binning: nothing is opened.
OpenRaises(p) == \E d \in Data :
    /\ pc[p] = "idle" /\ StartProgram
    /\ ~(Published /\ disk[Manifest].edges = {d})
    /\ UNCHANGED <<disk, pc, at, half, build, handle, history>>

FileReads(p, f) == Matches(disk[f], Recorded(held[p], f))

Verify(p) == LET paths == VerifyPaths(held[p]) IN
    /\ pc[p] = "verify"
    /\ FileReads(p, paths[at[p]])
    /\ Step(p, Len(paths), "ready")
    /\ UNCHANGED <<disk, half, build, handle, programs, history>>

VerifyRaises(p) ==
    /\ pc[p] = "verify"
    /\ ~FileReads(p, VerifyPaths(held[p])[at[p]])
    /\ Abandon(p)
    /\ UNCHANGED <<disk, programs, history>>

Live(p) == pc[p] \in {"ready", "raised"}

StartLoad(p) ==
    /\ Live(p)
    /\ Goto(p, "load")
    /\ loaded' = [loaded EXCEPT ![p] = <<>>]
    /\ UNCHANGED <<disk, half, build, held, trusted, programs, history>>

Load(p) == LET paths == LoadPaths(held[p]) IN
    /\ pc[p] = "load"
    /\ IF FileReads(p, paths[at[p]])
       THEN /\ loaded' = [loaded EXCEPT ![p] = Append(@, disk[paths[at[p]]])]
            /\ Step(p, Len(paths), "ready")
       ELSE Goto(p, "raised") /\ UNCHANGED loaded
    /\ UNCHANGED <<disk, half, build, held, trusted, programs, history>>

StartDiscard(p) ==
    /\ Live(p)
    /\ Goto(p, "discard")
    /\ UNCHANGED <<disk, half, build, handle, programs, history>>

\* A file is emptied: truncated, and nothing written to it.
Discard(p) == LET paths == Paths(held[p]) IN
    /\ pc[p] = "discard"
    /\ disk' = [disk EXCEPT ![paths[at[p]]] = Blank]
    /\ Disturbs(p)
    /\ IF at[p] = 1 THEN Enters(p, FALSE) ELSE UNCHANGED contended
    /\ IF at[p] < Len(paths)
       THEN Step(p, Len(paths), "idle") /\ UNCHANGED <<half, build, handle>>
       ELSE Abandon(p)
    /\ UNCHANGED programs

Crash(p) ==
    /\ pc[p] # "idle"
    /\ Abandon(p)
    /\ UNCHANGED <<disk, programs, history>>

Finished ==
    /\ \A p \in Procs : pc[p] = "idle"
    /\ UNCHANGED vars

Next ==
    \/ \E p \in Procs :
        \/ StartBuild(p) \/ SpillOpen(p) \/ SpillWrite(p) \/ Census(p) \/ Fit(p)
        \/ TransformOpen(p) \/ TransformWrite(p) \/ LastOpen(p) \/ FieldsWrite(p)
        \/ ManifestWrite(p) \/ SourceRaises(p) \/ Cancelled(p) \/ Open(p)
        \/ OpenRaises(p) \/ Verify(p) \/ VerifyRaises(p) \/ StartLoad(p) \/ Load(p)
        \/ StartDiscard(p) \/ Discard(p) \/ Crash(p)
    \/ Finished

Spec == Init /\ [][Next]_vars

-----------------------------------------------------------------------------
(* Properties. *)

Running == {"idle", "spill", "census", "fit", "transform", "fields", "manifest",
            "ready", "verify", "load", "raised", "discard"}
ChunkTexts == [kind : {"bins"}, data : Data, cut : 1 .. MaxCut,
               edges : SUBSET Data, index : 1 .. MaxCut]
FieldsTexts == [kind : {"fields"}, rows : SUBSET Data]

\* Types of the variables; a build records at most the chunk it is at, and a
\* load has read exactly the files before the one it is at.
TypeOK ==
    /\ pc \in [Procs -> Running]
    /\ at \in [Procs -> 1 .. MaxCut + 2]
    /\ half \in [Procs -> BOOLEAN]
    /\ source \in [Procs -> Sources \cup {Blank}]
    /\ spilt \in [Procs -> BOOLEAN]
    /\ rowsOf \in [Procs -> SUBSET Data]
    /\ edgesOf \in [Procs -> SUBSET Data]
    /\ rec \in [Procs -> Seq(ChunkTexts)]
    /\ loaded \in [Procs -> Seq(ChunkTexts \cup FieldsTexts)]
    /\ DOMAIN held = Procs
    /\ trusted \in [Procs -> BOOLEAN]
    /\ programs \in 0 .. MaxPrograms
    /\ disturbed \subseteq Procs
    /\ contended \in BOOLEAN
    /\ DOMAIN disk = Files
    /\ \A p \in Procs :
        /\ pc[p] \in {"spill", "census", "fit", "transform"} =>
              at[p] <= source[p].cut /\ Len(rec[p]) <= source[p].cut
        /\ pc[p] = "load" => Len(loaded[p]) = at[p] - 1

\* A manifest, on disk or in a handle, describes one source from end to end:
\* the row fields, the edges and every chunk are of the same data in the same
\* cut, whoever else was spilling or building in the layout at the time.
CacheIsOfOneSource ==
    /\ Published => \E s \in Sources : disk[Manifest] = CacheOf(s)
    /\ \A p \in Procs : held[p] # Blank => \E s \in Sources : held[p] = CacheOf(s)

\* Whatever a handle has loaded is what the build it opened wrote, file by
\* file: never bins of another build, of a failed rebuild, or a torn file.
LoadsItsOwnBuild ==
    \A p \in Procs : \A i \in 1 .. Len(loaded[p]) :
        loaded[p][i] = Recorded(held[p], LoadPaths(held[p])[i])

\* As long as no two writers met and none built over a cache, a manifest that
\* can be opened names files that are all there: a build that died, or a
\* discard that died half way, has left nothing that opens.
PublishedIsWhole ==
    (Published /\ ~contended) =>
        LET m == disk[Manifest] IN
        \A f \in {FieldsFile} \cup {Bins(i) : i \in 1 .. Len(m.chunks)} :
            disk[f] = Recorded(m, f)

\* A dataset its process built, or verified on opening, loads without an error
\* until some other process writes to the layout.
TrustedLoadsSucceed ==
    \A p \in Procs : (pc[p] = "raised" /\ trusted[p]) => p \in disturbed

\* Does not hold (README, divergences): a dataset opened before a rebuild
\* empties the newer cache, because discard goes by paths alone.
DiscardsOnlyItsOwn ==
    [][\A p \in Procs :
        (pc[p] = "discard" /\ Published /\ disk'[Manifest] = Blank /\ half' = half)
            => disk[Manifest] = held[p]]_vars
=============================================================================
