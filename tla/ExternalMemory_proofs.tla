------------------------ MODULE ExternalMemory_proofs ------------------------
(***************************************************************************)
(* For any number of processes, data and chunks: a manifest describes one  *)
(* source from end to end, a load is of the build that was opened, a       *)
(* manifest that opens names whole files, and a trusted dataset loads.     *)
(*                                                                         *)
(* The invariant says of each process how far it has come: which data its  *)
(* census and its edges have seen, and that the records of its transform   *)
(* pass are a prefix of the cache of its source.  Other processes only     *)
(* reach it through the disk, and everything it takes from there has been  *)
(* compared with what it recorded.                                         *)
(*                                                                         *)
(* Of the files, it says that while no two writers have met, one process at*)
(* most stands between its first and last cache file, that no manifest is  *)
(* beside it, and that what it wrote is still there; and that a process    *)
(* nobody wrote beside finds its files as it wrote or verified them.       *)
(***************************************************************************)
EXTENDS ExternalMemory, SequenceTheorems, TLAPS

Texts == ChunkTexts \cup FieldsTexts
Building == {"spill", "census", "fit", "transform", "fields", "manifest"}
Reading == {"spill", "census", "fit", "transform"}
Holding == {"ready", "raised", "load", "verify", "discard"}

\* The first n chunks of the cache of s.
Prefix(s, n) == [i \in 1 .. n |-> ChunkOf(s, i)]

\* The types alone.
Types ==
    /\ pc \in [Procs -> Running]
    /\ at \in [Procs -> 1 .. MaxCut + 2]
    /\ half \in [Procs -> BOOLEAN]
    /\ source \in [Procs -> Sources \cup {Blank}]
    /\ spilt \in [Procs -> BOOLEAN]
    /\ rowsOf \in [Procs -> SUBSET Data]
    /\ edgesOf \in [Procs -> SUBSET Data]
    /\ rec \in [Procs -> Seq(ChunkTexts)]
    /\ loaded \in [Procs -> Seq(Texts)]
    /\ DOMAIN held = Procs /\ held = [p \in Procs |-> held[p]]
    /\ trusted \in [Procs -> BOOLEAN]
    /\ programs \in 0 .. MaxPrograms
    /\ disturbed \subseteq Procs
    /\ contended \in BOOLEAN
    /\ DOMAIN disk = Files /\ disk = [f \in Files |-> disk[f]]

IsCache(m) == \E s \in Sources : m = CacheOf(s)

\* How far the build of p has come.
Builds(p) ==
    /\ pc[p] \in Building => source[p] \in Sources /\ held[p] = Blank
    /\ pc[p] \in Reading => at[p] \in 1 .. source[p].cut
    /\ pc[p] = "spill" => rowsOf[p] = {}
    /\ pc[p] = "census" => rowsOf[p] = IF at[p] = 1 THEN {} ELSE {source[p].data}
    /\ pc[p] \in {"fit", "transform", "fields", "manifest"} => rowsOf[p] = {source[p].data}
    /\ pc[p] \in {"spill", "census"} => edgesOf[p] = {}
    /\ pc[p] = "fit" => edgesOf[p] = IF at[p] = 1 THEN {} ELSE {source[p].data}
    /\ pc[p] \in {"transform", "fields", "manifest"} => edgesOf[p] = {source[p].data}
    /\ pc[p] \in {"census", "fit"} => half[p] = FALSE
    /\ pc[p] \in {"spill", "census", "fit"} => rec[p] = <<>>
    /\ pc[p] = "transform" => rec[p] = Prefix(source[p], IF half[p] THEN at[p] ELSE at[p] - 1)
    /\ pc[p] \in {"fields", "manifest"} => rec[p] = Prefix(source[p], source[p].cut)

\* What p holds and has loaded.
Holds(p) ==
    /\ held[p] # Blank => IsCache(held[p])
    /\ pc[p] \in Holding => held[p] # Blank
    /\ pc[p] = "idle" => held[p] = Blank /\ rowsOf[p] = {} /\ edgesOf[p] = {}
                         /\ rec[p] = <<>> /\ half[p] = FALSE
    /\ pc[p] \notin {"ready", "raised", "load", "discard"} => loaded[p] = <<>>
    /\ pc[p] = "load" => Len(loaded[p]) = at[p] - 1
    /\ pc[p] \in {"load", "verify"} => at[p] <= Len(held[p].chunks) + 1
    /\ pc[p] = "discard" => at[p] <= Len(held[p].chunks) + 2
    /\ \A i \in 1 .. Len(loaded[p]) : loaded[p][i] = Recorded(held[p], LoadPaths(held[p])[i])

OnDisk == disk[Manifest] = Blank \/ IsCache(disk[Manifest])

IInv == Types /\ OnDisk /\ \A p \in Procs : Builds(p) /\ Holds(p)

-----------------------------------------------------------------------------
(* Facts about caches and paths. *)

LEMMA CacheShape ==
    ASSUME NEW s \in Sources
    PROVE  /\ CacheOf(s).kind = "manifest"
           /\ CacheOf(s) # Blank
           /\ CacheOf(s).chunks \in Seq(ChunkTexts)
           /\ Len(CacheOf(s).chunks) = s.cut
           /\ \A i \in 1 .. s.cut : CacheOf(s).chunks[i] \in ChunkTexts
           /\ CacheOf(s).fields \in FieldsTexts
           /\ s.cut \in 1 .. MaxCut
<1>1. s.cut \in 1 .. MaxCut /\ s.data \in Data /\ s.cut \in Nat
  BY CutAssumption DEF Sources
<1>2. ASSUME NEW i \in 1 .. s.cut
      PROVE  ChunkOf(s, i) \in ChunkTexts
  BY <1>1, CutAssumption DEF ChunkOf, BinsText, RawText, ChunkTexts
<1>3. CacheOf(s).chunks = [i \in 1 .. s.cut |-> ChunkOf(s, i)]
  BY DEF CacheOf, ManifestText
<1>4. CacheOf(s).kind = "manifest" /\ CacheOf(s) # Blank
  BY DEF CacheOf, ManifestText, Blank
<1>5. CacheOf(s).fields \in FieldsTexts
  BY <1>1 DEF CacheOf, ManifestText, FieldsText, FieldsTexts
<1>6. CacheOf(s).chunks \in Seq(ChunkTexts) /\ Len(CacheOf(s).chunks) = s.cut
  BY <1>1, <1>2, <1>3
<1> QED BY <1>1, <1>2, <1>3, <1>4, <1>5, <1>6

LEMMA PathLengths ==
    ASSUME NEW m, m.chunks \in Seq(ChunkTexts)
    PROVE  /\ Len(Paths(m)) = Len(m.chunks) + 2
           /\ Len(VerifyPaths(m)) = Len(m.chunks) + 1
           /\ Len(LoadPaths(m)) = Len(m.chunks) + 1
           /\ \A i \in 1 .. Len(m.chunks) : LoadPaths(m)[i] = Bins(i)
           /\ LoadPaths(m)[Len(m.chunks) + 1] = FieldsFile
<1> DEFINE all == Files \cup {Bins(i) : i \in 1 .. Len(m.chunks)}
           bins == [i \in 1 .. Len(m.chunks) |-> Bins(i)]
<1>1. bins \in Seq(all) /\ Len(bins) = Len(m.chunks)
  OBVIOUS
<1>2. <<FieldsFile>> \in Seq(all) /\ <<Manifest, FieldsFile>> \in Seq(all)
  BY DEF Files
<1>3. Len(Paths(m)) = Len(m.chunks) + 2
  <2>1. Len(<<Manifest, FieldsFile>>) = 2
    OBVIOUS
  <2> HIDE DEF bins, all
  <2>2. Len(<<Manifest, FieldsFile>> \o bins) = 2 + Len(bins)
    BY <1>1, <1>2, <2>1
  <2> QED BY <1>1, <2>2 DEF Paths, bins
<1>4. Len(VerifyPaths(m)) = Len(m.chunks) + 1
  <2>1. Len(<<FieldsFile>>) = 1
    OBVIOUS
  <2> HIDE DEF bins, all
  <2>2. Len(<<FieldsFile>> \o bins) = 1 + Len(bins)
    BY <1>1, <1>2, <2>1
  <2> QED BY <1>1, <2>2 DEF VerifyPaths, bins
<1>5. /\ Len(LoadPaths(m)) = Len(m.chunks) + 1
      /\ \A i \in 1 .. Len(m.chunks) : LoadPaths(m)[i] = Bins(i)
      /\ LoadPaths(m)[Len(m.chunks) + 1] = FieldsFile
  <2>1. Len(<<FieldsFile>>) = 1 /\ <<FieldsFile>>[1] = FieldsFile
    OBVIOUS
  <2>2. \A i \in 1 .. Len(m.chunks) : bins[i] = Bins(i)
    OBVIOUS
  <2>3. Len(m.chunks) \in Nat /\ LoadPaths(m) = bins \o <<FieldsFile>>
    BY DEF LoadPaths
  <2> HIDE DEF bins, all
  <2>4. /\ Len(bins \o <<FieldsFile>>) = Len(bins) + 1
        /\ \A i \in 1 .. Len(bins) : (bins \o <<FieldsFile>>)[i] = bins[i]
        /\ (bins \o <<FieldsFile>>)[Len(bins) + 1] = FieldsFile
    BY <1>1, <1>2, <2>1
  <2> QED BY <1>1, <2>2, <2>3, <2>4
<1> QED
  BY <1>3, <1>4, <1>5

\* What a manifest records of a file that a load reads is a text.
LEMMA RecordedIsText ==
    ASSUME NEW s \in Sources, NEW i \in 1 .. Len(LoadPaths(CacheOf(s)))
    PROVE  Recorded(CacheOf(s), LoadPaths(CacheOf(s))[i]) \in Texts
<1> DEFINE m == CacheOf(s)
<1>1. m.chunks \in Seq(ChunkTexts) /\ Len(m.chunks) = s.cut /\ s.cut \in 1 .. MaxCut
  BY CacheShape
<1>2. i \in 1 .. s.cut + 1
  BY <1>1, PathLengths
<1>3. CASE i = s.cut + 1
  <2>1. LoadPaths(m)[i] = FieldsFile
    BY <1>1, <1>3, PathLengths
  <2> QED BY <2>1, CacheShape DEF Recorded, Texts
<1>4. CASE i \in 1 .. s.cut
  <2>1. LoadPaths(m)[i] = Bins(i)
    BY <1>1, <1>4, PathLengths
  <2>2. Bins(i)[2] = i /\ Bins(i) # FieldsFile
    BY DEF Bins, FieldsFile
  <2> QED BY <2>1, <2>2, <1>4, CacheShape DEF Recorded, Texts
<1> QED BY <1>1, <1>2, <1>3, <1>4

-----------------------------------------------------------------------------
(* Steps. *)

\* Only p's own variables change.
Alone(p) ==
    \A q \in Procs \ {p} :
        /\ pc'[q] = pc[q] /\ at'[q] = at[q] /\ half'[q] = half[q]
        /\ source'[q] = source[q] /\ rowsOf'[q] = rowsOf[q]
        /\ edgesOf'[q] = edgesOf[q] /\ rec'[q] = rec[q]
        /\ held'[q] = held[q] /\ loaded'[q] = loaded[q]

LEMMA Frame ==
    ASSUME IInv, NEW p \in Procs, Alone(p), Types', OnDisk', Builds(p)', Holds(p)'
    PROVE  IInv'
<1>1. ASSUME NEW q \in Procs \ {p}
      PROVE  Builds(q)' /\ Holds(q)'
  <2>1. Builds(q) /\ Holds(q)
    BY DEF IInv
  <2>2. /\ pc'[q] = pc[q] /\ at'[q] = at[q] /\ half'[q] = half[q]
        /\ source'[q] = source[q] /\ rowsOf'[q] = rowsOf[q]
        /\ edgesOf'[q] = edgesOf[q] /\ rec'[q] = rec[q]
        /\ held'[q] = held[q] /\ loaded'[q] = loaded[q]
    BY DEF Alone
  <2>3. Builds(q)'
    BY <2>1, <2>2 DEF Builds
  <2>4. Holds(q)'
    BY <2>1, <2>2 DEF Holds
  <2> QED BY <2>3, <2>4
<1> QED BY <1>1 DEF IInv

\* The loop over n files or chunks stays within n, or starts anew.
LEMMA StepMoves ==
    ASSUME Types, NEW p \in Procs, NEW n \in 1 .. MaxCut + 2, NEW l \in Running,
           Step(p, n, l)
    PROVE  /\ pc' \in [Procs -> Running] /\ at' \in [Procs -> 1 .. MaxCut + 2]
           /\ \A q \in Procs \ {p} : pc'[q] = pc[q] /\ at'[q] = at[q]
           /\ at[p] < n => at'[p] = at[p] + 1 /\ pc'[p] = pc[p]
           /\ ~(at[p] < n) => at'[p] = 1 /\ pc'[p] = l
<1>1. CASE at[p] < n
  <2>1. at' = [at EXCEPT ![p] = @ + 1] /\ pc' = pc
    BY <1>1 DEF Step
  <2>2. at[p] + 1 \in 1 .. MaxCut + 2
    BY <1>1, CutAssumption DEF Types
  <2> QED BY <1>1, <2>1, <2>2 DEF Types
<1>2. CASE ~(at[p] < n)
  <2>1. pc' = [pc EXCEPT ![p] = l] /\ at' = [at EXCEPT ![p] = 1]
    BY <1>2 DEF Step, Goto
  <2>2. 1 \in 1 .. MaxCut + 2
    BY CutAssumption
  <2> QED BY <1>2, <2>1, <2>2 DEF Types
<1> QED BY <1>1, <1>2

LEMMA GotoMoves ==
    ASSUME Types, NEW p \in Procs, NEW l \in Running, Goto(p, l)
    PROVE  /\ pc' \in [Procs -> Running] /\ at' \in [Procs -> 1 .. MaxCut + 2]
           /\ \A q \in Procs \ {p} : pc'[q] = pc[q] /\ at'[q] = at[q]
           /\ at'[p] = 1 /\ pc'[p] = l
BY CutAssumption DEF Types, Goto

\* Only the manifest's own file matters to OnDisk.
LEMMA OtherFiles ==
    ASSUME IInv, NEW f \in Files, NEW text,
           disk' = [disk EXCEPT ![f] = text],
           f # Manifest \/ text = Blank \/ IsCache(text)
    PROVE  /\ DOMAIN disk' = Files /\ disk' = [g \in Files |-> disk'[g]]
           /\ OnDisk'
<1>1. Manifest \in Files /\ DOMAIN disk = Files /\ disk = [g \in Files |-> disk[g]]
  BY DEF Files, IInv, Types
<1>2. disk'[Manifest] = disk[Manifest] \/ disk'[Manifest] = Blank \/ IsCache(disk'[Manifest])
  BY <1>1
<1> QED BY <1>1, <1>2 DEF IInv, OnDisk, IsCache

LEMMA AbandonKeeps ==
    ASSUME IInv, NEW p \in Procs, Abandon(p), OnDisk', UNCHANGED programs,
           DOMAIN disk' = Files /\ disk' = [f \in Files |-> disk'[f]],
           disturbed' \subseteq Procs, contended' \in BOOLEAN
    PROVE  IInv'
<1>1. /\ pc' \in [Procs -> Running] /\ at' \in [Procs -> 1 .. MaxCut + 2]
      /\ \A q \in Procs \ {p} : pc'[q] = pc[q] /\ at'[q] = at[q]
      /\ at'[p] = 1 /\ pc'[p] = "idle"
  BY GotoMoves DEF IInv, Abandon, Running
<1>2. Types'
  <2>1. Types /\ Texts = Texts
    BY DEF IInv
  <2>2. half' \in [Procs -> BOOLEAN] /\ trusted' \in [Procs -> BOOLEAN]
    BY <2>1 DEF Types, Abandon
  <2>3. source' \in [Procs -> Sources \cup {Blank}] /\ spilt' \in [Procs -> BOOLEAN]
    BY <2>1 DEF Types, Abandon
  <2>4. rowsOf' \in [Procs -> SUBSET Data] /\ edgesOf' \in [Procs -> SUBSET Data]
    BY <2>1 DEF Types, Abandon
  <2>5. rec' \in [Procs -> Seq(ChunkTexts)] /\ loaded' \in [Procs -> Seq(Texts)]
    BY <2>1 DEF Types, Abandon
  <2>6. DOMAIN held' = Procs /\ held' = [q \in Procs |-> held'[q]]
    BY <2>1 DEF Types, Abandon
  <2> QED BY <1>1, <2>1, <2>2, <2>3, <2>4, <2>5, <2>6 DEF Types
<1>3. Alone(p)
  BY <1>1 DEF IInv, Types, Abandon, Alone
<1>4. /\ rowsOf'[p] = {} /\ edgesOf'[p] = {} /\ rec'[p] = <<>> /\ half'[p] = FALSE
      /\ held'[p] = Blank /\ loaded'[p] = <<>>
  BY DEF IInv, Types, Abandon
<1>5. Builds(p)' /\ Holds(p)'
  BY <1>1, <1>4 DEF Builds, Holds, Building, Reading, Holding
<1> QED BY <1>2, <1>3, <1>5, Frame

\* A chunk whose checksum matched is the chunk of the source.
LEMMA ChunkRead ==
    ASSUME IInv, NEW p \in Procs, source[p] \in Sources, ChunkReads(p)
    PROVE  /\ Delivered(p) = RawText(source[p].data, source[p].cut, at[p])
           /\ Delivered(p).data = source[p].data
BY DEF ChunkReads, Matches, RawText

LEMMA Unfolded ==
    ASSUME IInv, NEW p \in Procs
    PROVE  /\ Types /\ OnDisk /\ Builds(p) /\ Holds(p)
           /\ source[p] \in Sources => /\ source[p].cut \in 1 .. MaxCut
                                       /\ source[p].cut \in 1 .. MaxCut + 2
                                       /\ source[p].data \in Data
BY CutAssumption DEF IInv, Sources

LEMMA PrefixGrows ==
    ASSUME NEW s \in Sources, NEW n \in Nat, n < s.cut
    PROVE  /\ Prefix(s, n) \in Seq(ChunkTexts)
           /\ ChunkOf(s, n + 1) \in ChunkTexts
           /\ Append(Prefix(s, n), ChunkOf(s, n + 1)) = Prefix(s, n + 1)
<1>1. \A i \in 1 .. s.cut : ChunkOf(s, i) \in ChunkTexts
  <2>1. CacheOf(s).chunks = [i \in 1 .. s.cut |-> ChunkOf(s, i)]
    BY DEF CacheOf, ManifestText
  <2> QED BY <2>1, CacheShape
<1>2. s.cut \in Nat
  BY CutAssumption DEF Sources
<1>3. Prefix(s, n) \in Seq(ChunkTexts) /\ Len(Prefix(s, n)) = n
  BY <1>1, <1>2 DEF Prefix
<1>4. ChunkOf(s, n + 1) \in ChunkTexts
  BY <1>1, <1>2
<1>5. /\ Append(Prefix(s, n), ChunkOf(s, n + 1)) \in Seq(ChunkTexts)
      /\ Len(Append(Prefix(s, n), ChunkOf(s, n + 1))) = n + 1
      /\ \A i \in 1 .. n : Append(Prefix(s, n), ChunkOf(s, n + 1))[i] = Prefix(s, n)[i]
      /\ Append(Prefix(s, n), ChunkOf(s, n + 1))[n + 1] = ChunkOf(s, n + 1)
  BY <1>3, <1>4
<1>6. \A i \in 1 .. n : Prefix(s, n)[i] = ChunkOf(s, i)
  BY DEF Prefix
<1>7. /\ Prefix(s, n + 1) \in Seq(ChunkTexts) /\ Len(Prefix(s, n + 1)) = n + 1
      /\ \A i \in 1 .. n + 1 : Prefix(s, n + 1)[i] = ChunkOf(s, i)
  BY <1>1, <1>2 DEF Prefix
<1> HIDE DEF Prefix
<1>8. \A i \in 1 .. n + 1 : Append(Prefix(s, n), ChunkOf(s, n + 1))[i] = Prefix(s, n + 1)[i]
  BY <1>5, <1>6, <1>7
<1>9. Append(Prefix(s, n), ChunkOf(s, n + 1)) = Prefix(s, n + 1)
  <2> DEFINE a == Append(Prefix(s, n), ChunkOf(s, n + 1))
             b == Prefix(s, n + 1)
  <2>1. a \in Seq(ChunkTexts) /\ b \in Seq(ChunkTexts) /\ Len(a) = Len(b)
        /\ \A i \in 1 .. Len(a) : a[i] = b[i]
    BY <1>5, <1>7, <1>8
  <2> HIDE DEF a, b
  <2>2. a = b
    BY <2>1, SeqEqual
  <2> QED BY <2>2 DEF a, b
<1> QED BY <1>3, <1>4, <1>9

LEMMA StartBuildKeeps ==
    ASSUME IInv, NEW p \in Procs, StartBuild(p)
    PROVE  IInv'
<1>0. Types /\ OnDisk /\ Builds(p) /\ Holds(p)
  BY Unfolded
<1>1. PICK s \in Sources, spill \in BOOLEAN :
        /\ pc[p] = "idle" /\ StartProgram
        /\ source' = [source EXCEPT ![p] = s]
        /\ spilt' = [spilt EXCEPT ![p] = spill]
        /\ Goto(p, IF spill THEN "spill" ELSE "census")
        /\ UNCHANGED <<disk, half, rowsOf, edgesOf, rec, handle, history>>
  BY DEF StartBuild
<1>2. (IF spill THEN "spill" ELSE "census") \in Running
  BY DEF Running
<1>3. /\ pc' \in [Procs -> Running] /\ at' \in [Procs -> 1 .. MaxCut + 2]
      /\ \A q \in Procs \ {p} : pc'[q] = pc[q] /\ at'[q] = at[q]
      /\ at'[p] = 1 /\ pc'[p] = IF spill THEN "spill" ELSE "census"
  BY <1>0, <1>1, <1>2, GotoMoves
<1>4. programs' \in 0 .. MaxPrograms
  BY <1>0, <1>1, ProgramAssumption DEF Types, StartProgram
<1>5. Types'
  BY <1>0, <1>1, <1>3, <1>4 DEF Types, handle, history
<1>6. Alone(p)
  BY <1>0, <1>1, <1>3 DEF Types, Alone, handle
<1>7. OnDisk'
  BY <1>0, <1>1 DEF OnDisk, IsCache
<1>8. source'[p] = s /\ s.cut \in Nat /\ 1 <= s.cut
  BY <1>0, <1>1, CutAssumption DEF Types, Sources
<1>9. Builds(p)' /\ Holds(p)'
  BY <1>0, <1>1, <1>3, <1>8 DEF Builds, Holds, Building, Reading, Holding, handle
<1> QED BY <1>5, <1>6, <1>7, <1>9, Frame

LEMMA SpillKeeps ==
    ASSUME IInv, NEW p \in Procs, SpillOpen(p) \/ SpillWrite(p)
    PROVE  IInv'
<1>0. Types /\ OnDisk /\ Builds(p) /\ Holds(p) /\ pc[p] = "spill"
  BY Unfolded DEF SpillOpen, SpillWrite
<1>1. source[p] \in Sources /\ at[p] \in 1 .. source[p].cut /\ source[p].cut \in 1 .. MaxCut
      /\ source[p].cut \in 1 .. MaxCut + 2
  BY <1>0, Unfolded DEF Builds, Building, Reading
<1>2. Raw(at[p]) \in Files /\ Raw(at[p]) # Manifest
  BY <1>1, CutAssumption DEF Raw, Manifest, Files
<1>3. CASE SpillOpen(p)
  <2>1. OnDisk' /\ DOMAIN disk' = Files /\ disk' = [f \in Files |-> disk'[f]]
    BY <1>2, <1>3, OtherFiles DEF SpillOpen, Truncate
  <2>2. half' \in [Procs -> BOOLEAN] /\ \A q \in Procs \ {p} : half'[q] = half[q]
    BY <1>0, <1>3 DEF SpillOpen, Truncate, Types
  <2>3. UNCHANGED <<pc, at, source, spilt, rowsOf, edgesOf, rec, held, loaded, trusted,
                    programs, disturbed, contended>>
    BY <1>3 DEF SpillOpen, build, handle, history
  <2>4. Types' /\ Alone(p)
    BY <1>0, <2>1, <2>2, <2>3 DEF Types, Alone
  <2>5. Builds(p)' /\ Holds(p)'
    BY <1>0, <2>3 DEF Builds, Holds, Building, Reading, Holding
  <2> QED BY <2>1, <2>4, <2>5, Frame
<1>4. CASE SpillWrite(p)
  <2>1. OnDisk' /\ DOMAIN disk' = Files /\ disk' = [f \in Files |-> disk'[f]]
    BY <1>2, <1>4, OtherFiles DEF SpillWrite, Store
  <2>2. half' \in [Procs -> BOOLEAN] /\ half'[p] = FALSE
        /\ \A q \in Procs \ {p} : half'[q] = half[q]
    BY <1>0, <1>4 DEF SpillWrite, Store, Types
  <2>3. UNCHANGED <<source, spilt, rowsOf, edgesOf, rec, held, loaded, trusted,
                    programs, disturbed, contended>>
    BY <1>4 DEF SpillWrite, build, handle, history
  <2>4. "census" \in Running /\ Step(p, source[p].cut, "census")
    BY <1>4 DEF SpillWrite, Running
  <2>5. /\ pc' \in [Procs -> Running] /\ at' \in [Procs -> 1 .. MaxCut + 2]
        /\ \A q \in Procs \ {p} : pc'[q] = pc[q] /\ at'[q] = at[q]
        /\ at[p] < source[p].cut => at'[p] = at[p] + 1 /\ pc'[p] = pc[p]
        /\ ~(at[p] < source[p].cut) => at'[p] = 1 /\ pc'[p] = "census"
    BY <1>0, <1>1, <2>4, StepMoves
  <2>6. Types' /\ Alone(p)
    BY <1>0, <2>1, <2>2, <2>3, <2>5 DEF Types, Alone
  <2>7. at'[p] \in 1 .. source[p].cut
    BY <1>1, <2>5
  <2>8. Builds(p)' /\ Holds(p)'
    BY <1>0, <2>2, <2>3, <2>5, <2>7 DEF Builds, Holds, Building, Reading, Holding
  <2> QED BY <2>1, <2>6, <2>8, Frame
<1> QED BY <1>3, <1>4

LEMMA CensusKeeps ==
    ASSUME IInv, NEW p \in Procs, Census(p)
    PROVE  IInv'
<1>0. Types /\ OnDisk /\ Builds(p) /\ Holds(p) /\ pc[p] = "census"
  BY Unfolded DEF Census
<1>1. source[p] \in Sources /\ at[p] \in 1 .. source[p].cut /\ source[p].cut \in 1 .. MaxCut
      /\ source[p].cut \in 1 .. MaxCut + 2 /\ source[p].data \in Data
  BY <1>0, Unfolded DEF Builds, Building, Reading
<1>2. rowsOf' = [rowsOf EXCEPT ![p] = @ \cup {source[p].data}]
  BY <1>1, ChunkRead DEF Census
<1>3. UNCHANGED <<disk, half, source, spilt, edgesOf, rec, held, loaded, trusted,
                  programs, disturbed, contended>>
  BY DEF Census, handle, history
<1>4. "fit" \in Running /\ Step(p, source[p].cut, "fit")
  BY DEF Census, Running
<1>5. /\ pc' \in [Procs -> Running] /\ at' \in [Procs -> 1 .. MaxCut + 2]
      /\ \A q \in Procs \ {p} : pc'[q] = pc[q] /\ at'[q] = at[q]
      /\ at[p] < source[p].cut => at'[p] = at[p] + 1 /\ pc'[p] = pc[p]
      /\ ~(at[p] < source[p].cut) => at'[p] = 1 /\ pc'[p] = "fit"
  BY <1>0, <1>1, <1>4, StepMoves
<1>6. Types' /\ Alone(p)
  BY <1>0, <1>1, <1>2, <1>3, <1>5 DEF Types, Alone
<1>7. OnDisk'
  BY <1>0, <1>3 DEF OnDisk, IsCache
<1>8. at'[p] \in 1 .. source[p].cut /\ (pc'[p] = "census" => at'[p] # 1)
  BY <1>0, <1>1, <1>5
<1>9. rowsOf'[p] = {source[p].data}
  BY <1>0, <1>2 DEF Builds, Types
<1>10. Builds(p)' /\ Holds(p)'
  BY <1>0, <1>3, <1>5, <1>8, <1>9 DEF Builds, Holds, Building, Reading, Holding
<1> QED BY <1>6, <1>7, <1>10, Frame

LEMMA FitKeeps ==
    ASSUME IInv, NEW p \in Procs, Fit(p)
    PROVE  IInv'
<1>0. Types /\ OnDisk /\ Builds(p) /\ Holds(p) /\ pc[p] = "fit"
  BY Unfolded DEF Fit
<1>1. source[p] \in Sources /\ at[p] \in 1 .. source[p].cut /\ source[p].cut \in 1 .. MaxCut
      /\ source[p].cut \in 1 .. MaxCut + 2 /\ source[p].data \in Data
  BY <1>0, Unfolded DEF Builds, Building, Reading
<1>2. edgesOf' = [edgesOf EXCEPT ![p] = @ \cup {source[p].data}]
  BY <1>1, ChunkRead DEF Fit
<1>3. UNCHANGED <<disk, half, source, spilt, rowsOf, rec, held, loaded, trusted,
                  programs, disturbed, contended>>
  BY DEF Fit, handle, history
<1>4. "transform" \in Running /\ Step(p, source[p].cut, "transform")
  BY DEF Fit, Running
<1>5. /\ pc' \in [Procs -> Running] /\ at' \in [Procs -> 1 .. MaxCut + 2]
      /\ \A q \in Procs \ {p} : pc'[q] = pc[q] /\ at'[q] = at[q]
      /\ at[p] < source[p].cut => at'[p] = at[p] + 1 /\ pc'[p] = pc[p]
      /\ ~(at[p] < source[p].cut) => at'[p] = 1 /\ pc'[p] = "transform"
  BY <1>0, <1>1, <1>4, StepMoves
<1>6. Types' /\ Alone(p)
  BY <1>0, <1>1, <1>2, <1>3, <1>5 DEF Types, Alone
<1>7. OnDisk'
  BY <1>0, <1>3 DEF OnDisk, IsCache
<1>8. at'[p] \in 1 .. source[p].cut /\ (pc'[p] = "fit" => at'[p] # 1)
  BY <1>0, <1>1, <1>5
<1>9. edgesOf'[p] = {source[p].data}
  BY <1>0, <1>2 DEF Builds, Types
<1>10. <<>> = Prefix(source[p], 0)
  BY DEF Prefix
<1>11. Builds(p)' /\ Holds(p)'
  BY <1>0, <1>3, <1>5, <1>8, <1>9, <1>10 DEF Builds, Holds, Building, Reading, Holding
<1> QED BY <1>6, <1>7, <1>11, Frame

LEMMA TransformOpenKeeps ==
    ASSUME IInv, NEW p \in Procs, TransformOpen(p)
    PROVE  IInv'
<1>0. Types /\ OnDisk /\ Builds(p) /\ Holds(p) /\ pc[p] = "transform"
  BY Unfolded DEF TransformOpen
<1>1. source[p] \in Sources /\ at[p] \in 1 .. source[p].cut /\ source[p].cut \in 1 .. MaxCut
      /\ source[p].data \in Data
  BY <1>0, Unfolded DEF Builds, Building, Reading
<1>2. Bins(at[p]) \in Files /\ Bins(at[p]) # Manifest
  BY <1>1, CutAssumption DEF Bins, Manifest, Files
<1>3. OnDisk' /\ DOMAIN disk' = Files /\ disk' = [f \in Files |-> disk'[f]]
  BY <1>2, OtherFiles DEF TransformOpen, Truncate
<1>4. half[p] = FALSE /\ half' \in [Procs -> BOOLEAN] /\ half'[p] = TRUE
      /\ \A q \in Procs \ {p} : half'[q] = half[q]
  BY <1>0 DEF TransformOpen, Truncate, Types
<1>5. UNCHANGED <<pc, at, source, spilt, rowsOf, edgesOf, held, loaded, trusted, programs>>
  BY DEF TransformOpen, handle
<1>6. disturbed' \subseteq Procs /\ contended' \in BOOLEAN
  <2>1. CASE at[p] = 1
    BY <1>0, <2>1 DEF TransformOpen, Enters, Others
  <2>2. CASE at[p] # 1
    BY <1>0, <2>2 DEF TransformOpen, Types, Disturbs, Others
  <2> QED BY <2>1, <2>2
<1>7. BinsText(Delivered(p), edgesOf[p], at[p]) = ChunkOf(source[p], at[p])
  <2>1. edgesOf[p] = {source[p].data}
    BY <1>0 DEF Builds
  <2> QED BY <1>1, <2>1, ChunkRead DEF TransformOpen, ChunkOf
<1>8. rec' = [rec EXCEPT ![p] = Append(@, ChunkOf(source[p], at[p]))]
  BY <1>7 DEF TransformOpen
<1>9. rec[p] = Prefix(source[p], at[p] - 1)
  BY <1>0, <1>4 DEF Builds
<1>10. ChunkOf(source[p], at[p]) \in ChunkTexts
       /\ Append(rec[p], ChunkOf(source[p], at[p])) = Prefix(source[p], at[p])
  <2>1. at[p] - 1 \in Nat /\ at[p] - 1 < source[p].cut /\ at[p] - 1 + 1 = at[p]
    BY <1>1, CutAssumption
  <2> QED BY <1>1, <1>9, <2>1, PrefixGrows
<1>11. rec' \in [Procs -> Seq(ChunkTexts)] /\ rec'[p] = Prefix(source[p], at[p])
       /\ \A q \in Procs \ {p} : rec'[q] = rec[q]
  <2> DEFINE chunk == ChunkOf(source[p], at[p])
  <2>1. rec \in [Procs -> Seq(ChunkTexts)] /\ rec[p] \in Seq(ChunkTexts)
    BY <1>0 DEF Types
  <2>2. chunk \in ChunkTexts /\ rec' = [rec EXCEPT ![p] = Append(rec[p], chunk)]
    BY <1>8, <1>10
  <2> HIDE DEF chunk
  <2>3. Append(rec[p], chunk) \in Seq(ChunkTexts)
    BY <2>1, <2>2
  <2>4. rec'[p] = Append(rec[p], chunk)
    BY <2>1, <2>2
  <2>5. Append(rec[p], chunk) = Prefix(source[p], at[p])
    BY <1>10 DEF chunk
  <2> QED BY <2>1, <2>2, <2>3, <2>4, <2>5
<1>12. Types' /\ Alone(p)
  BY <1>0, <1>3, <1>4, <1>5, <1>6, <1>11 DEF Types, Alone
<1>13. Builds(p)' /\ Holds(p)'
  BY <1>0, <1>4, <1>5, <1>11 DEF Builds, Holds, Building, Reading, Holding
<1> QED BY <1>3, <1>12, <1>13, Frame

LEMMA TransformWriteKeeps ==
    ASSUME IInv, NEW p \in Procs, TransformWrite(p)
    PROVE  IInv'
<1>0. Types /\ OnDisk /\ Builds(p) /\ Holds(p) /\ pc[p] = "transform"
  BY Unfolded DEF TransformWrite
<1>1. source[p] \in Sources /\ at[p] \in 1 .. source[p].cut /\ source[p].cut \in 1 .. MaxCut
      /\ source[p].cut \in 1 .. MaxCut + 2
  BY <1>0, Unfolded DEF Builds, Building, Reading
<1>2. Bins(at[p]) \in Files /\ Bins(at[p]) # Manifest
  BY <1>1, CutAssumption DEF Bins, Manifest, Files
<1>3. OnDisk' /\ DOMAIN disk' = Files /\ disk' = [f \in Files |-> disk'[f]]
  BY <1>2, OtherFiles DEF TransformWrite, Store
<1>4. half[p] /\ half' \in [Procs -> BOOLEAN] /\ half'[p] = FALSE
      /\ \A q \in Procs \ {p} : half'[q] = half[q]
  BY <1>0 DEF TransformWrite, Store, Types
<1>5. UNCHANGED <<source, spilt, rowsOf, edgesOf, rec, held, loaded, trusted, programs,
                  contended>>
  BY DEF TransformWrite, build, handle
<1>6. disturbed' \subseteq Procs
  BY <1>0 DEF TransformWrite, Types, Disturbs, Others
<1>7. "fields" \in Running /\ Step(p, source[p].cut, "fields")
  BY DEF TransformWrite, Running
<1>8. /\ pc' \in [Procs -> Running] /\ at' \in [Procs -> 1 .. MaxCut + 2]
      /\ \A q \in Procs \ {p} : pc'[q] = pc[q] /\ at'[q] = at[q]
      /\ at[p] < source[p].cut => at'[p] = at[p] + 1 /\ pc'[p] = pc[p]
      /\ ~(at[p] < source[p].cut) => at'[p] = 1 /\ pc'[p] = "fields"
  BY <1>0, <1>1, <1>7, StepMoves
<1>9. Types' /\ Alone(p)
  BY <1>0, <1>3, <1>4, <1>5, <1>6, <1>8 DEF Types, Alone
<1>10. rec[p] = Prefix(source[p], at[p])
  BY <1>0, <1>4 DEF Builds
<1>11. CASE at[p] < source[p].cut
  <2>1. at'[p] \in 1 .. source[p].cut /\ at'[p] - 1 = at[p] /\ pc'[p] = "transform"
    BY <1>0, <1>1, <1>8, <1>11
  <2>2. Builds(p)' /\ Holds(p)'
    BY <1>0, <1>4, <1>5, <1>10, <2>1 DEF Builds, Holds, Building, Reading, Holding
  <2> QED BY <1>3, <1>9, <2>2, Frame
<1>12. CASE ~(at[p] < source[p].cut)
  <2>1. pc'[p] = "fields" /\ at[p] = source[p].cut
    BY <1>1, <1>8, <1>12
  <2>2. Builds(p)' /\ Holds(p)'
    BY <1>0, <1>5, <1>10, <2>1 DEF Builds, Holds, Building, Reading, Holding
  <2> QED BY <1>3, <1>9, <2>2, Frame
<1> QED BY <1>11, <1>12

LEMMA LastFilesKeep ==
    ASSUME IInv, NEW p \in Procs, LastOpen(p) \/ FieldsWrite(p)
    PROVE  IInv'
<1>0. Types /\ OnDisk /\ Builds(p) /\ Holds(p) /\ pc[p] \in {"fields", "manifest"}
  BY Unfolded DEF LastOpen, FieldsWrite
<1>1. LastFile(p) \in Files /\ FieldsFile \in Files /\ FieldsFile # Manifest
  BY DEF LastFile, Files, FieldsFile, Manifest
<1>2. CASE LastOpen(p)
  <2>1. OnDisk' /\ DOMAIN disk' = Files /\ disk' = [f \in Files |-> disk'[f]]
    BY <1>1, <1>2, OtherFiles DEF LastOpen, Truncate
  <2>2. half' \in [Procs -> BOOLEAN] /\ \A q \in Procs \ {p} : half'[q] = half[q]
    BY <1>0, <1>2 DEF LastOpen, Truncate, Types
  <2>3. UNCHANGED <<pc, at, source, spilt, rowsOf, edgesOf, rec, held, loaded, trusted,
                    programs, contended>>
    BY <1>2 DEF LastOpen, build, handle
  <2>4. disturbed' \subseteq Procs
    BY <1>0, <1>2 DEF LastOpen, Types, Disturbs, Others
  <2>5. Types' /\ Alone(p)
    BY <1>0, <2>1, <2>2, <2>3, <2>4 DEF Types, Alone
  <2>6. Builds(p)' /\ Holds(p)'
    BY <1>0, <2>3 DEF Builds, Holds, Building, Reading, Holding
  <2> QED BY <2>1, <2>5, <2>6, Frame
<1>3. CASE FieldsWrite(p)
  <2>1. OnDisk' /\ DOMAIN disk' = Files /\ disk' = [f \in Files |-> disk'[f]]
    BY <1>1, <1>3, OtherFiles DEF FieldsWrite, Store
  <2>2. half' \in [Procs -> BOOLEAN] /\ \A q \in Procs \ {p} : half'[q] = half[q]
    BY <1>0, <1>3 DEF FieldsWrite, Store, Types
  <2>3. UNCHANGED <<source, spilt, rowsOf, edgesOf, rec, held, loaded, trusted,
                    programs, contended>>
    BY <1>3 DEF FieldsWrite, build, handle
  <2>4. disturbed' \subseteq Procs
    BY <1>0, <1>3 DEF FieldsWrite, Types, Disturbs, Others
  <2>5. "manifest" \in Running /\ Goto(p, "manifest") /\ pc[p] = "fields"
    BY <1>3 DEF FieldsWrite, Running
  <2>6. /\ pc' \in [Procs -> Running] /\ at' \in [Procs -> 1 .. MaxCut + 2]
        /\ \A q \in Procs \ {p} : pc'[q] = pc[q] /\ at'[q] = at[q]
        /\ at'[p] = 1 /\ pc'[p] = "manifest"
    BY <1>0, <2>5, GotoMoves
  <2>7. Types' /\ Alone(p)
    BY <1>0, <2>1, <2>2, <2>3, <2>4, <2>6 DEF Types, Alone
  <2>8. Builds(p)' /\ Holds(p)'
    BY <1>0, <2>3, <2>5, <2>6 DEF Builds, Holds, Building, Reading, Holding
  <2> QED BY <2>1, <2>7, <2>8, Frame
<1> QED BY <1>2, <1>3

LEMMA ManifestWriteKeeps ==
    ASSUME IInv, NEW p \in Procs, ManifestWrite(p)
    PROVE  IInv'
<1>0. Types /\ OnDisk /\ Builds(p) /\ Holds(p) /\ pc[p] = "manifest"
  BY Unfolded DEF ManifestWrite
<1>1. source[p] \in Sources /\ rowsOf[p] = {source[p].data} /\ edgesOf[p] = {source[p].data}
      /\ rec[p] = Prefix(source[p], source[p].cut)
  BY <1>0 DEF Builds, Building
<1>2. OwnManifest(p) = CacheOf(source[p]) /\ IsCache(OwnManifest(p)) /\ OwnManifest(p) # Blank
  BY <1>1, CacheShape DEF OwnManifest, CacheOf, Prefix, IsCache
<1>3. OnDisk' /\ DOMAIN disk' = Files /\ disk' = [f \in Files |-> disk'[f]]
  <2>1. Manifest \in Files /\ disk' = [disk EXCEPT ![Manifest] = OwnManifest(p)]
    BY DEF ManifestWrite, Store, Files
  <2> QED BY <1>2, <2>1, OtherFiles
<1>4. half' \in [Procs -> BOOLEAN] /\ \A q \in Procs \ {p} : half'[q] = half[q]
  BY <1>0 DEF ManifestWrite, Store, Types
<1>5. held' = [held EXCEPT ![p] = OwnManifest(p)] /\ trusted' = [trusted EXCEPT ![p] = TRUE]
  BY DEF ManifestWrite
<1>6. DOMAIN held' = Procs /\ held' = [q \in Procs |-> held'[q]]
      /\ held'[p] = OwnManifest(p) /\ \A q \in Procs \ {p} : held'[q] = held[q]
  BY <1>0, <1>5 DEF Types
<1>7. trusted' \in [Procs -> BOOLEAN]
  BY <1>0, <1>5 DEF Types
<1>8. UNCHANGED <<source, spilt, rowsOf, edgesOf, rec, loaded, programs, contended>>
  BY DEF ManifestWrite, build
<1>9. disturbed' \subseteq Procs
  BY <1>0 DEF ManifestWrite, Types, Disturbs, Others
<1>10. "ready" \in Running /\ Goto(p, "ready")
  BY DEF ManifestWrite, Running
<1>11. /\ pc' \in [Procs -> Running] /\ at' \in [Procs -> 1 .. MaxCut + 2]
       /\ \A q \in Procs \ {p} : pc'[q] = pc[q] /\ at'[q] = at[q]
       /\ at'[p] = 1 /\ pc'[p] = "ready"
  BY <1>0, <1>10, GotoMoves
<1>12. Types' /\ Alone(p)
  BY <1>0, <1>3, <1>4, <1>6, <1>7, <1>8, <1>9, <1>11 DEF Types, Alone
<1>13. loaded'[p] = <<>> /\ Len(loaded'[p]) = 0
  BY <1>0, <1>8 DEF Holds
<1>14. held'[p] # Blank /\ IsCache(held'[p])
  BY <1>2, <1>6
<1>15. Builds(p)'
  BY <1>11 DEF Builds, Building, Reading
<1>16. Holds(p)'
  <2>1. \A i \in 1 .. Len(loaded'[p]) : FALSE
    BY <1>13
  <2> QED BY <1>11, <1>13, <1>14, <2>1 DEF Holds, Holding, IsCache
<1> QED BY <1>3, <1>12, <1>15, <1>16, Frame

\* Errors, cancellations and deaths leave the disk as it is.
LEMMA FailuresKeep ==
    ASSUME IInv, NEW p \in Procs,
           SourceRaises(p) \/ Cancelled(p) \/ VerifyRaises(p) \/ Crash(p)
    PROVE  IInv'
<1>1. Abandon(p) /\ UNCHANGED <<disk, programs, history>>
  BY DEF SourceRaises, Cancelled, VerifyRaises, Crash
<1>2. Types /\ OnDisk
  BY Unfolded
<1>3. OnDisk'
  BY <1>1, <1>2 DEF OnDisk, IsCache
<1>4. /\ DOMAIN disk' = Files /\ disk' = [f \in Files |-> disk'[f]]
      /\ disturbed' \subseteq Procs /\ contended' \in BOOLEAN
  BY <1>1, <1>2 DEF Types, history
<1> QED BY <1>1, <1>3, <1>4, AbandonKeeps

LEMMA OpenKeeps ==
    ASSUME IInv, NEW p \in Procs, Open(p) \/ OpenRaises(p)
    PROVE  IInv'
<1>0. Types /\ OnDisk /\ Builds(p) /\ Holds(p) /\ pc[p] = "idle"
  BY Unfolded DEF Open, OpenRaises
<1>1. programs' \in 0 .. MaxPrograms
  BY <1>0, ProgramAssumption DEF Types, StartProgram, Open, OpenRaises
<1>2. CASE OpenRaises(p)
  <2>1. UNCHANGED <<disk, pc, at, half, source, spilt, rowsOf, edgesOf, rec, held, loaded,
                    trusted, disturbed, contended>>
    BY <1>2 DEF OpenRaises, build, handle, history
  <2>2. Types' /\ Alone(p)
    BY <1>0, <1>1, <2>1 DEF Types, Alone
  <2>3. OnDisk' /\ Builds(p)' /\ Holds(p)'
    BY <1>0, <2>1 DEF OnDisk, IsCache, Builds, Holds
  <2> QED BY <2>2, <2>3, Frame
<1>3. CASE Open(p)
  <2>1. PICK d \in Data, verify \in BOOLEAN :
          /\ Published
          /\ held' = [held EXCEPT ![p] = disk[Manifest]]
          /\ trusted' = [trusted EXCEPT ![p] = verify]
          /\ disturbed' = disturbed \ {p}
          /\ Goto(p, IF verify THEN "verify" ELSE "ready")
          /\ UNCHANGED <<disk, half, build, loaded, contended>>
    BY <1>3 DEF Open
  <2>2. disk[Manifest] # Blank /\ IsCache(disk[Manifest])
    BY <1>0, <2>1 DEF OnDisk, Published, Blank
  <2>3. DOMAIN held' = Procs /\ held' = [q \in Procs |-> held'[q]]
        /\ held'[p] = disk[Manifest] /\ \A q \in Procs \ {p} : held'[q] = held[q]
    BY <1>0, <2>1 DEF Types
  <2>4. (IF verify THEN "verify" ELSE "ready") \in Running
    BY DEF Running
  <2>5. /\ pc' \in [Procs -> Running] /\ at' \in [Procs -> 1 .. MaxCut + 2]
        /\ \A q \in Procs \ {p} : pc'[q] = pc[q] /\ at'[q] = at[q]
        /\ at'[p] = 1 /\ pc'[p] = IF verify THEN "verify" ELSE "ready"
    BY <1>0, <2>1, <2>4, GotoMoves
  <2>6. UNCHANGED <<disk, half, source, spilt, rowsOf, edgesOf, rec, loaded, contended>>
        /\ trusted' \in [Procs -> BOOLEAN] /\ disturbed' \subseteq Procs
    BY <1>0, <2>1 DEF Types, build
  <2>7. Types' /\ Alone(p)
    BY <1>0, <1>1, <2>3, <2>5, <2>6 DEF Types, Alone
  <2>8. OnDisk'
    BY <1>0, <2>6 DEF OnDisk, IsCache
  <2>9. loaded'[p] = <<>> /\ \A i \in 1 .. Len(loaded'[p]) : FALSE
    BY <1>0, <2>6 DEF Holds
  <2>10. 1 <= Len(held'[p].chunks) + 1
    BY <2>2, <2>3, CacheShape DEF IsCache
  <2>11. Builds(p)'
    BY <2>5 DEF Builds, Building, Reading
  <2>12. Holds(p)'
    BY <2>2, <2>3, <2>5, <2>9, <2>10 DEF Holds, Holding, IsCache
  <2> QED BY <2>7, <2>8, <2>11, <2>12, Frame
<1> QED BY <1>2, <1>3

\* What a process that holds a dataset knows of the paths it walks.
LEMMA HeldPaths ==
    ASSUME IInv, NEW p \in Procs, pc[p] \in Holding
    PROVE  /\ IsCache(held[p])
           /\ held[p].chunks \in Seq(ChunkTexts)
           /\ Len(held[p].chunks) \in 1 .. MaxCut
           /\ Len(Paths(held[p])) = Len(held[p].chunks) + 2
           /\ Len(VerifyPaths(held[p])) = Len(held[p].chunks) + 1
           /\ Len(LoadPaths(held[p])) = Len(held[p].chunks) + 1
<1>1. IsCache(held[p])
  BY Unfolded DEF Holds
<1>2. held[p].chunks \in Seq(ChunkTexts) /\ Len(held[p].chunks) \in 1 .. MaxCut
  BY <1>1, CacheShape DEF IsCache
<1> QED BY <1>1, <1>2, PathLengths

LEMMA VerifyKeeps ==
    ASSUME IInv, NEW p \in Procs, Verify(p)
    PROVE  IInv'
<1>0. Types /\ OnDisk /\ Builds(p) /\ Holds(p) /\ pc[p] = "verify"
  BY Unfolded DEF Verify
<1>1. /\ Len(VerifyPaths(held[p])) = Len(held[p].chunks) + 1
      /\ Len(VerifyPaths(held[p])) \in 1 .. MaxCut + 2
  BY <1>0, HeldPaths, CutAssumption DEF Holding
<1>2. "ready" \in Running /\ Step(p, Len(VerifyPaths(held[p])), "ready")
  BY DEF Verify, Running
<1>3. /\ pc' \in [Procs -> Running] /\ at' \in [Procs -> 1 .. MaxCut + 2]
      /\ \A q \in Procs \ {p} : pc'[q] = pc[q] /\ at'[q] = at[q]
      /\ at[p] < Len(VerifyPaths(held[p])) => at'[p] = at[p] + 1 /\ pc'[p] = pc[p]
      /\ ~(at[p] < Len(VerifyPaths(held[p]))) => at'[p] = 1 /\ pc'[p] = "ready"
  BY <1>0, <1>1, <1>2, StepMoves
<1>4. UNCHANGED <<disk, half, source, spilt, rowsOf, edgesOf, rec, held, loaded, trusted,
                  programs, disturbed, contended>>
  BY DEF Verify, build, handle, history
<1>5. Types' /\ Alone(p) /\ OnDisk'
  BY <1>0, <1>3, <1>4 DEF Types, Alone, OnDisk, IsCache
<1>6. pc'[p] \in {"verify", "ready"}
  BY <1>0, <1>3
<1>7. pc'[p] = "verify" => at'[p] <= Len(held[p].chunks) + 1
  BY <1>0, <1>1, <1>3, CutAssumption DEF Types
<1>8. loaded'[p] = <<>> /\ \A i \in 1 .. Len(loaded'[p]) : FALSE
  BY <1>0, <1>4 DEF Holds
<1>9. Builds(p)'
  BY <1>6 DEF Builds, Building, Reading
<1>10. Holds(p)'
  BY <1>0, <1>4, <1>6, <1>7, <1>8 DEF Holds, Holding, IsCache
<1> QED BY <1>5, <1>9, <1>10, Frame

LEMMA StartsKeep ==
    ASSUME IInv, NEW p \in Procs, StartLoad(p) \/ StartDiscard(p)
    PROVE  IInv'
<1>0. Types /\ OnDisk /\ Builds(p) /\ Holds(p) /\ pc[p] \in {"ready", "raised"}
  BY Unfolded DEF StartLoad, StartDiscard, Live
<1>1. held[p] # Blank /\ IsCache(held[p]) /\ Len(held[p].chunks) \in 1 .. MaxCut
  BY <1>0, HeldPaths DEF Holding, Holds
<1>2. "load" \in Running /\ "discard" \in Running
  BY DEF Running
<1>3. CASE StartLoad(p)
  <2>1. /\ pc' \in [Procs -> Running] /\ at' \in [Procs -> 1 .. MaxCut + 2]
        /\ \A q \in Procs \ {p} : pc'[q] = pc[q] /\ at'[q] = at[q]
        /\ at'[p] = 1 /\ pc'[p] = "load"
    BY <1>0, <1>2, <1>3, GotoMoves DEF StartLoad
  <2>2. UNCHANGED <<disk, half, source, spilt, rowsOf, edgesOf, rec, held, trusted,
                    programs, disturbed, contended>>
        /\ loaded' = [loaded EXCEPT ![p] = <<>>]
    BY <1>3 DEF StartLoad, build, history
  <2>3. Types' /\ Alone(p) /\ OnDisk' /\ loaded'[p] = <<>>
    BY <1>0, <2>1, <2>2 DEF Types, Alone, OnDisk, IsCache
  <2>4. Len(loaded'[p]) = 0 /\ \A i \in 1 .. Len(loaded'[p]) : FALSE
    BY <2>3
  <2>5. Builds(p)'
    BY <2>1 DEF Builds, Building, Reading
  <2>6. Holds(p)'
    BY <1>1, <2>1, <2>2, <2>4, CutAssumption DEF Holds, Holding, IsCache
  <2> QED BY <2>3, <2>5, <2>6, Frame
<1>4. CASE StartDiscard(p)
  <2>1. /\ pc' \in [Procs -> Running] /\ at' \in [Procs -> 1 .. MaxCut + 2]
        /\ \A q \in Procs \ {p} : pc'[q] = pc[q] /\ at'[q] = at[q]
        /\ at'[p] = 1 /\ pc'[p] = "discard"
    BY <1>0, <1>2, <1>4, GotoMoves DEF StartDiscard
  <2>2. UNCHANGED <<disk, half, source, spilt, rowsOf, edgesOf, rec, held, loaded, trusted,
                    programs, disturbed, contended>>
    BY <1>4 DEF StartDiscard, build, handle, history
  <2>3. Types' /\ Alone(p) /\ OnDisk'
    BY <1>0, <2>1, <2>2 DEF Types, Alone, OnDisk, IsCache
  <2>4. Builds(p)'
    BY <2>1 DEF Builds, Building, Reading
  <2>5. Holds(p)'
    BY <1>0, <1>1, <2>1, <2>2, CutAssumption DEF Holds, Holding, IsCache
  <2> QED BY <2>3, <2>4, <2>5, Frame
<1> QED BY <1>0, <1>3, <1>4

\* What a load appends is what the manifest records of the file it is at.
LEMMA LoadKeeps ==
    ASSUME IInv, NEW p \in Procs, Load(p)
    PROVE  IInv'
<1> DEFINE m == held[p]
           f == LoadPaths(m)[at[p]]
<1>0. Types /\ OnDisk /\ Builds(p) /\ Holds(p) /\ pc[p] = "load"
  BY Unfolded DEF Load
<1>1. /\ IsCache(m) /\ m # Blank
      /\ Len(LoadPaths(m)) = Len(m.chunks) + 1
      /\ Len(m.chunks) \in 1 .. MaxCut
      /\ Len(LoadPaths(m)) \in 1 .. MaxCut + 2
  BY <1>0, HeldPaths, CutAssumption DEF Holding, Holds
<1>2. UNCHANGED <<disk, half, source, spilt, rowsOf, edgesOf, rec, held, trusted,
                  programs, disturbed, contended>>
  BY DEF Load, build, history
<1>3. CASE FileReads(p, f)
  <2>1. disk[f] = Recorded(m, f)
    BY <1>3 DEF FileReads, Matches
  <2>2. at[p] \in 1 .. Len(LoadPaths(m))
    BY <1>0, <1>1 DEF Holds, Types
  <2>3. disk[f] \in Texts
    BY <1>1, <2>1, <2>2, RecordedIsText DEF IsCache
  <2>4. loaded' = [loaded EXCEPT ![p] = Append(loaded[p], disk[f])]
        /\ "ready" \in Running /\ Step(p, Len(LoadPaths(m)), "ready")
    BY <1>3 DEF Load, Running
  <2>5. /\ pc' \in [Procs -> Running] /\ at' \in [Procs -> 1 .. MaxCut + 2]
        /\ \A q \in Procs \ {p} : pc'[q] = pc[q] /\ at'[q] = at[q]
        /\ at[p] < Len(LoadPaths(m)) => at'[p] = at[p] + 1 /\ pc'[p] = pc[p]
        /\ ~(at[p] < Len(LoadPaths(m))) => at'[p] = 1 /\ pc'[p] = "ready"
    BY <1>0, <1>1, <2>4, StepMoves
  <2>6. loaded \in [Procs -> Seq(Texts)] /\ loaded[p] \in Seq(Texts)
        /\ Len(loaded[p]) = at[p] - 1 /\ at[p] \in Nat
    BY <1>0, CutAssumption DEF Types, Holds
  <2> HIDE DEF f, m
  <2>7. /\ Append(loaded[p], disk[f]) \in Seq(Texts)
        /\ Len(Append(loaded[p], disk[f])) = at[p]
        /\ \A i \in 1 .. at[p] - 1 : Append(loaded[p], disk[f])[i] = loaded[p][i]
        /\ Append(loaded[p], disk[f])[at[p]] = disk[f]
    BY <2>3, <2>6
  <2>8. loaded' \in [Procs -> Seq(Texts)] /\ loaded'[p] = Append(loaded[p], disk[f])
        /\ \A q \in Procs \ {p} : loaded'[q] = loaded[q]
    BY <2>4, <2>6, <2>7
  <2>9. Types' /\ Alone(p) /\ OnDisk'
    BY <1>0, <1>2, <2>5, <2>8 DEF Types, Alone, OnDisk, IsCache
  <2>10. \A i \in 1 .. at[p] - 1 : loaded[p][i] = Recorded(m, LoadPaths(m)[i])
    BY <1>0, <2>6 DEF Holds, m
  <2>11. \A i \in 1 .. Len(loaded'[p]) : loaded'[p][i] = Recorded(m, LoadPaths(m)[i])
    BY <2>1, <2>6, <2>7, <2>8, <2>10 DEF f
  <2>12. held'[p] = m /\ pc'[p] \in {"load", "ready"} /\ Len(loaded'[p]) = at[p]
    BY <1>0, <1>2, <2>5, <2>7, <2>8 DEF m
  <2>13. pc'[p] = "load" => at'[p] = at[p] + 1 /\ at'[p] <= Len(m.chunks) + 1
    BY <1>0, <1>1, <2>5, <2>6
  <2>14. Builds(p)'
    BY <2>12 DEF Builds, Building, Reading
  <2>15. Holds(p)'
    <3>1. held'[p] # Blank /\ IsCache(held[p])' /\ pc'[p] # "idle"
      BY <1>1, <2>12 DEF IsCache
    <3>2. pc'[p] = "load" => Len(loaded'[p]) = at'[p] - 1
      BY <2>6, <2>12, <2>13
    <3> QED BY <2>11, <2>12, <2>13, <3>1, <3>2 DEF Holds
  <2> QED BY <2>9, <2>14, <2>15, Frame
<1>4. CASE ~FileReads(p, f)
  <2>1. Goto(p, "raised") /\ UNCHANGED loaded /\ "raised" \in Running
    BY <1>4 DEF Load, Running
  <2>2. /\ pc' \in [Procs -> Running] /\ at' \in [Procs -> 1 .. MaxCut + 2]
        /\ \A q \in Procs \ {p} : pc'[q] = pc[q] /\ at'[q] = at[q]
        /\ at'[p] = 1 /\ pc'[p] = "raised"
    BY <1>0, <2>1, GotoMoves
  <2>3. Types' /\ Alone(p) /\ OnDisk'
    BY <1>0, <1>2, <2>1, <2>2 DEF Types, Alone, OnDisk, IsCache
  <2>4. Builds(p)'
    BY <2>2 DEF Builds, Building, Reading
  <2>5. Holds(p)'
    BY <1>0, <1>2, <2>1, <2>2 DEF Holds, Holding, IsCache
  <2> QED BY <2>3, <2>4, <2>5, Frame
<1> QED BY <1>3, <1>4

LEMMA DiscardKeeps ==
    ASSUME IInv, NEW p \in Procs, Discard(p)
    PROVE  IInv'
<1> DEFINE m == held[p]
           f == Paths(m)[at[p]]
<1>0. Types /\ OnDisk /\ Builds(p) /\ Holds(p) /\ pc[p] = "discard"
  BY Unfolded DEF Discard
<1>1. /\ IsCache(m) /\ m # Blank
      /\ Len(Paths(m)) = Len(m.chunks) + 2
      /\ Len(m.chunks) \in 1 .. MaxCut
      /\ Len(Paths(m)) \in 1 .. MaxCut + 2
  BY <1>0, HeldPaths, CutAssumption DEF Holding, Holds
<1>2. disk' = [disk EXCEPT ![f] = Blank] /\ UNCHANGED programs
  BY DEF Discard
<1>3. DOMAIN disk' = Files /\ disk' = [g \in Files |-> disk'[g]] /\ OnDisk'
  <2>1. DOMAIN disk = Files /\ disk = [g \in Files |-> disk[g]] /\ Manifest \in Files
    BY <1>0 DEF Types, Files
  <2>2. disk'[Manifest] = disk[Manifest] \/ disk'[Manifest] = Blank
    BY <1>2, <2>1
  <2> QED BY <1>0, <1>2, <2>1, <2>2 DEF OnDisk, IsCache
<1>4. disturbed' \subseteq Procs /\ contended' \in BOOLEAN
  <2>1. CASE at[p] = 1
    BY <1>0, <2>1 DEF Discard, Types, Disturbs, Others, Enters
  <2>2. CASE at[p] # 1
    BY <1>0, <2>2 DEF Discard, Types, Disturbs, Others
  <2> QED BY <2>1, <2>2
<1>5. CASE ~(at[p] < Len(Paths(m)))
  <2>1. Abandon(p)
    BY <1>5 DEF Discard
  <2> QED BY <1>2, <1>3, <1>4, <2>1, AbandonKeeps
<1>6. CASE at[p] < Len(Paths(m))
  <2>1. Step(p, Len(Paths(m)), "idle") /\ UNCHANGED <<half, build, handle>>
        /\ "idle" \in Running
    BY <1>6 DEF Discard, Running
  <2>2. /\ pc' \in [Procs -> Running] /\ at' \in [Procs -> 1 .. MaxCut + 2]
        /\ \A q \in Procs \ {p} : pc'[q] = pc[q] /\ at'[q] = at[q]
        /\ at'[p] = at[p] + 1 /\ pc'[p] = "discard"
    BY <1>0, <1>1, <1>6, <2>1, StepMoves
  <2>3. UNCHANGED <<half, source, spilt, rowsOf, edgesOf, rec, held, loaded, trusted, programs>>
    BY <1>2, <2>1 DEF build, handle
  <2>4. Types' /\ Alone(p)
    BY <1>0, <1>3, <1>4, <2>2, <2>3 DEF Types, Alone
  <2>5. at'[p] <= Len(m.chunks) + 2
    BY <1>0, <1>1, <1>6, <2>2, CutAssumption DEF Types
  <2>6. Builds(p)'
    BY <2>2 DEF Builds, Building, Reading
  <2>7. Holds(p)'
    BY <1>0, <2>2, <2>3, <2>5 DEF Holds, Holding, IsCache
  <2> QED BY <1>3, <2>4, <2>6, <2>7, Frame
<1> QED BY <1>5, <1>6

LEMMA Initially == Init => IInv
<1> SUFFICES ASSUME Init PROVE IInv
  OBVIOUS
<1>1. Types
  <2>1. <<>> \in Seq(ChunkTexts) /\ <<>> \in Seq(Texts) /\ 1 \in 1 .. MaxCut + 2
        /\ 0 \in 0 .. MaxPrograms
    BY CutAssumption, ProgramAssumption
  <2> QED BY <2>1 DEF Init, Types, Running
<1>2. OnDisk
  BY DEF Init, OnDisk, Files
<1>3. ASSUME NEW p \in Procs PROVE Builds(p) /\ Holds(p)
  <2>1. \A i \in 1 .. Len(loaded[p]) : FALSE
    BY <1>3 DEF Init
  <2> QED BY <1>3, <2>1 DEF Init, Builds, Holds, Building, Reading, Holding
<1> QED BY <1>1, <1>2, <1>3 DEF IInv

LEMMA Inductive == IInv /\ [Next]_vars => IInv'
<1> SUFFICES ASSUME IInv, [Next]_vars PROVE IInv'
  OBVIOUS
<1>1. CASE UNCHANGED vars
  <2>1. UNCHANGED <<disk, pc, at, half, source, spilt, rowsOf, edgesOf, rec, held, loaded,
                    trusted, programs, disturbed, contended>>
    BY <1>1 DEF vars, build, handle, history
  <2>2. Types' /\ OnDisk'
    BY <2>1 DEF IInv, Types, OnDisk, IsCache
  <2>3. ASSUME NEW p \in Procs PROVE Builds(p)' /\ Holds(p)'
    BY <2>1 DEF IInv, Builds, Holds, IsCache
  <2> QED BY <2>2, <2>3 DEF IInv
<1>2. ASSUME NEW p \in Procs,
             \/ StartBuild(p) \/ SpillOpen(p) \/ SpillWrite(p) \/ Census(p) \/ Fit(p)
             \/ TransformOpen(p) \/ TransformWrite(p) \/ LastOpen(p) \/ FieldsWrite(p)
             \/ ManifestWrite(p) \/ SourceRaises(p) \/ Cancelled(p) \/ Open(p)
             \/ OpenRaises(p) \/ Verify(p) \/ VerifyRaises(p) \/ StartLoad(p)
             \/ Load(p) \/ StartDiscard(p) \/ Discard(p) \/ Crash(p)
      PROVE  IInv'
  BY <1>2, StartBuildKeeps, SpillKeeps, CensusKeeps, FitKeeps, TransformOpenKeeps,
     TransformWriteKeeps, LastFilesKeep, ManifestWriteKeeps, FailuresKeep, OpenKeeps,
     VerifyKeeps, StartsKeep, LoadKeeps, DiscardKeeps
<1> QED BY <1>1, <1>2 DEF Next, Finished

LEMMA Invariance == Spec => []IInv
BY Initially, Inductive, PTL DEF Spec

-----------------------------------------------------------------------------
(* Theorems. *)

\* Types, and how far a build and a load can have come: TypeOK of every run.
THEOREM TypeCorrect == Spec => []TypeOK
<1>1. IInv => TypeOK
  <2> SUFFICES ASSUME IInv PROVE TypeOK
    OBVIOUS
  <2>1. ASSUME NEW p \in Procs
        PROVE  /\ pc[p] \in {"spill", "census", "fit", "transform"} =>
                    at[p] <= source[p].cut /\ Len(rec[p]) <= source[p].cut
               /\ pc[p] = "load" => Len(loaded[p]) = at[p] - 1
    <3>1. Types /\ Builds(p) /\ Holds(p)
      BY Unfolded
    <3>2. ASSUME pc[p] \in Reading
          PROVE  at[p] <= source[p].cut /\ Len(rec[p]) <= source[p].cut
      <4>1. source[p].cut \in 1 .. MaxCut /\ at[p] \in 1 .. source[p].cut
            /\ source[p].cut \in Nat
        <5>1. source[p] \in Sources /\ at[p] \in 1 .. source[p].cut
          BY <3>1, <3>2 DEF Builds, Building, Reading
        <5>2. source[p].cut \in 1 .. MaxCut
          BY <5>1, Unfolded
        <5> QED BY <5>1, <5>2, CutAssumption
      <4>2. CASE pc[p] = "transform"
        <5>1. PICK n \in {at[p], at[p] - 1} : rec[p] = Prefix(source[p], n)
          BY <3>1, <4>2 DEF Builds
        <5>2. n \in Nat /\ n <= source[p].cut
          BY <4>1, <5>1
        <5> DEFINE chunks == [i \in 1 .. n |-> ChunkOf(source[p], i)]
        <5>3. chunks \in Seq({chunks[i] : i \in 1 .. n}) /\ Len(chunks) = n
          BY <5>2
        <5>4. rec[p] = chunks
          BY <5>1 DEF Prefix
        <5> HIDE DEF chunks
        <5> QED BY <4>1, <5>2, <5>3, <5>4
      <4>3. CASE pc[p] # "transform"
        <5>1. rec[p] = <<>> /\ Len(rec[p]) = 0
          BY <3>1, <3>2, <4>3 DEF Builds, Reading
        <5> QED BY <4>1, <5>1
      <4> QED BY <4>2, <4>3
    <3> QED BY <3>1, <3>2 DEF Holds, Reading
  <2> QED BY <2>1 DEF IInv, Types, TypeOK, Texts
<1> QED BY <1>1, Invariance, PTL

\* A manifest on disk or in a handle is of one source from end to end, however
\* many processes spill, build and die in the layout: the passes of
\* build_external_dataset never mix what two sources delivered.
THEOREM OneSource == Spec => []CacheIsOfOneSource
<1>1. IInv => CacheIsOfOneSource
  BY DEF IInv, OnDisk, IsCache, Holds, CacheIsOfOneSource, Published, Blank
<1> QED BY <1>1, Invariance, PTL

\* Whatever materialize_binned and row_fields return is, file by file, what the
\* manifest of their dataset recorded.
THEOREM LoadsAreOwn == Spec => []LoadsItsOwnBuild
<1>1. IInv => LoadsItsOwnBuild
  BY DEF IInv, Holds, LoadsItsOwnBuild
<1> QED BY <1>1, Invariance, PTL

-----------------------------------------------------------------------------
(* The files themselves: what is on disk as long as a process is alone.    *)

\* The files that the manifest m names hold what it records of them.
Whole(m) ==
    \A f \in {FieldsFile} \cup {Bins(i) : i \in 1 .. Len(m.chunks)} :
        disk[f] = Recorded(m, f)

\* p has changed a cache file and is not done with the others.
Active(p) ==
    \/ pc[p] = "transform" /\ (half[p] \/ at[p] > 1)
    \/ pc[p] \in {"fields", "manifest"}
    \/ pc[p] = "discard" /\ at[p] > 1

\* The files p has written so far are as it wrote them.
Written(p) ==
    /\ pc[p] = "transform" =>
         \A i \in 1 .. at[p] - 1 : disk[Bins(i)] = ChunkOf(source[p], i)
    /\ pc[p] \in {"fields", "manifest"} =>
         \A i \in 1 .. source[p].cut : disk[Bins(i)] = ChunkOf(source[p], i)
    /\ pc[p] = "manifest" => disk[FieldsFile] = FieldsText({source[p].data})

\* So are those it has verified.
Verified(p) ==
    pc[p] = "verify" => \A i \in 1 .. at[p] - 1 : FileReads(p, VerifyPaths(held[p])[i])

\* While nobody else writes, p's files stay as they are.
Undisturbed(p) ==
    p \notin disturbed =>
        /\ Written(p) /\ Verified(p)
        /\ (pc[p] \in {"ready", "load", "raised"} /\ trusted[p]) =>
              pc[p] # "raised" /\ Whole(held[p])

\* While no two writers meet, there is one at most, and no manifest beside it.
Uncontended ==
    ~contended =>
        /\ \A p \in Procs : Active(p) =>
              /\ ~Published /\ Written(p)
              /\ \A q \in Procs \ {p} : ~Active(q)
        /\ Published => Whole(disk[Manifest])

FilesInv == Uncontended /\ \A p \in Procs : Undisturbed(p)

\* The cache of s is whole when its chunks and its row fields are s's.
LEMMA WholeIs ==
    ASSUME NEW s \in Sources
    PROVE  Whole(CacheOf(s)) <=>
             /\ disk[FieldsFile] = FieldsText({s.data})
             /\ \A i \in 1 .. s.cut : disk[Bins(i)] = ChunkOf(s, i)
<1>1. Len(CacheOf(s).chunks) = s.cut  BY CacheShape
<1>2. Recorded(CacheOf(s), FieldsFile) = FieldsText({s.data})
  BY DEF Recorded, CacheOf, ManifestText
<1>3. ASSUME NEW i \in 1 .. s.cut
      PROVE  Recorded(CacheOf(s), Bins(i)) = ChunkOf(s, i)
  <2>1. Bins(i) # FieldsFile /\ Bins(i)[2] = i  BY DEF Bins, FieldsFile
  <2>2. CacheOf(s).chunks = [j \in 1 .. s.cut |-> ChunkOf(s, j)]
    BY DEF CacheOf, ManifestText
  <2> QED  BY <2>1, <2>2 DEF Recorded
<1> QED  BY <1>1, <1>2, <1>3 DEF Whole

\* The files of a cache, apart from the raw ones.
SameCache ==
    /\ disk'[Manifest] = disk[Manifest] /\ disk'[FieldsFile] = disk[FieldsFile]
    /\ \A i \in 1 .. MaxCut : disk'[Bins(i)] = disk[Bins(i)]

\* A cache that is whole stays so when none of its files changes.
LEMMA WholeStays ==
    ASSUME NEW m, IsCache(m), Whole(m), SameCache
    PROVE  Whole(m)'
<1>1. PICK s \in Sources : m = CacheOf(s)  BY DEF IsCache
<1>2. s.cut \in 1 .. MaxCut /\ Len(m.chunks) = s.cut  BY <1>1, CacheShape
<1>3. \A i \in 1 .. s.cut : i \in 1 .. MaxCut  BY <1>2, CutAssumption
<1> QED  BY <1>2, <1>3 DEF Whole, SameCache, Recorded

\* What p verifies is what the manifest it holds names.
LEMMA VerifyFiles ==
    ASSUME NEW s \in Sources
    PROVE  /\ VerifyPaths(CacheOf(s))[1] = FieldsFile
           /\ \A i \in 1 .. s.cut : VerifyPaths(CacheOf(s))[i + 1] = Bins(i)
           /\ Len(VerifyPaths(CacheOf(s))) = s.cut + 1
<1> DEFINE m == CacheOf(s)
           all == Files \cup {Bins(i) : i \in 1 .. Len(m.chunks)}
           bins == [i \in 1 .. Len(m.chunks) |-> Bins(i)]
<1>1. m.chunks \in Seq(ChunkTexts) /\ Len(m.chunks) = s.cut /\ s.cut \in Nat
  BY CacheShape, CutAssumption
<1>2. bins \in Seq(all) /\ Len(bins) = s.cut /\ \A i \in 1 .. s.cut : bins[i] = Bins(i)
  BY <1>1
<1>3. <<FieldsFile>> \in Seq(all) /\ Len(<<FieldsFile>>) = 1 /\ <<FieldsFile>>[1] = FieldsFile
  BY DEF Files
<1>4. VerifyPaths(m) = <<FieldsFile>> \o bins  BY DEF VerifyPaths
<1> HIDE DEF bins, all
<1>5. /\ Len(<<FieldsFile>> \o bins) = s.cut + 1
      /\ (<<FieldsFile>> \o bins)[1] = FieldsFile
      /\ \A i \in 1 .. s.cut : (<<FieldsFile>> \o bins)[i + 1] = bins[i]
  BY <1>1, <1>2, <1>3, ConcatProperties
<1> QED  BY <1>1, <1>2, <1>4, <1>5

\* Whoever does not move and is not written beside keeps what it knows of its files.
LEMMA StandsBy ==
    ASSUME IInv, NEW p \in Procs, Undisturbed(p), SameCache,
           pc'[p] = pc[p], at'[p] = at[p], source'[p] = source[p], held'[p] = held[p],
           trusted'[p] = trusted[p], p \in disturbed' <=> p \in disturbed
    PROVE  Undisturbed(p)'
<1> SUFFICES ASSUME p \notin disturbed
             PROVE  /\ Written(p)' /\ Verified(p)'
                    /\ (pc[p] \in {"ready", "load", "raised"} /\ trusted[p]) =>
                          pc[p] # "raised" /\ Whole(held[p])'
  BY DEF Undisturbed
<1>0. Types /\ Builds(p) /\ Holds(p)  BY Unfolded
<1>1. Written(p)'
  <2>1. ASSUME pc[p] \in {"transform", "fields", "manifest"}
        PROVE  source[p].cut \in 1 .. MaxCut /\ (pc[p] = "transform" => at[p] \in 1 .. source[p].cut)
    BY <1>0, <2>1, Unfolded DEF Builds, Building, Reading
  <2>2. CASE pc[p] = "transform"
    <3>1. \A i \in 1 .. at[p] - 1 : i \in 1 .. MaxCut  BY <2>1, <2>2, CutAssumption
    <3> QED  BY <2>2, <3>1 DEF Undisturbed, Written, SameCache
  <2>3. CASE pc[p] \in {"fields", "manifest"}
    <3>1. \A i \in 1 .. source[p].cut : i \in 1 .. MaxCut  BY <2>1, <2>3, CutAssumption
    <3> QED  BY <2>3, <3>1 DEF Undisturbed, Written, SameCache
  <2>4. CASE pc[p] \notin {"transform", "fields", "manifest"}
    BY <2>4 DEF Written
  <2> QED  BY <2>2, <2>3, <2>4
<1>2. Verified(p)'
  <2> SUFFICES ASSUME pc[p] = "verify", NEW i \in 1 .. at[p] - 1
               PROVE  FileReads(p, VerifyPaths(held[p])[i])'
    BY DEF Verified
  <2>1. FileReads(p, VerifyPaths(held[p])[i])  BY DEF Undisturbed, Verified
  <2>2. PICK s \in Sources : held[p] = CacheOf(s)
    BY <1>0 DEF Holds, Holding, IsCache
  <2>3. at[p] \in Nat /\ at[p] <= s.cut + 1 /\ s.cut \in 1 .. MaxCut
    BY <1>0, <2>2, CacheShape, CutAssumption DEF Holds, Types
  <2>4. i = 1 \/ (i - 1 \in 1 .. s.cut /\ i - 1 \in 1 .. MaxCut /\ i = (i - 1) + 1)
    BY <2>3, CutAssumption
  <2>5. VerifyPaths(held[p])[i] \in {FieldsFile} \cup {Bins(j) : j \in 1 .. MaxCut}
    BY <2>2, <2>4, VerifyFiles
  <2>6. disk'[VerifyPaths(held[p])[i]] = disk[VerifyPaths(held[p])[i]]
    BY <2>5 DEF SameCache
  <2> QED  BY <2>1, <2>6 DEF FileReads, Matches, VerifyPaths
<1>3. ASSUME pc[p] \in {"ready", "load", "raised"}, trusted[p]
      PROVE  pc[p] # "raised" /\ Whole(held[p])'
  <2>1. pc[p] # "raised" /\ Whole(held[p])  BY <1>3 DEF Undisturbed
  <2>2. IsCache(held[p])  BY <1>0, <1>3 DEF Holds, Holding
  <2>3. \A m : (m = held[p]) => (m = held[p])'  OBVIOUS
  <2>4. PICK m : m = held[p]  OBVIOUS
  <2>5. Whole(m)'  BY <2>1, <2>2, <2>4, WholeStays
  <2> QED  BY <2>1, <2>3, <2>4, <2>5 DEF Whole
<1> QED  BY <1>1, <1>2, <1>3

\* What p's step leaves of the others, their datasets included.
LeavesOthers(p) ==
    /\ Alone(p)
    /\ \A q \in Procs \ {p} : trusted'[q] = trusted[q]

\* A step that changes no file of the cache and leaves p outside its writing.
LEMMA QuietStep ==
    ASSUME IInv, FilesInv, NEW p \in Procs, LeavesOthers(p), SameCache,
           UNCHANGED contended,
           \A q \in Procs \ {p} : q \in disturbed' <=> q \in disturbed,
           ~Active(p)', Undisturbed(p)'
    PROVE  FilesInv'
<1>1. ASSUME NEW q \in Procs \ {p}
      PROVE  /\ Undisturbed(q)' /\ (Active(q)' <=> Active(q))
             /\ (Active(q) /\ Written(q)) => Written(q)'
  <2>1. /\ pc'[q] = pc[q] /\ at'[q] = at[q] /\ source'[q] = source[q] /\ held'[q] = held[q]
        /\ half'[q] = half[q] /\ trusted'[q] = trusted[q]
        /\ q \in disturbed' <=> q \in disturbed
    BY DEF LeavesOthers, Alone
  <2>2. Undisturbed(q)'  BY <2>1, StandsBy DEF FilesInv
  <2>3. Active(q)' <=> Active(q)  BY <2>1 DEF Active
  <2>4. ASSUME Active(q), Written(q) PROVE Written(q)'
    <3>1. Builds(q)  BY Unfolded
    <3>2. ASSUME pc[q] \in {"transform", "fields", "manifest"}
          PROVE  source[q].cut \in 1 .. MaxCut
                 /\ (pc[q] = "transform" => at[q] \in 1 .. source[q].cut)
      BY <3>1, <3>2, Unfolded DEF Builds, Building, Reading
    <3>3. pc[q] = "transform" => \A i \in 1 .. at[q] - 1 : i \in 1 .. MaxCut
      BY <3>2, CutAssumption
    <3>4. pc[q] \in {"fields", "manifest"} => \A i \in 1 .. source[q].cut : i \in 1 .. MaxCut
      BY <3>2, CutAssumption
    <3> QED  BY <2>1, <2>4, <3>3, <3>4 DEF Written, SameCache
  <2> QED  BY <2>2, <2>3, <2>4
<1>2. ASSUME ~contended', Published'
      PROVE  Whole(disk[Manifest])'
  <2>1. Published /\ ~contended  BY <1>2 DEF Published, SameCache
  <2>2. PICK m : m = disk[Manifest]  OBVIOUS
  <2>3. m = disk'[Manifest]  BY <2>2 DEF SameCache
  <2>4. IsCache(m)  BY <2>1, <2>2, Unfolded DEF OnDisk, Published, Blank
  <2>5. Whole(m)  BY <2>1, <2>2 DEF FilesInv, Uncontended
  <2>6. Whole(m)'  BY <2>4, <2>5, WholeStays
  <2> QED  BY <2>3, <2>6 DEF Whole
<1>3. Uncontended'
  BY <1>1, <1>2 DEF FilesInv, Uncontended, Published, SameCache
<1> QED  BY <1>1, <1>3 DEF FilesInv

\* A step that changes a file of the cache: all others are disturbed by it.
LEMMA WritingStep ==
    ASSUME IInv, FilesInv, NEW p \in Procs, LeavesOthers(p), Others(p) \subseteq disturbed',
           ~contended' => \A q \in Procs \ {p} : ~Active(q),
           ~contended' /\ Active(p)' => ~Published' /\ Written(p)',
           ~contended' /\ Published' => Whole(disk[Manifest])',
           Undisturbed(p)'
    PROVE  FilesInv'
<1>1. ASSUME NEW q \in Procs \ {p}
      PROVE  Undisturbed(q)' /\ (Active(q)' <=> Active(q))
  BY DEF LeavesOthers, Alone, Others, Undisturbed, Active
<1>2. Uncontended'
  BY <1>1 DEF Uncontended
<1> QED  BY <1>1, <1>2 DEF FilesInv

\* Steps that write no file, and those that write raw ones.
LEMMA QuietSteps ==
    ASSUME IInv, FilesInv, NEW p \in Procs,
           \/ StartBuild(p) \/ SpillOpen(p) \/ SpillWrite(p) \/ Census(p) \/ Fit(p)
           \/ SourceRaises(p) \/ Cancelled(p) \/ Crash(p) \/ VerifyRaises(p)
           \/ OpenRaises(p) \/ StartDiscard(p)
    PROVE  FilesInv'
<1>0. Types /\ Builds(p) /\ Holds(p)  BY Unfolded
<1>1. LeavesOthers(p) /\ UNCHANGED history
  BY <1>0 DEF LeavesOthers, Alone, Types, StartBuild, SpillOpen, SpillWrite, Census, Fit,
     SourceRaises, Cancelled, Crash, VerifyRaises, OpenRaises, StartDiscard, Truncate, Store,
     Step, Goto, Abandon, build, handle
<1>2. SameCache
  <2>1. CASE SpillOpen(p) \/ SpillWrite(p)
    <3>1. PICK text : disk' = [disk EXCEPT ![Raw(at[p])] = text]
      BY <2>1 DEF SpillOpen, SpillWrite, Truncate, Store
    <3>2. \A f \in Files : f # Raw(at[p]) => disk'[f] = disk[f]
      BY <1>0, <3>1 DEF Types
    <3>3. /\ Manifest \in Files /\ FieldsFile \in Files
          /\ \A i \in 1 .. MaxCut : Bins(i) \in Files /\ Bins(i) # Raw(at[p])
          /\ Manifest # Raw(at[p]) /\ FieldsFile # Raw(at[p])
      BY DEF Files, Manifest, FieldsFile, Bins, Raw
    <3> QED  BY <3>2, <3>3 DEF SameCache
  <2>2. CASE ~(SpillOpen(p) \/ SpillWrite(p))
    <3>1. UNCHANGED disk
      BY <2>2 DEF StartBuild, Census, Fit, SourceRaises, Cancelled, Crash, VerifyRaises,
         OpenRaises, StartDiscard
    <3> QED  BY <3>1 DEF SameCache
  <2> QED  BY <2>1, <2>2
<1>3. /\ pc'[p] \in {"spill", "census", "fit", "idle", "transform", "discard"}
      /\ pc'[p] = "transform" => at'[p] = 1 /\ half'[p] = FALSE
      /\ pc'[p] = "discard" => at'[p] = 1
  BY <1>0 DEF Types, Builds, StartBuild, SpillOpen, SpillWrite, Census, Fit,
     SourceRaises, Cancelled, Crash, VerifyRaises, OpenRaises, StartDiscard, Step, Goto, Abandon
<1>4. ~Active(p)'  BY <1>3 DEF Active
<1>5. Undisturbed(p)'
  BY <1>3 DEF Undisturbed, Written, Verified
<1> QED  BY <1>1, <1>2, <1>4, <1>5, QuietStep DEF history

\* What an opened, verified or loaded cache is known to be.
LEMMA ReaderSteps ==
    ASSUME IInv, FilesInv, NEW p \in Procs,
           Open(p) \/ Verify(p) \/ StartLoad(p) \/ Load(p)
    PROVE  FilesInv'
<1>0. Types /\ Builds(p) /\ Holds(p) /\ Undisturbed(p)  BY Unfolded DEF FilesInv
<1>1. LeavesOthers(p) /\ UNCHANGED <<disk, contended>>
      /\ \A q \in Procs \ {p} : q \in disturbed' <=> q \in disturbed
  BY <1>0 DEF LeavesOthers, Alone, Types, Open, Verify, StartLoad, Load, Step, Goto,
     build, handle, history
<1>2. SameCache  BY <1>1 DEF SameCache
<1>3. pc'[p] \in {"verify", "ready", "load", "raised"}
  BY <1>0 DEF Types, Open, Verify, StartLoad, Load, Step, Goto
<1>4. ~Active(p)' /\ Written(p)'  BY <1>3 DEF Active, Written
<1>5. CASE Open(p)
  <2>1. at'[p] = 1 /\ pc'[p] \in {"verify", "ready"} /\ (trusted'[p] => pc'[p] = "verify")
    BY <1>0, <1>5 DEF Open, Goto, Types
  <2>2. Undisturbed(p)'  BY <1>4, <2>1 DEF Undisturbed, Verified
  <2> QED  BY <1>1, <1>2, <1>4, <2>2, QuietStep
<1>6. CASE Verify(p)
  <2>1. PICK s \in Sources : held[p] = CacheOf(s)
    BY <1>0, <1>6 DEF Verify, Holds, Holding, IsCache
  <2>2. /\ s.cut \in 1 .. MaxCut /\ Len(VerifyPaths(held[p])) = s.cut + 1
        /\ at[p] \in 1 .. s.cut + 1 /\ Recorded(held[p], FieldsFile) = FieldsText({s.data})
        /\ \A i \in 1 .. s.cut : Recorded(held[p], Bins(i)) = ChunkOf(s, i)
    <3>1. s.cut \in 1 .. MaxCut /\ Len(CacheOf(s).chunks) = s.cut  BY CacheShape
    <3>2. Len(VerifyPaths(held[p])) = s.cut + 1 /\ at[p] \in 1 .. s.cut + 1
      BY <1>0, <1>6, <2>1, <3>1, VerifyFiles DEF Holds, Verify, Types
    <3>3. ASSUME NEW i \in 1 .. s.cut
          PROVE  Recorded(CacheOf(s), Bins(i)) = ChunkOf(s, i)
      <4>1. Bins(i) # FieldsFile /\ Bins(i)[2] = i  BY DEF Bins, FieldsFile
      <4>2. CacheOf(s).chunks = [j \in 1 .. s.cut |-> ChunkOf(s, j)]
        BY DEF CacheOf, ManifestText
      <4> QED  BY <4>1, <4>2 DEF Recorded
    <3>4. Recorded(CacheOf(s), FieldsFile) = FieldsText({s.data})
      BY DEF Recorded, CacheOf, ManifestText
    <3> QED  BY <2>1, <3>1, <3>2, <3>3, <3>4
  <2>3. UNCHANGED <<disk, held, disturbed>> /\ FileReads(p, VerifyPaths(held[p])[at[p]])
        /\ pc[p] = "verify" /\ Step(p, Len(VerifyPaths(held[p])), "ready")
    BY <1>6 DEF Verify, handle, history
  <2>4. ASSUME p \notin disturbed, NEW i \in 1 .. at[p]
        PROVE  FileReads(p, VerifyPaths(held[p])[i])
    <3>1. CASE i = at[p]  BY <2>3, <3>1
    <3>2. CASE i # at[p]
      <4>1. i \in 1 .. at[p] - 1  BY <2>2, <3>2
      <4> QED  BY <1>0, <2>3, <2>4, <4>1 DEF Undisturbed, Verified
    <3> QED  BY <3>1, <3>2
  <2>5. CASE at[p] < s.cut + 1
    <3>1. pc'[p] = "verify" /\ at'[p] - 1 = at[p]
      BY <1>0, <2>2, <2>3, <2>5 DEF Step, Types
    <3>2. p \notin disturbed => Verified(p)'
      BY <2>3, <2>4, <3>1 DEF Verified, FileReads, Matches, VerifyPaths
    <3>3. Undisturbed(p)'  BY <1>4, <2>3, <3>1, <3>2 DEF Undisturbed
    <3> QED  BY <1>1, <1>2, <1>4, <3>3, QuietStep
  <2>6. CASE ~(at[p] < s.cut + 1)
    <3>1. pc'[p] = "ready" /\ at[p] = s.cut + 1
      BY <1>0, <2>2, <2>3, <2>6 DEF Step, Goto, Types
    <3>2. ASSUME p \notin disturbed PROVE Whole(CacheOf(s))
      <4>1. disk[FieldsFile] = FieldsText({s.data})
        BY <2>1, <2>2, <2>4, <3>1, <3>2, VerifyFiles, 1 \in 1 .. s.cut + 1 DEF FileReads, Matches
      <4>2. ASSUME NEW i \in 1 .. s.cut PROVE disk[Bins(i)] = ChunkOf(s, i)
        <5>1. i + 1 \in 1 .. at[p]  BY <2>2, <3>1
        <5>2. FileReads(p, VerifyPaths(held[p])[i + 1])  BY <2>4, <3>2, <5>1
        <5>3. VerifyPaths(held[p])[i + 1] = Bins(i)  BY <2>1, VerifyFiles
        <5> QED  BY <2>2, <5>2, <5>3 DEF FileReads, Matches
      <4> QED  BY <4>1, <4>2, WholeIs
    <3>3. p \notin disturbed => Whole(held[p])'
      BY <2>1, <2>3, <3>2 DEF Whole
    <3>4. Undisturbed(p)'  BY <1>4, <2>3, <3>1, <3>3 DEF Undisturbed, Verified
    <3> QED  BY <1>1, <1>2, <1>4, <3>4, QuietStep
  <2> QED  BY <2>5, <2>6
<1>7. CASE StartLoad(p)
  <2>1. pc'[p] = "load" /\ pc[p] \in {"ready", "raised"} /\ UNCHANGED <<held, trusted, disturbed>>
    BY <1>0, <1>7 DEF StartLoad, Live, Goto, Types, history
  <2>2. Undisturbed(p)'
    BY <1>0, <1>1, <1>4, <2>1 DEF Undisturbed, Verified, Whole
  <2> QED  BY <1>1, <1>2, <1>4, <2>2, QuietStep
<1>8. CASE Load(p)
  <2>1. /\ pc[p] = "load" /\ pc'[p] \in {"load", "ready", "raised"}
        /\ UNCHANGED <<held, trusted, disturbed>>
        /\ pc'[p] = "raised" => ~FileReads(p, LoadPaths(held[p])[at[p]])
    BY <1>0, <1>8 DEF Load, Step, Goto, Types, history
  <2>2. LoadPaths(held[p])[at[p]]
          \in {FieldsFile} \cup {Bins(i) : i \in 1 .. Len(held[p].chunks)}
    <3>1. /\ held[p].chunks \in Seq(ChunkTexts) /\ Len(held[p].chunks) \in 1 .. MaxCut
          /\ at[p] \in Nat \ {0} /\ at[p] <= Len(held[p].chunks) + 1
      BY <1>0, <2>1, HeldPaths, CutAssumption DEF Holds, Holding, Types
    <3>2. at[p] = Len(held[p].chunks) + 1 \/ at[p] \in 1 .. Len(held[p].chunks)
      BY <3>1
    <3> QED  BY <3>1, <3>2, PathLengths
  <2>3. Undisturbed(p)'
    BY <1>0, <1>1, <1>4, <2>1, <2>2 DEF Undisturbed, Verified, Whole, FileReads, Matches
  <2> QED  BY <1>1, <1>2, <1>4, <2>3, QuietStep
<1> QED  BY <1>5, <1>6, <1>7, <1>8

\* The transform pass opening the next chunk's file: the first one is where two
\* writers meet, or a build meets a cache.
LEMMA TransformOpenWrites ==
    ASSUME IInv, FilesInv, NEW p \in Procs, TransformOpen(p)
    PROVE  FilesInv'
<1>0. Types /\ Builds(p) /\ Undisturbed(p) /\ pc[p] = "transform"
  BY Unfolded DEF FilesInv, TransformOpen
<1>1. source[p].cut \in 1 .. MaxCut /\ at[p] \in 1 .. source[p].cut
  BY <1>0, Unfolded DEF Builds, Building, Reading
<1>2. LeavesOthers(p)
  BY <1>0 DEF LeavesOthers, Alone, Types, TransformOpen, Truncate, handle
<1>3. UNCHANGED <<pc, at, source, held, trusted>> /\ half'[p] /\ ~half[p]
      /\ disk' = [disk EXCEPT ![Bins(at[p])] = Blank]
  BY <1>0 DEF TransformOpen, Truncate, handle, Types
<1>4. Others(p) \subseteq disturbed' /\ (contended => contended')
  BY <1>0 DEF TransformOpen, Disturbs, Enters
<1>5. \A f \in Files : f # Bins(at[p]) => disk'[f] = disk[f]
  BY <1>0, <1>3 DEF Types
<1>6. Manifest \in Files /\ Manifest # Bins(at[p])
  BY DEF Files, Manifest, Bins
<1>7. ASSUME NEW i \in 1 .. at[p] - 1
      PROVE  disk'[Bins(i)] = disk[Bins(i)]
  <2>1. i \in 1 .. MaxCut /\ i # at[p]  BY <1>1, CutAssumption
  <2>2. Bins(i) \in Files /\ Bins(i) # Bins(at[p])  BY <2>1 DEF Files, Bins
  <2> QED  BY <1>5, <2>2
<1>8. Written(p) => Written(p)'
  BY <1>0, <1>3, <1>7 DEF Written
<1>9. CASE at[p] = 1
  <2>0. contended' = (contended \/ Published \/ \E q \in Others(p) : Writing(q))
    BY <1>9 DEF TransformOpen, Enters
  <2>1. Written(p)'
    <3>1. pc'[p] = "transform" /\ at'[p] = 1  BY <1>0, <1>3, <1>9
    <3> QED  BY <3>1 DEF Written
  <2>2. ASSUME ~contended', NEW q \in Procs \ {p} PROVE ~Active(q)
    BY <2>0, <2>2 DEF Others, Writing, Active
  <2>3. Published' => contended'  BY <1>5, <1>6, <2>0 DEF Published
  <2>4. Undisturbed(p)'  BY <1>0, <1>3, <2>1 DEF Undisturbed, Verified
  <2> QED  BY <1>2, <1>4, <2>1, <2>2, <2>3, <2>4, WritingStep
<1>10. CASE at[p] # 1
  <2>1. at[p] > 1 /\ Active(p)  BY <1>0, <1>1, <1>10 DEF Active
  <2>2. disturbed' = disturbed \cup Others(p) /\ UNCHANGED contended
    BY <1>10 DEF TransformOpen, Disturbs
  <2>3. ~contended => ~Published /\ Written(p) /\ \A q \in Procs \ {p} : ~Active(q)
    BY <2>1 DEF FilesInv, Uncontended
  <2>4. Published' <=> Published  BY <1>5, <1>6 DEF Published
  <2>5. Undisturbed(p)'
    BY <1>0, <1>3, <1>8, <2>2 DEF Undisturbed, Verified
  <2> QED  BY <1>2, <1>4, <1>8, <2>2, <2>3, <2>4, <2>5, WritingStep
<1> QED  BY <1>9, <1>10

\* The rest of a build's writing, up to the manifest.
LEMMA BuildWrites ==
    ASSUME IInv, FilesInv, NEW p \in Procs,
           TransformWrite(p) \/ LastOpen(p) \/ FieldsWrite(p)
    PROVE  FilesInv'
<1>0. Types /\ Builds(p) /\ Undisturbed(p) /\ pc[p] \in {"transform", "fields", "manifest"}
  BY Unfolded DEF FilesInv, TransformWrite, LastOpen, FieldsWrite
<1>1. source[p].cut \in 1 .. MaxCut /\ (pc[p] = "transform" => at[p] \in 1 .. source[p].cut)
  BY <1>0, Unfolded DEF Builds, Building, Reading
<1>2. LeavesOthers(p) /\ UNCHANGED <<source, held, trusted, contended>>
      /\ disturbed' = disturbed \cup Others(p)
  BY <1>0 DEF LeavesOthers, Alone, Types, TransformWrite, LastOpen, FieldsWrite, Truncate, Store,
     Step, Goto, Disturbs, handle, build
<1>3. Active(p)
  <2>1. CASE TransformWrite(p)  BY <2>1 DEF TransformWrite, Store, Active
  <2>2. CASE LastOpen(p)  BY <2>2 DEF LastOpen, Active
  <2>3. CASE FieldsWrite(p)  BY <2>3 DEF FieldsWrite, Active
  <2> QED  BY <2>1, <2>2, <2>3
<1>4. ~contended => ~Published /\ Written(p) /\ \A q \in Procs \ {p} : ~Active(q)
  BY <1>3 DEF FilesInv, Uncontended
<1>5. PICK f, text :
        /\ f \in Files
        /\ disk' = [disk EXCEPT ![f] = text]
        /\ TransformWrite(p) => f = Bins(at[p]) /\ text = ChunkOf(source[p], at[p])
        /\ LastOpen(p) => f = LastFile(p) /\ text = Blank
        /\ FieldsWrite(p) => f = FieldsFile /\ text = FieldsText({source[p].data})
  <2>1. CASE TransformWrite(p)
    <3>1. rec[p] = Prefix(source[p], at[p]) /\ disk' = [disk EXCEPT ![Bins(at[p])] = rec[p][at[p]]]
      BY <1>0, <2>1 DEF TransformWrite, Store, Builds
    <3>2. at[p] \in 1 .. source[p].cut /\ at[p] \in 1 .. at[p] /\ at[p] \in 1 .. MaxCut
      BY <1>1, <2>1, CutAssumption DEF TransformWrite
    <3>3. Bins(at[p]) \in Files /\ Prefix(source[p], at[p])[at[p]] = ChunkOf(source[p], at[p])
      BY <3>2 DEF Files, Prefix
    <3>4. ~LastOpen(p) /\ ~FieldsWrite(p)
      BY <2>1 DEF TransformWrite, LastOpen, FieldsWrite
    <3> QED  BY <3>1, <3>3, <3>4
  <2>2. CASE LastOpen(p)
    <3>1. ~TransformWrite(p) /\ ~FieldsWrite(p)
      BY <2>2 DEF TransformWrite, LastOpen, FieldsWrite, Truncate, Store
    <3> QED  BY <2>2, <3>1 DEF LastOpen, Truncate, LastFile, Files
  <2>3. CASE FieldsWrite(p)
    <3>1. ~TransformWrite(p) /\ ~LastOpen(p) /\ pc[p] = "fields"
      BY <2>3 DEF TransformWrite, LastOpen, FieldsWrite, Truncate, Store
    <3>2. rowsOf[p] = {source[p].data}  BY <1>0, <3>1 DEF Builds
    <3> QED  BY <2>3, <3>1, <3>2 DEF FieldsWrite, Store, Files
  <2> QED  BY <2>1, <2>2, <2>3
<1>6. disk'[f] = text /\ \A g \in Files : g # f => disk'[g] = disk[g]
  BY <1>0, <1>5 DEF Types
<1>7. \A i \in 1 .. source[p].cut : Bins(i) \in Files
  BY <1>1, CutAssumption DEF Files
<1>8. ASSUME Written(p) PROVE Written(p)' /\ pc'[p] \in {"transform", "fields", "manifest"}
  <2>1. CASE TransformWrite(p)
    <3>1. f = Bins(at[p]) /\ text = ChunkOf(source[p], at[p]) /\ pc[p] = "transform"
      BY <1>5, <2>1 DEF TransformWrite
    <3>2. ASSUME NEW i \in 1 .. at[p]
          PROVE  disk'[Bins(i)] = ChunkOf(source[p], i)
      <4>1. i \in 1 .. source[p].cut /\ (i # at[p] => i \in 1 .. at[p] - 1)  BY <1>1, <3>1
      <4>2. i # at[p] => Bins(i) # f  BY <3>1 DEF Bins
      <4> QED  BY <1>6, <1>7, <1>8, <3>1, <4>1, <4>2 DEF Written
    <3>3. \/ pc'[p] = "transform" /\ at'[p] - 1 = at[p]
          \/ pc'[p] = "fields" /\ at[p] = source[p].cut
      BY <1>0, <1>1, <2>1, <3>1 DEF TransformWrite, Step, Goto, Types
    <3> QED  BY <1>2, <3>2, <3>3 DEF Written
  <2>2. CASE LastOpen(p)
    <3>1. UNCHANGED <<pc, at>> /\ f = LastFile(p) /\ text = Blank
          /\ pc[p] \in {"fields", "manifest"}
      BY <1>5, <2>2 DEF LastOpen
    <3>2. /\ \A i \in 1 .. source[p].cut : Bins(i) # f
          /\ pc[p] = "manifest" => f # FieldsFile
      BY <3>1 DEF LastFile, Bins, FieldsFile, Manifest
    <3>3. FieldsFile \in Files  BY DEF Files
    <3> QED  BY <1>2, <1>6, <1>7, <1>8, <3>1, <3>2, <3>3 DEF Written
  <2>3. CASE FieldsWrite(p)
    <3>1. pc[p] = "fields" /\ pc'[p] = "manifest" /\ f = FieldsFile
          /\ text = FieldsText({source[p].data})
      BY <1>0, <1>5, <2>3 DEF FieldsWrite, Goto, Types
    <3>2. \A i \in 1 .. source[p].cut : Bins(i) # f
      BY <3>1 DEF Bins, FieldsFile
    <3> QED  BY <1>2, <1>6, <1>7, <1>8, <3>1, <3>2 DEF Written
  <2> QED  BY <2>1, <2>2, <2>3
<1>9. Published' => Published
  <2>1. Manifest \in Files /\ (f = Manifest => text = Blank)
    <3>1. Bins(at[p]) # Manifest /\ FieldsFile # Manifest
      BY DEF Bins, FieldsFile, Manifest
    <3>2. TransformWrite(p) \/ LastOpen(p) \/ FieldsWrite(p)  OBVIOUS
    <3> QED  BY <1>5, <3>1, <3>2 DEF Files
  <2> QED  BY <1>6, <2>1 DEF Published, Blank
<1>10. Undisturbed(p)'
  <2>1. p \notin disturbed' => p \notin disturbed  BY <1>2
  <2> QED  BY <1>0, <1>2, <1>8, <2>1 DEF Undisturbed, Verified
<1> QED  BY <1>2, <1>4, <1>8, <1>9, <1>10, WritingStep DEF Others

\* The build is published, whole if nobody wrote beside it.
LEMMA ManifestPublishes ==
    ASSUME IInv, FilesInv, NEW p \in Procs, ManifestWrite(p)
    PROVE  FilesInv'
<1>0. Types /\ Builds(p) /\ Undisturbed(p) /\ pc[p] = "manifest"
  BY Unfolded DEF FilesInv, ManifestWrite
<1>1. PICK s \in Sources : s = source[p]  BY <1>0 DEF Builds, Building
<1>2. s.cut \in 1 .. MaxCut  BY <1>1, Unfolded
<1>3. OwnManifest(p) = CacheOf(s)
  BY <1>0, <1>1 DEF Builds, OwnManifest, CacheOf, Prefix
<1>4. LeavesOthers(p) /\ UNCHANGED contended /\ disturbed' = disturbed \cup Others(p)
      /\ held'[p] = CacheOf(s) /\ pc'[p] = "ready"
  BY <1>0, <1>3 DEF LeavesOthers, Alone, Types, ManifestWrite, Store, Goto, Disturbs, build
<1>5. Active(p) /\ ~Active(p)'  BY <1>0, <1>4 DEF Active
<1>6. ~contended => Written(p) /\ \A q \in Procs \ {p} : ~Active(q)
  BY <1>5 DEF FilesInv, Uncontended
<1>7. /\ disk'[Manifest] = CacheOf(s)
      /\ \A g \in Files : g # Manifest => disk'[g] = disk[g]
  BY <1>0, <1>3 DEF Types, ManifestWrite, Store, Files
<1>8. ASSUME Written(p) PROVE Whole(CacheOf(s))'
  <2>1. \A i \in 1 .. s.cut : i \in 1 .. MaxCut  BY <1>2, CutAssumption
  <2>2. /\ FieldsFile \in Files /\ FieldsFile # Manifest
        /\ \A i \in 1 .. s.cut : Bins(i) \in Files /\ Bins(i) # Manifest
    BY <2>1 DEF Files, FieldsFile, Bins, Manifest
  <2>3. /\ disk[FieldsFile] = FieldsText({s.data})
        /\ \A i \in 1 .. s.cut : disk[Bins(i)] = ChunkOf(s, i)
    BY <1>0, <1>1, <1>8 DEF Written
  <2>4. Whole(CacheOf(s))  BY <2>3, WholeIs
  <2>5. Len(CacheOf(s).chunks) = s.cut  BY CacheShape
  <2> QED  BY <1>7, <2>2, <2>4, <2>5 DEF Whole, Recorded
<1>9. Undisturbed(p)'
  <2>1. p \notin disturbed' => p \notin disturbed  BY <1>4
  <2>2. Written(p)' /\ Verified(p)'  BY <1>4 DEF Written, Verified
  <2>3. p \notin disturbed => Whole(CacheOf(s))'  BY <1>0, <1>8 DEF Undisturbed
  <2>4. Whole(CacheOf(s))' => Whole(held[p])'  BY <1>4 DEF Whole
  <2> QED  BY <1>4, <2>1, <2>2, <2>3, <2>4 DEF Undisturbed
<1>10. ~contended' /\ Published' => Whole(disk[Manifest])'
  <2>1. Whole(CacheOf(s))' => Whole(disk[Manifest])'  BY <1>7 DEF Whole
  <2> QED  BY <1>4, <1>6, <1>8, <2>1
<1> QED  BY <1>4, <1>5, <1>6, <1>9, <1>10, WritingStep

\* A discard empties the manifest first, so what it leaves half way opens nothing.
LEMMA DiscardWrites ==
    ASSUME IInv, FilesInv, NEW p \in Procs, Discard(p)
    PROVE  FilesInv'
<1>0. Types /\ Builds(p) /\ Holds(p) /\ pc[p] = "discard"
  BY Unfolded DEF Discard
<1>1. /\ Len(Paths(held[p])) = Len(held[p].chunks) + 2
      /\ Len(held[p].chunks) \in 1 .. MaxCut /\ held[p].chunks \in Seq(ChunkTexts)
  BY <1>0, HeldPaths DEF Holding
<1>2. LeavesOthers(p) /\ disturbed' = disturbed \cup Others(p)
      /\ disk' = [disk EXCEPT ![Paths(held[p])[at[p]]] = Blank]
      /\ pc'[p] \in {"discard", "idle"}
  BY <1>0 DEF LeavesOthers, Alone, Types, Discard, Step, Goto, Abandon, Disturbs, build, handle
<1>3. Written(p)' /\ Undisturbed(p)'  BY <1>2 DEF Written, Undisturbed, Verified
<1>4. Published' => Published
  BY <1>0, <1>2 DEF Published, Types, Files, Blank
<1>5. CASE at[p] = 1
  <2>1. Paths(held[p])[1] = Manifest
    <3> DEFINE bins == [i \in 1 .. Len(held[p].chunks) |-> Bins(i)]
               all == Files \cup {Bins(i) : i \in 1 .. Len(held[p].chunks)}
    <3>1. bins \in Seq(all)  BY <1>1
    <3>2. <<Manifest, FieldsFile>> \in Seq(all) /\ Len(<<Manifest, FieldsFile>>) = 2
          /\ <<Manifest, FieldsFile>>[1] = Manifest
      BY DEF Files
    <3>3. Paths(held[p]) = <<Manifest, FieldsFile>> \o bins  BY DEF Paths
    <3> HIDE DEF bins, all
    <3>4. (<<Manifest, FieldsFile>> \o bins)[1] = <<Manifest, FieldsFile>>[1]
      BY <3>1, <3>2, ConcatProperties
    <3> QED  BY <3>2, <3>3, <3>4
  <2>2. ~Published'
    BY <1>0, <1>2, <1>5, <2>1 DEF Published, Types, Files, Blank
  <2>3. contended' <=> (contended \/ \E q \in Others(p) : Writing(q))
    BY <1>5 DEF Discard, Enters
  <2>4. ASSUME ~contended', NEW q \in Procs \ {p} PROVE ~Active(q)
    BY <2>3, <2>4 DEF Others, Writing, Active
  <2> QED  BY <1>2, <1>3, <2>2, <2>4, WritingStep
<1>6. CASE at[p] # 1
  <2>1. Active(p) /\ UNCHANGED contended
    BY <1>0, <1>6 DEF Active, Types, Discard
  <2>2. ~contended => ~Published /\ \A q \in Procs \ {p} : ~Active(q)
    BY <2>1 DEF FilesInv, Uncontended
  <2> QED  BY <1>2, <1>3, <1>4, <2>1, <2>2, WritingStep
<1> QED  BY <1>5, <1>6

\* Every step keeps what is known of the files.
LEMMA FilesKept == IInv /\ FilesInv /\ [Next]_vars => FilesInv'
<1> SUFFICES ASSUME IInv, FilesInv, [Next]_vars PROVE FilesInv'
  OBVIOUS
<1>1. CASE UNCHANGED vars
  <2>1. UNCHANGED <<disk, pc, at, half, source, held, trusted, disturbed, contended>>
    BY <1>1 DEF vars, build, handle, history
  <2>2. ASSUME NEW q \in Procs
        PROVE  Active(q)' = Active(q) /\ Written(q)' = Written(q) /\ Verified(q)' = Verified(q)
    BY <2>1 DEF Active, Written, Verified, FileReads, Matches, VerifyPaths
  <2>3. Published' = Published /\ \A m : Whole(m)' = Whole(m)
    BY <2>1 DEF Published, Whole, Recorded
  <2>4. Uncontended'
    BY <2>1, <2>2, <2>3 DEF FilesInv, Uncontended
  <2>5. ASSUME NEW q \in Procs PROVE Undisturbed(q)'
    BY <2>1, <2>2, <2>3, <2>5 DEF FilesInv, Undisturbed
  <2> QED  BY <2>4, <2>5 DEF FilesInv
<1>2. ASSUME NEW p \in Procs,
             \/ StartBuild(p) \/ SpillOpen(p) \/ SpillWrite(p) \/ Census(p) \/ Fit(p)
             \/ TransformOpen(p) \/ TransformWrite(p) \/ LastOpen(p) \/ FieldsWrite(p)
             \/ ManifestWrite(p) \/ SourceRaises(p) \/ Cancelled(p) \/ Open(p)
             \/ OpenRaises(p) \/ Verify(p) \/ VerifyRaises(p) \/ StartLoad(p)
             \/ Load(p) \/ StartDiscard(p) \/ Discard(p) \/ Crash(p)
      PROVE  FilesInv'
  BY <1>2, QuietSteps, ReaderSteps, TransformOpenWrites, BuildWrites, ManifestPublishes,
     DiscardWrites
<1> QED  BY <1>1, <1>2 DEF Next, Finished

\* It holds of an empty directory.
LEMMA FilesInit == Init => FilesInv
<1> SUFFICES ASSUME Init PROVE FilesInv
  OBVIOUS
<1>1. ~Published
  <2>1. Manifest \in Files /\ disk = [f \in Files |-> Blank]  BY DEF Init, Files
  <2>2. disk[Manifest] = Blank  BY <2>1
  <2> QED  BY <2>2 DEF Published, Blank
<1>2. ASSUME NEW p \in Procs PROVE pc[p] = "idle"
  <2>1. pc = [q \in Procs |-> "idle"]  BY DEF Init
  <2> QED  BY <2>1
<1>3. ASSUME NEW p \in Procs PROVE ~Active(p)
  <2>1. /\ pc[p] # "transform" /\ pc[p] # "discard"
        /\ pc[p] \notin {"fields", "manifest"}
    BY <1>2
  <2> QED  BY <2>1 DEF Active
<1>4. ASSUME NEW p \in Procs PROVE Undisturbed(p)
  BY <1>2 DEF Undisturbed, Written, Verified
<1> QED  BY <1>1, <1>3, <1>4 DEF FilesInv, Uncontended

\* The files of every layout, whoever uses it.
LEMMA FilesInvariance == Spec => []FilesInv
BY FilesInit, FilesKept, Invariance, PTL DEF Spec

\* A manifest that can be opened names a whole cache, as long as no two writers
\* met and none built over a cache: a build is published last and a discard
\* takes the manifest first, so dying half way leaves nothing that opens.
THEOREM CacheIsWhole == Spec => []PublishedIsWhole
<1>1. FilesInv => PublishedIsWhole
  BY DEF FilesInv, Uncontended, PublishedIsWhole, Whole
<1> QED  BY <1>1, FilesInvariance, PTL

\* A dataset that its process built, or verified on opening, loads without an
\* error until another process writes to the layout.
THEOREM TrustIsJustified == Spec => []TrustedLoadsSucceed
<1>1. FilesInv => TrustedLoadsSucceed
  BY DEF FilesInv, Undisturbed, TrustedLoadsSucceed
<1> QED  BY <1>1, FilesInvariance, PTL

=============================================================================
