----------------------------- MODULE ProgCache -----------------------------
(***************************************************************************)
(* The compiled-program cache and the package cache under it               *)
(* (packages/progcache.rs, packages/autopkg.rs, cli/run.rs).  Processes    *)
(* run one program, whose sources are a library file that is always        *)
(* spliced and a bundled gem that is linked from the package cache when    *)
(* its entry is valid.  A process may be killed, or an I/O call may fail,  *)
(* between any two of the file operations.                                 *)
(***************************************************************************)
EXTENDS Naturals

CONSTANTS
  Procs,       \* zeo processes running the program under one key
  Lib, Gem,    \* the two source files, each in a directory of its own
  Texts,       \* what a file may contain
  None, Torn,  \* no file; a file cut short
  Quiet,       \* no source changes between a compile and its commit
  MaxEdits,    \* bound on the changes to the sources
  MaxFaults    \* bound on the kills and I/O errors

SourceFiles == {Lib, Gem}

\* What a compile sees of a file: its text, and the stamp of its directory,
\* which stands for the file names a require could resolve to.
Sources == Texts \X (0..MaxEdits)
Builds == [SourceFiles -> Sources]

\* A manifest below its header: the F row of a file holds its text, the D row
\* the stamp of its directory.  A file that was cut at the end of a row has
\* fewer rows; one cut elsewhere is Torn.
Rows == {"F", "D"} \X SourceFiles
Manifests == UNION {[part -> Texts \cup (0..MaxEdits)] : part \in SUBSET Rows}

ASSUME FilesDiffer == Lib # Gem
ASSUME NoFile == {None, Torn} \cap (Sources \cup Builds \cup Manifests) = {} /\ None # Torn
ASSUME QuietIsBool == Quiet \in BOOLEAN
ASSUME BoundsAreNat == MaxEdits \in Nat /\ MaxFaults \in Nat

VARIABLES
  src,              \* the sources on disk
  bin, manifest,    \* programs/<key>: the binary, the rows that vouch for it
  art, pkgManifest, \* packages/<key>: the artifact, its rows
  refused,          \* packages/<key>.refused
  pc,
  obj,              \* what a process compiled: the sources its object holds
  inputs,           \* the text of each input, for the manifest
  writing,          \* the rows a process is writing, None when its file was removed
  missed,           \* whether the gem is in auto_package_misses
  ran,              \* what a process executed
  seen,             \* every source state since the process started
  lapses,           \* history: "cut" once a lookup took a manifest that was not written
                    \* to its end, "bare" once a consult read the package's again and
                    \* the gem was not in it, "kept" once a manifest was not removed
  edits, faults

disk == <<src, bin, manifest, art, pkgManifest, refused>>
job == <<obj, inputs, writing, missed, ran, seen>>
cacheVars == <<disk, pc, job, lapses, edits, faults>>

Pcs == {"idle", "lookup", "hit", "compile", "merge", "reserve", "link", "linking", "commit",
        "committing", "package", "pkgreserve", "pkgwrite", "pkgwriting", "pkgcommit",
        "pkgcommitting", "exec", "jit", "ran"}

CacheTypeOK ==
  /\ src \in Builds
  /\ bin \in Builds \cup {None, Torn}
  /\ manifest \in Manifests \cup {None, Torn}
  /\ art \in Sources \cup {None, Torn}
  /\ pkgManifest \in Manifests \cup {None, Torn}
  /\ refused \in BOOLEAN
  /\ pc \in [Procs -> Pcs]
  /\ obj \in [Procs -> Builds \cup {None}]
  /\ inputs \in [Procs -> {None} \cup UNION {[part -> Texts] : part \in SUBSET SourceFiles}]
  /\ writing \in [Procs -> Manifests \cup {None}]
  /\ missed \in [Procs -> BOOLEAN]
  /\ ran \in [Procs -> Builds \cup {None}]
  /\ seen \in [Procs -> [SourceFiles -> SUBSET Sources]]
  /\ lapses \subseteq {"cut", "bare", "kept"}
  /\ edits \in 0..MaxEdits
  /\ faults \in 0..MaxFaults

CacheInit ==
  /\ src \in [SourceFiles -> Texts \X {0}]
  /\ bin = None /\ manifest = None
  /\ art = None /\ pkgManifest = None /\ refused = FALSE
  /\ pc = [p \in Procs |-> "idle"]
  /\ obj = [p \in Procs |-> None]
  /\ inputs = [p \in Procs |-> None]
  /\ writing = [p \in Procs |-> None]
  /\ missed = [p \in Procs |-> FALSE]
  /\ ran = [p \in Procs |-> None]
  /\ seen = [p \in Procs |-> [f \in SourceFiles |-> {}]]
  /\ lapses = {} /\ edits = 0 /\ faults = 0

Goto(p, where) == pc' = [pc EXCEPT ![p] = where]

-----------------------------------------------------------------------------
(* The sources. *)

\* Between the first read of a source by a compile and the manifest's write.
Building ==
  {p \in Procs : pc[p] \in {"merge", "reserve", "link", "linking", "commit", "committing",
                            "pkgreserve", "pkgwrite", "pkgwriting", "pkgcommit", "pkgcommitting"}}

Change(f, s) ==
  /\ edits < MaxEdits
  /\ edits' = edits + 1
  /\ Quiet => Building = {}
  /\ src' = [src EXCEPT ![f] = s]
  /\ seen' = [p \in Procs |-> IF pc[p] \in {"idle", "ran"} THEN seen[p]
                               ELSE [seen[p] EXCEPT ![f] = @ \cup {s}]]
  /\ UNCHANGED <<bin, manifest, art, pkgManifest, refused, pc, obj, inputs, writing, missed, ran,
                 lapses, faults>>

\* A file is edited in place, maybe back to what it was.
Edit(f) == \E x \in Texts \ {src[f][1]} : Change(f, <<x, src[f][2]>>)

\* A file appears in the directory, where it may shadow another.
AddFile(f) == Change(f, <<src[f][1], src[f][2] + 1>>)

-----------------------------------------------------------------------------
(* A run: the lookup, and the compile that a miss costs. *)

Start(p) ==
  /\ pc[p] = "idle"
  /\ Goto(p, "lookup")
  /\ seen' = [seen EXCEPT ![p] = [f \in SourceFiles |-> {src[f]}]]
  /\ UNCHANGED <<disk, obj, inputs, writing, missed, ran, lapses, edits, faults>>

\* What a process compiled or was writing is dropped.
Dropped(p) ==
  /\ obj' = [obj EXCEPT ![p] = None]
  /\ inputs' = [inputs EXCEPT ![p] = None]
  /\ writing' = [writing EXCEPT ![p] = None]

\* A process and what it held are gone; the files stay as they are.
Gone(p) ==
  /\ Goto(p, "idle")
  /\ Dropped(p)
  /\ missed' = [missed EXCEPT ![p] = FALSE]
  /\ ran' = [ran EXCEPT ![p] = None]
  /\ seen' = [seen EXCEPT ![p] = [f \in SourceFiles |-> {}]]
  /\ UNCHANGED <<disk, lapses>>

\* The program that was executed ends.
Exit(p) ==
  /\ pc[p] = "ran"
  /\ Gone(p)
  /\ UNCHANGED <<edits, faults>>

\* What a row says when the source is s.
RowOf(r, s) == IF r[1] = "F" THEN s[1] ELSE s[2]

\* verify: every row that is there still holds.
Verify(rows) == rows \notin {None, Torn} /\ \A r \in DOMAIN rows : rows[r] = RowOf(r, src[r[2]])

\* Whether a manifest was written to its end: every file it names has its stamp.
Ended(rows) ==
  /\ DOMAIN rows # {}
  /\ \A f \in SourceFiles : <<"F", f>> \in DOMAIN rows <=> <<"D", f>> \in DOMAIN rows

Lapse(what, happens) == lapses' = IF happens THEN lapses \cup {what} ELSE lapses

Lookup(p) ==
  /\ pc[p] = "lookup"
  /\ IF bin # None /\ Verify(manifest)
       THEN Goto(p, "hit") /\ Lapse("cut", ~Ended(manifest))
       ELSE Goto(p, "compile") /\ UNCHANGED lapses
  /\ UNCHANGED <<disk, job, edits, faults>>

\* A run that asks for a report, and a program the object compile refuses,
\* are left to the JIT.
Decline(p) ==
  /\ pc[p] \in {"lookup", "compile"}
  /\ Goto(p, "jit")
  /\ UNCHANGED <<disk, job, lapses, edits, faults>>

PkgLookup == art # None /\ Verify(pkgManifest)

\* The front end, up to pkg_lookup in consult: without an artifact the gem is
\* spliced, and unless a refusal is on record it is queued for a build.
Compile(p) ==
  /\ pc[p] = "compile"
  /\ obj' = [obj EXCEPT ![p] = src]
  /\ inputs' = [inputs EXCEPT ![p] = [f \in SourceFiles |-> src[f][1]]]
  /\ missed' = [missed EXCEPT ![p] = ~refused /\ ~PkgLookup]
  /\ IF ~refused /\ PkgLookup
       THEN Goto(p, "merge") /\ Lapse("cut", ~Ended(pkgManifest))
       ELSE Goto(p, "reserve") /\ UNCHANGED lapses
  /\ UNCHANGED <<disk, writing, ran, seen, edits, faults>>

GemRow == pkgManifest \notin {None, Torn} /\ <<"F", Gem>> \in DOMAIN pkgManifest

\* Mutant: the files the package's manifest names do not join the program's.
NamesNothing(named) == ~named

\* Whether what there is of the package's manifest names the gem's file: one
\* that was cut within a row may or may not.
NamesGem(named) == (GemRow => named) /\ (named => GemRow \/ pkgManifest = Torn)

\* The program is compiled with the gem s, which its manifest will name or not.
CompileWith(p, s, named) ==
  /\ obj' = [obj EXCEPT ![p] = [@ EXCEPT ![Gem] = s]]
  /\ inputs' = [inputs EXCEPT ![p] = [f \in IF named THEN SourceFiles ELSE {Lib} |->
                                        IF f = Gem THEN src[Gem][1] ELSE @[f]]]

\* The rest of consult: the artifact is read, then the sources its manifest
\* names are read again for the program's, none if that manifest was removed
\* meanwhile.  An artifact that is cut short is a miss; one that cannot serve
\* this compile is dropped, and the gem spliced.
Merge(p) ==
  /\ pc[p] = "merge"
  /\ \/ /\ art \notin {None, Torn}
        /\ \E named \in BOOLEAN : NamesGem(named) /\ CompileWith(p, art, named)
        /\ Lapse("bare", ~GemRow)
        /\ UNCHANGED missed
     \/ /\ art \notin {None, Torn}
        /\ CompileWith(p, src[Gem], TRUE)
        /\ missed' = [missed EXCEPT ![p] = FALSE]
        /\ UNCHANGED lapses
     \/ /\ art \in {None, Torn}
        /\ CompileWith(p, src[Gem], TRUE)
        /\ missed' = [missed EXCEPT ![p] = TRUE]
        /\ UNCHANGED lapses
  /\ Goto(p, "reserve")
  /\ UNCHANGED <<disk, writing, ran, seen, edits, faults>>

-----------------------------------------------------------------------------
(* The program's entry. *)

\* A manifest is removed: who is still writing it writes to no file.
Unlinked(at) == writing' = [p \in Procs |-> IF pc[p] = at THEN None ELSE writing[p]]

\* rows_for: an F row per input with the text that was compiled, a D row per
\* directory with its stamp of now.
RowsFor(texts) ==
  [r \in {"F", "D"} \X DOMAIN texts |-> IF r[1] = "F" THEN texts[r[2]] ELSE src[r[2]][2]]

\* The order of the rows: the texts before the stamps, the gem after the file
\* that requires it.
Precedes(r, q) == (r[1] = "F" /\ q[1] = "D") \/ (r[1] = q[1] /\ r[2] = Lib /\ q[2] = Gem)

\* What fs::write may have put in the file before it is done.
Cut(rows) ==
  {Torn} \cup {[r \in part |-> rows[r]] : part \in
                 {s \in (SUBSET DOMAIN rows) \ {DOMAIN rows} :
                    \A q \in s, r \in DOMAIN rows : Precedes(r, q) => r \in s}}

\* Mutant: the old manifest stays while the binary is replaced.
ReserveKeeps(p) ==
  /\ pc[p] = "reserve"
  /\ Goto(p, "link")
  /\ UNCHANGED <<disk, job, lapses, edits, faults>>

\* reserve removes the manifest before the binary is overwritten.
Reserve(p) ==
  /\ pc[p] = "reserve"
  /\ manifest' = None
  /\ Unlinked("committing")
  /\ Goto(p, "link")
  /\ UNCHANGED <<src, bin, art, pkgManifest, refused, obj, inputs, missed, ran, seen, lapses, edits,
                 faults>>

\* The linker opens its output in place, and closes it.
LinkStart(p) ==
  /\ pc[p] = "link"
  /\ bin' = Torn
  /\ Goto(p, "linking")
  /\ UNCHANGED <<src, manifest, art, pkgManifest, refused, job, lapses, edits, faults>>

LinkEnd(p) ==
  /\ pc[p] = "linking"
  /\ bin' = obj[p]
  /\ obj' = [obj EXCEPT ![p] = None]
  /\ Goto(p, "commit")
  /\ UNCHANGED <<src, manifest, art, pkgManifest, refused, inputs, writing, missed, ran, seen, lapses,
                 edits, faults>>

\* After the commit, build_missed_packages and the exec.
AfterCommit(p) == Goto(p, IF missed[p] THEN "package" ELSE "exec")

\* commit makes the rows, and opens the manifest, which empties it.
CommitStart(p) ==
  /\ pc[p] = "commit"
  /\ writing' = [writing EXCEPT ![p] = RowsFor(inputs[p])]
  /\ manifest' \in Cut(RowsFor(inputs[p]))
  /\ inputs' = [inputs EXCEPT ![p] = None]
  /\ Goto(p, "committing")
  /\ UNCHANGED <<src, bin, art, pkgManifest, refused, obj, missed, ran, seen, lapses, edits, faults>>

\* The rows are in the file, unless it was removed, and the file is closed.
Written(p, rows) == IF writing[p] = None THEN rows ELSE writing[p]
Close(p) == writing' = [writing EXCEPT ![p] = None]

CommitEnd(p) ==
  /\ pc[p] = "committing"
  /\ manifest' = Written(p, manifest)
  /\ Close(p)
  /\ AfterCommit(p)
  /\ UNCHANGED <<src, bin, art, pkgManifest, refused, obj, inputs, missed, ran, seen, lapses, edits,
                 faults>>

\* The exec of a hit, or of what was just linked.  A binary that is cut short
\* or gone does not execute, and the JIT runs the program.
Exec(p) ==
  /\ pc[p] \in {"hit", "exec"}
  /\ IF bin \in {None, Torn}
       THEN Goto(p, "jit") /\ UNCHANGED ran
       ELSE Goto(p, "ran") /\ ran' = [ran EXCEPT ![p] = bin]
  /\ UNCHANGED <<disk, obj, inputs, writing, missed, seen, lapses, edits, faults>>

\* The JIT compiles the sources as they are.
Jit(p) ==
  /\ pc[p] = "jit"
  /\ ran' = [ran EXCEPT ![p] = src]
  /\ Goto(p, "ran")
  /\ UNCHANGED <<disk, obj, inputs, writing, missed, seen, lapses, edits, faults>>

-----------------------------------------------------------------------------
(* The package's entry: build_and_cache. *)

\* A refusal or an entry that another process left is enough; otherwise the
\* gem is compiled, and a refusal of that compile is recorded.
Package(p) ==
  /\ pc[p] = "package"
  /\ \/ /\ refused \/ PkgLookup
        /\ Goto(p, "exec")
        /\ UNCHANGED <<obj, refused>>
     \/ /\ ~refused /\ ~PkgLookup
        /\ refused' = TRUE
        /\ Goto(p, "exec")
        /\ UNCHANGED obj
     \/ /\ ~refused /\ ~PkgLookup
        /\ obj' = [obj EXCEPT ![p] = src]
        /\ Goto(p, "pkgreserve")
        /\ UNCHANGED refused
  /\ missed' = [missed EXCEPT ![p] = FALSE]
  /\ UNCHANGED <<src, bin, manifest, art, pkgManifest, inputs, writing, ran, seen, lapses, edits,
                 faults>>

\* Mutant: the old manifest stays while the artifact is replaced.
PkgReserveKeeps(p) ==
  /\ pc[p] = "pkgreserve"
  /\ Goto(p, "pkgwrite")
  /\ UNCHANGED <<disk, job, lapses, edits, faults>>

PkgReserve(p) ==
  /\ pc[p] = "pkgreserve"
  /\ pkgManifest' = None
  /\ Unlinked("pkgcommitting")
  /\ Goto(p, "pkgwrite")
  /\ UNCHANGED <<src, bin, manifest, art, refused, obj, inputs, missed, ran, seen, lapses, edits,
                 faults>>

\* write_zeopkg truncates the artifact, and writes it.
PkgWriteStart(p) ==
  /\ pc[p] = "pkgwrite"
  /\ art' = Torn
  /\ Goto(p, "pkgwriting")
  /\ UNCHANGED <<src, bin, manifest, pkgManifest, refused, job, lapses, edits, faults>>

PkgWriteEnd(p) ==
  /\ pc[p] = "pkgwriting"
  /\ art' = obj[p][Gem]
  /\ Goto(p, "pkgcommit")
  /\ UNCHANGED <<src, bin, manifest, pkgManifest, refused, job, lapses, edits, faults>>

PkgCommitStart(p) ==
  /\ pc[p] = "pkgcommit"
  /\ LET rows == RowsFor([f \in {Gem} |-> obj[p][f][1]])
     IN writing' = [writing EXCEPT ![p] = rows] /\ pkgManifest' \in Cut(rows)
  /\ obj' = [obj EXCEPT ![p] = None]
  /\ Goto(p, "pkgcommitting")
  /\ UNCHANGED <<src, bin, manifest, art, refused, inputs, missed, ran, seen, lapses, edits, faults>>

PkgCommitEnd(p) ==
  /\ pc[p] = "pkgcommitting"
  /\ pkgManifest' = Written(p, pkgManifest)
  /\ Close(p)
  /\ Goto(p, "exec")
  /\ UNCHANGED <<src, bin, manifest, art, refused, obj, inputs, missed, ran, seen, lapses, edits,
                 faults>>

-----------------------------------------------------------------------------
(* Faults. *)

Fault ==
  /\ faults < MaxFaults
  /\ faults' = faults + 1
  /\ UNCHANGED edits

Kill(p) ==
  /\ pc[p] \notin {"idle", "ran"}
  /\ Gone(p)
  /\ Fault

\* The cache directory cannot be written, or the link fails and the linker
\* removes its output: the JIT runs the program.
Fail(p) ==
  /\ \/ pc[p] = "reserve" /\ UNCHANGED bin
     \/ pc[p] = "linking" /\ bin' = None
  /\ Goto(p, "jit")
  /\ Dropped(p)
  /\ missed' = [missed EXCEPT ![p] = FALSE]
  /\ Fault
  /\ UNCHANGED <<src, manifest, art, pkgManifest, refused, ran, seen, lapses>>

\* A manifest that is there cannot be removed, and the error is dropped.
FailRemove(p) ==
  /\ \/ pc[p] = "reserve" /\ manifest # None /\ Goto(p, "link")
     \/ pc[p] = "pkgreserve" /\ pkgManifest # None /\ Goto(p, "pkgwrite")
  /\ Lapse("kept", TRUE)
  /\ Fault
  /\ UNCHANGED <<disk, job>>

\* A manifest, or the package, could not be written, or not to its end: the
\* run goes on.
FailCommit(p) ==
  /\ \/ pc[p] \in {"commit", "committing"} /\ AfterCommit(p)
     \/ /\ pc[p] \in {"pkgreserve", "pkgwriting", "pkgcommit", "pkgcommitting"}
        /\ Goto(p, "exec")
  /\ Dropped(p)
  /\ Fault
  /\ UNCHANGED <<disk, missed, ran, seen, lapses>>

-----------------------------------------------------------------------------

Step(p) ==
  \/ Start(p) \/ Exit(p) \/ Lookup(p) \/ Decline(p) \/ Compile(p) \/ Merge(p)
  \/ Reserve(p) \/ LinkStart(p) \/ LinkEnd(p) \/ CommitStart(p) \/ CommitEnd(p)
  \/ Exec(p) \/ Jit(p)
  \/ Package(p) \/ PkgReserve(p) \/ PkgWriteStart(p) \/ PkgWriteEnd(p)
  \/ PkgCommitStart(p) \/ PkgCommitEnd(p)

CacheNext ==
  \/ \E f \in SourceFiles : Edit(f) \/ AddFile(f)
  \/ \E p \in Procs : Step(p) \/ Kill(p) \/ Fail(p) \/ FailRemove(p) \/ FailCommit(p)

CacheSpec == CacheInit /\ [][CacheNext]_cacheVars

-----------------------------------------------------------------------------
(* Properties. *)

\* A run executes the program its sources say: each file as it was at some
\* moment since the process started, never a version the user has replaced
\* before ("A hit here would run the previous version of the user's program",
\* progcache.rs's tests).  Three things take this away, and lapses tells: verify
\* accepted a manifest that was cut at the end of a row; consult found the gem's
\* package, and then its manifest removed or emptied by another process; or
\* remove_file failed in a reserve.  Nothing else leaves a source out.
RunsFresh ==
  lapses = {} =>
    \A p \in Procs : ran[p] # None => \A f \in SourceFiles : ran[p][f] \in seen[p][f]

EntryTrue ==
  \/ bin \in {None, Torn} \/ manifest \in {None, Torn}
  \/ \A r \in DOMAIN manifest : manifest[r] = RowOf(r, bin[r[2]])

PackageTrue ==
  \/ art \in {None, Torn} \/ pkgManifest \in {None, Torn}
  \/ \A r \in DOMAIN pkgManifest : pkgManifest[r] = RowOf(r, art)

\* Every row of a manifest, whole or cut short, is true of the binary beside it,
\* whatever process linked it and wherever another was killed ("A leftover
\* manifest must not vouch for a binary that is about to be overwritten",
\* reserve), until a lapse.
EntryVouches == lapses = {} => EntryTrue

\* The same of a package and the artifact the next compile links.
PackageVouches == lapses = {} => PackageTrue
=============================================================================
