------------------------------- MODULE BuildTx -------------------------------
(***************************************************************************)
(* The build transaction of `mindc build`: the per-project file lock, the  *)
(* temporary Mind.toml edit, the source snapshot, and the content-addressed*)
(* object cache, run by several processes while an editor changes sources, *)
(* processes are killed, single I/O calls fail, cached objects rot, and    *)
(* `mindc clean` wipes target/.                                            *)
(*                                                                         *)
(* Grain of atomicity: one step per file-system effect another process can *)
(* observe.  Compilation is a function of the captured inputs, so an       *)
(* artifact is represented by the inputs it was compiled from.  A write    *)
(* through atomic_write (temporary file, then rename) is one step.         *)
(***************************************************************************)
EXTENDS Naturals, FiniteSets

CONSTANTS
  Builds,       \* build processes
  Projects,     \* directories a build locks
  Files,        \* .mind files of a directory
  Outs,         \* artifact paths
  ProjectOf,    \* [Builds -> Projects]
  EntryOf,      \* [Builds -> Files]: the file named on the command line, or
  NoEntry,      \*   NoEntry for `mindc build` without a path
  OutOf,        \* [Builds -> Outs]: --out, or the default path under target/
  CleanOuts,    \* [Projects -> SUBSET Outs]: the artifact paths under target/
  Direct,       \* builds whose linker writes straight to the artifact path
  Ineligible,   \* builds whose cache material cannot be derived
  Standalone,   \* directories for which the user keeps no Mind.toml
  Nested,       \* projects whose files are below the directory of Mind.toml
  MaxVersion,   \* bound: edits per source file
  MaxEdits,     \* bound: user edits of a Mind.toml
  MaxFaults,    \* bound: failing I/O calls
  MaxCrashes,   \* bound: killed processes
  MaxRot,       \* bound: cached objects damaged on disk
  MaxEvents,    \* bound: all of these together
  Absent,       \* the manifest value of a missing Mind.toml
  Torn,         \* a Mind.toml whose write was cut off: it does not parse
  Garbage,      \* damaged object bytes
  None

\* A manifest: its [build] entry, whether a target declares a source list, and
\* whether it is the temporary edit of some build.
Manifests == [entry : Files, sources : BOOLEAN, temp : BOOLEAN]
UserManifests == {m \in Manifests : ~m.temp}

ASSUME BuildAssumption ==
  /\ ProjectOf \in [Builds -> Projects]
  /\ EntryOf \in [Builds -> Files \cup {NoEntry}]
  /\ OutOf \in [Builds -> Outs]
  /\ CleanOuts \in [Projects -> SUBSET Outs]
  /\ Direct \subseteq Builds
  /\ Ineligible \subseteq Builds
  /\ Standalone \subseteq Projects
  /\ Nested \subseteq Projects \ Standalone
  /\ {MaxVersion, MaxEdits, MaxFaults, MaxCrashes, MaxRot, MaxEvents} \subseteq Nat
  /\ NoEntry \notin Files
  /\ None \notin Builds
  /\ Absent \notin Manifests /\ Torn \notin Manifests \cup {Absent}

\* single_file_manifest: its entry is a placeholder no file here has.
Synthetic == [entry |-> NoEntry, sources |-> FALSE, temp |-> FALSE]

\* The inputs of a compilation are [entry, sources, files]: its entry, its
\* declared inputs and the captured bytes of every source.  Compiler, toolchain,
\* target and flags are fixed here.  An artifact is the inputs it was compiled
\* from, or Garbage.

VARIABLES
  version,    \* [Projects -> [Files -> 0 .. MaxVersion]]: the sources on disk
  manifest,   \* [Projects -> Manifests, Absent or Torn]: Mind.toml on disk
  written,    \* history: the manifests the user has had in each project
  lock,       \* [Projects -> Builds or None]: flock on .mind-build.lock
  objects,    \* [Projects -> artifacts by inputs]: .cache/objects
  meta,       \* [Projects -> artifacts by inputs]: what the digest of
              \*   each sidecar was taken of
  out,        \* [Outs -> an artifact or None]
  index,      \* [Projects -> [Files -> inputs or None]]: manifest.json
  proc,       \* [Builds -> local state of a build]
  spent       \* the environment events so far, by kind

vars == <<version, manifest, written, lock, objects, meta, out, index, proc,
          spent>>

NoObjects == [k \in {} |-> None]

\* A directory of the cache with v under key k.
With(dir, k, v) == [i \in DOMAIN dir \cup {k} |-> IF i = k THEN v ELSE dir[i]]

Proj(b)     == ProjectOf[b]
Explicit(b) == EntryOf[b] # NoEntry
At(b, label) == proc[b].pc = label

-----------------------------------------------------------------------------
Init ==
  /\ version = [p \in Projects |-> [f \in Files |-> 0]]
  /\ manifest \in [Projects -> UserManifests \cup {Absent}]
  /\ \A p \in Projects : manifest[p] = Absent <=> p \in Standalone
  /\ written = [p \in Projects |-> {manifest[p]}]
  /\ lock = [p \in Projects |-> None]
  /\ objects = [p \in Projects |-> NoObjects]
  /\ meta = [p \in Projects |-> NoObjects]
  /\ out = [o \in Outs |-> None]
  /\ index = [p \in Projects |-> [f \in Files |-> None]]
  /\ proc = [b \in Builds |->
               [pc |-> "start",
                probed |-> FALSE,       \* a Mind.toml was seen, unlocked
                loaded |-> Synthetic,   \* the manifest the build goes by
                entry |-> NoEntry,      \* the resolved entry
                single |-> FALSE,       \* single_file
                snap |-> <<>>,          \* the sources captured so far
                orig |-> Absent,        \* ManifestEdit.original
                edited |-> FALSE,       \* a ManifestEdit is pending
                got |-> None,           \* the bytes at its artifact path
                result |-> "none",
                atLock |-> [f \in Files |-> 0]]]    \* history: sources when locked
  /\ spent = [saves |-> 0, edits |-> 0, faults |-> 0, crashes |-> 0, rot |-> 0]

\* An event of the environment, within the bounds.
Event(kind, bound) ==
  /\ spent[kind] < bound
  /\ spent.saves + spent.edits + spent.faults + spent.crashes + spent.rot < MaxEvents
  /\ spent' = [spent EXCEPT ![kind] = @ + 1]

Fault == Event("faults", MaxFaults)

\* Mutant: an exit path leaks the lock.
Kept(b) == lock

\* A build that ends drops its ProjectBuildLock.
Released(b) == [lock EXCEPT ![Proj(b)] = IF @ = b THEN None ELSE @]

\* The local state of a build that ends with a result.
Ended(b, res) == [proc[b] EXCEPT !.pc = "done", !.result = res]

Finish(b, res) ==
  /\ proc' = [proc EXCEPT ![b] = Ended(b, res)]
  /\ lock' = Released(b)

Goto(b, label) == proc' = [proc EXCEPT ![b].pc = label]

(***************************************************************************)
(* Opening the transaction.                                                *)
(***************************************************************************)

\* Look for a Mind.toml before any lock is held.  A build without a path has
\* no project if there is none.
Probe(b) ==
  /\ At(b, "start")
  /\ LET found == manifest[Proj(b)] # Absent IN
       proc' = [proc EXCEPT ![b] =
                  IF found \/ Explicit(b)
                  THEN [@ EXCEPT !.probed = found, !.pc = "lock"]
                  ELSE Ended(b, "invalid")]
  /\ UNCHANGED <<version, manifest, written, lock, objects, meta, out, index,
                 spent>>

\* ProjectBuildLock::acquire blocks in flock.
Lock(b) ==
  /\ At(b, "lock")
  /\ lock[Proj(b)] = None
  /\ lock' = [lock EXCEPT ![Proj(b)] = b]
  /\ proc' = [proc EXCEPT ![b].pc = "open",
                          ![b].atLock = version[Proj(b)]]
  /\ UNCHANGED <<version, manifest, written, objects, meta, out, index, spent>>

\* Mutant: the manifest seen by the probe is not looked for again.
VanishedUnchecked(b) == FALSE

\* The manifest the probe saw was a standalone build's temporary one.
Vanished(b) ==
  Explicit(b) /\ Proj(b) \notin Nested /\ manifest[Proj(b)] = Absent

\* Mutant: a manifest in the file's directory always makes it a project.
SingleNever(b, m) == FALSE

\* A named file directly beside a manifest that declares no sources.
SingleFile(b, m) == Explicit(b) /\ Proj(b) \notin Nested /\ ~m.sources

\* resolve_entry: the named file wins over the manifest's entry.
Begin(b, m, single) ==
  proc' = [proc EXCEPT ![b].pc = "capture",
                       ![b].loaded = m,
                       ![b].single = single,
                       ![b].entry = IF Explicit(b) THEN EntryOf[b] ELSE m.entry]

\* No Mind.toml governs the build.
Synthesised(b) == ~proc[b].probed \/ Vanished(b)

\* open_explicit and its counterpart for builds without a path.
Open(b) ==
  /\ At(b, "open")
  /\ LET m == manifest[Proj(b)] IN
       \/ Synthesised(b) /\ Begin(b, Synthetic, TRUE) /\ UNCHANGED lock
       \/ ~Synthesised(b) /\ m \in Manifests /\ Begin(b, m, SingleFile(b, m))
                          /\ UNCHANGED lock
       \/ ~Synthesised(b) /\ m \notin Manifests /\ Finish(b, "invalid")
  /\ UNCHANGED <<version, manifest, written, objects, meta, out, index, spent>>

\* load_manifest cannot read Mind.toml.
LoadFails(b) ==
  /\ At(b, "open")
  /\ ~Synthesised(b)
  /\ Fault
  /\ Finish(b, "invalid")
  /\ UNCHANGED <<version, manifest, written, objects, meta, out, index>>

(***************************************************************************)
(* Snapshot, key and probe.                                                *)
(***************************************************************************)

\* resolve_sources: the named file alone, or the whole source set.
Scope(b) == IF proc[b].single THEN {proc[b].entry} ELSE Files

\* SourceSnapshot::capture reads the files one after the other.
Capture(b) ==
  /\ At(b, "capture")
  /\ LET old == proc[b].snap IN
       \E f \in Scope(b) \ DOMAIN old :
         LET new == [g \in DOMAIN old \cup {f} |->
                       IF g = f THEN version[Proj(b)][f] ELSE old[g]] IN
           proc' = [proc EXCEPT ![b].snap = new,
                                ![b].pc = IF DOMAIN new = Scope(b)
                                          THEN "lookup" ELSE @]
  /\ UNCHANGED <<version, manifest, written, lock, objects, meta, out, index,
                 spent>>

\* The lock file cannot be opened, or a source, or the Mind.toml about to be
\* edited, cannot be read.
OpenFails(b) ==
  /\ \/ At(b, "lock")
     \/ At(b, "capture")
     \/ At(b, "edit") /\ manifest[Proj(b)] # Absent
  /\ Fault
  /\ Finish(b, "failed")
  /\ UNCHANGED <<version, manifest, written, objects, meta, out, index>>

\* Mutant: only the entry's bytes are part of the key.
KeyOfEntry(b) ==
  [entry |-> proc[b].entry, sources |-> proc[b].loaded.sources,
   files |-> [f \in {proc[b].entry} |-> proc[b].snap[f]]]

\* cache_material_from: every captured input is in the key.
Key(b) == [entry |-> proc[b].entry, sources |-> proc[b].loaded.sources,
           files |-> proc[b].snap]

\* cache::probe: sidecar and object are both there and the digest matches.
Hit(p, k) == k \in DOMAIN meta[p] \cap DOMAIN objects[p] /\ objects[p][k] = meta[p][k]

Indexed(b) == [index EXCEPT ![Proj(b)][proc[b].entry] = Key(b)]

\* A hit restores the verified bytes and ends the build.
CacheHit(b) ==
  /\ At(b, "lookup")
  /\ b \notin Ineligible
  /\ Hit(Proj(b), Key(b))
  /\ LET bytes == objects[Proj(b)][Key(b)] IN
       /\ out' = [out EXCEPT ![OutOf[b]] = bytes]
       /\ proc' = [proc EXCEPT ![b] = [Ended(b, "ok") EXCEPT !.got = bytes]]
  /\ index' = Indexed(b)
  /\ lock' = Released(b)
  /\ UNCHANGED <<version, manifest, written, objects, meta, spent>>

\* A miss, --no-cache, or a hit whose bytes cannot be restored.
CacheMiss(b) ==
  /\ At(b, "lookup")
  /\ Goto(b, "edit")
  /\ UNCHANGED <<version, manifest, written, lock, objects, meta, out, index,
                 spent>>

(***************************************************************************)
(* Compiling under a temporary manifest.                                   *)
(***************************************************************************)

\* patch_manifest_entry or build_synthetic_manifest.
Replacement(b, m) ==
  IF m = Torn THEN Torn
  ELSE [entry |-> proc[b].entry, sources |-> m \in Manifests /\ m.sources,
        temp |-> TRUE]

\* Mind.toml is missing, has no entry, or the manifest loaded when the
\* transaction was opened named another one.
EditNeeded(b) == \/ manifest[Proj(b)] \notin Manifests
                 \/ proc[b].loaded.entry # proc[b].entry

\* ManifestEdit::replace.
EditManifest(b) ==
  /\ At(b, "edit")
  /\ LET m == manifest[Proj(b)] IN
       /\ proc' = [proc EXCEPT ![b].pc = "compile", ![b].orig = m,
                               ![b].edited = EditNeeded(b)]
       /\ manifest' = [manifest EXCEPT ![Proj(b)] =
                         IF EditNeeded(b) THEN Replacement(b, m) ELSE m]
  /\ UNCHANGED <<version, written, lock, objects, meta, out, index, spent>>

\* fs::write truncates a file before it writes: one that fails leaves Mind.toml
\* as it was, or torn.
HalfWritten(b) ==
  {[manifest EXCEPT ![Proj(b)] = m] : m \in {manifest[Proj(b)], Torn}}

\* The write of ManifestEdit::replace fails; the original is to be restored, as
\* it is after a failed compilation.
EditFails(b) ==
  /\ At(b, "edit")
  /\ EditNeeded(b)
  /\ Fault
  /\ manifest' \in HalfWritten(b)
  /\ proc' = [proc EXCEPT ![b].pc = "unedit", ![b].orig = manifest[Proj(b)],
                          ![b].edited = TRUE, ![b].result = "failed"]
  /\ UNCHANGED <<version, written, lock, objects, meta, out, index>>

\* The artifact of the captured sources.
Program(b) == [entry |-> proc[b].entry, sources |-> proc[b].loaded.sources,
               files |-> proc[b].snap]

\* build_project_locked_with_snapshot loads Mind.toml once more and compiles
\* the captured bytes.  A cdylib is linked straight to the artifact path.
Compile(b) ==
  /\ At(b, "compile")
  /\ manifest[Proj(b)] \in Manifests
  /\ IF b \in Direct
     THEN /\ out' = [out EXCEPT ![OutOf[b]] = Program(b)]
          /\ proc' = [proc EXCEPT ![b].pc = "unedit", ![b].got = Program(b)]
     ELSE Goto(b, "unedit") /\ UNCHANGED out
  /\ UNCHANGED <<version, manifest, written, lock, objects, meta, index, spent>>

\* The sources do not compile, an entry fell back to the runtime, or Mind.toml
\* does not parse.
CompileFails(b) ==
  /\ At(b, "compile")
  /\ proc' = [proc EXCEPT ![b].pc = "unedit", ![b].result = "failed"]
  /\ UNCHANGED <<version, manifest, written, lock, objects, meta, out, index,
                 spent>>

Restored(b) == [manifest EXCEPT ![Proj(b)] = proc[b].orig]

\* restore_inner writes the original back, or removes the file if there was
\* none; a removal that fails changes nothing.
RestoreFailed(b) ==
  IF proc[b].orig = Absent THEN {manifest} ELSE HalfWritten(b)

\* ManifestEdit::restore; nothing to do when no edit was made.
Unedit(b) ==
  /\ At(b, "unedit")
  /\ manifest' = IF proc[b].edited THEN Restored(b) ELSE manifest
  /\ IF proc[b].result = "failed"
     THEN proc' = [proc EXCEPT ![b] = [Ended(b, "failed") EXCEPT !.edited = FALSE]]
          /\ lock' = Released(b)
     ELSE proc' = [proc EXCEPT ![b].pc = IF b \in Direct THEN "readback"
                                         ELSE "move",
                               ![b].edited = FALSE]
          /\ UNCHANGED lock
  /\ UNCHANGED <<version, written, objects, meta, out, index, spent>>

\* restore reports an I/O error ...
UneditFails(b) ==
  /\ At(b, "unedit")
  /\ proc[b].edited
  /\ Fault
  /\ manifest' \in RestoreFailed(b)
  /\ Goto(b, "drop")
  /\ UNCHANGED <<version, written, lock, objects, meta, out, index>>

\* Mutant: Drop does not retry a failed restore.
DropWithoutRetry(b) == manifest

\* ... and Drop for ManifestEdit restores once more, ...
AfterDrop(b) == Restored(b)

Drop(b) ==
  /\ At(b, "drop")
  /\ manifest' = AfterDrop(b)
  /\ Finish(b, "failed")
  /\ UNCHANGED <<version, written, objects, meta, out, index, spent>>

\* ... ignoring a second error: what is there stays.
DropFails(b) ==
  /\ At(b, "drop")
  /\ Fault
  /\ manifest' \in RestoreFailed(b)
  /\ Finish(b, "failed")
  /\ UNCHANGED <<version, written, objects, meta, out, index>>

\* A binary is renamed from target/ to the artifact path.
Move(b) ==
  /\ At(b, "move")
  /\ out' = [out EXCEPT ![OutOf[b]] = Program(b)]
  /\ proc' = [proc EXCEPT ![b].pc = "readback", ![b].got = Program(b)]
  /\ UNCHANGED <<version, manifest, written, lock, objects, meta, index, spent>>

\* Neither the rename nor the copy works.
MoveFails(b) ==
  /\ At(b, "move")
  /\ Fault
  /\ Finish(b, "failed")
  /\ UNCHANGED <<version, manifest, written, objects, meta, out, index>>

(***************************************************************************)
(* Publishing to the cache.                                                *)
(***************************************************************************)

\* The artifact is read back from its path.
ReadBack(b) ==
  /\ At(b, "readback")
  /\ b \notin Ineligible
  /\ out[OutOf[b]] # None
  /\ proc' = [proc EXCEPT ![b].pc = "object", ![b].got = out[OutOf[b]]]
  /\ UNCHANGED <<version, manifest, written, lock, objects, meta, out, index,
                 spent>>

\* Without material, or with no artifact to read, nothing is published.
SkipPublish(b) ==
  /\ At(b, "readback")
  /\ \/ (b \in Ineligible \/ out[OutOf[b]] = None) /\ UNCHANGED spent
     \/ b \notin Ineligible /\ Fault
  /\ Finish(b, "ok")
  /\ UNCHANGED <<version, manifest, written, objects, meta, out, index>>

\* write_object renames the object into place first ...
PutObject(b) ==
  /\ At(b, "object")
  /\ objects' = [objects EXCEPT ![Proj(b)] = With(@, Key(b), proc[b].got)]
  /\ Goto(b, "meta")
  /\ UNCHANGED <<version, manifest, written, lock, meta, out, index, spent>>

\* ... and the sidecar with the artifact's digest last; manifest.json follows.
PutMeta(b) ==
  /\ At(b, "meta")
  /\ meta' = [meta EXCEPT ![Proj(b)] = With(@, Key(b), proc[b].got)]
  /\ index' = Indexed(b)
  /\ Finish(b, "ok")
  /\ UNCHANGED <<version, manifest, written, objects, out, spent>>

\* A failing cache write does not fail the build.
PutFails(b) ==
  /\ \/ At(b, "object")
     \/ At(b, "meta")
  /\ Fault
  /\ index' = Indexed(b)
  /\ Finish(b, "ok")
  /\ UNCHANGED <<version, manifest, written, objects, meta, out>>

(***************************************************************************)
(* The environment.                                                        *)
(***************************************************************************)

\* The next step of b is an fs::write of Mind.toml, not its removal.
WritingManifest(b) ==
  \/ At(b, "edit") /\ EditNeeded(b)
  \/ /\ At(b, "unedit") \/ At(b, "drop")
     /\ proc[b].edited
     /\ proc[b].orig # Absent

\* The process is killed: the kernel releases the flock.  fs::write truncates
\* before it writes, so a kill during a write of Mind.toml tears the file.
Crash(b) ==
  /\ proc[b].pc \notin {"start", "done", "killed"}
  /\ Event("crashes", MaxCrashes)
  /\ Goto(b, "killed")
  /\ lock' = Released(b)
  /\ \/ UNCHANGED manifest
     \/ /\ WritingManifest(b)
        /\ manifest' = [manifest EXCEPT ![Proj(b)] = Torn]
  /\ UNCHANGED <<version, written, objects, meta, out, index>>

EditSource(p, f) ==
  /\ version[p][f] < MaxVersion
  /\ Event("saves", MaxEvents)
  /\ version' = [version EXCEPT ![p][f] = @ + 1]
  /\ UNCHANGED <<manifest, written, lock, objects, meta, out, index, proc>>

\* The user writes a Mind.toml of their own.
UserEdit(p) ==
  /\ p \notin Standalone
  /\ Event("edits", MaxEdits)
  /\ \E m \in UserManifests :
       /\ manifest' = [manifest EXCEPT ![p] = m]
       /\ written' = [written EXCEPT ![p] = @ \cup {m}]
  /\ UNCHANGED <<version, lock, objects, meta, out, index, proc>>

\* A cached object is damaged on disk.
Rot(p, k) ==
  /\ Event("rot", MaxRot)
  /\ objects[p][k] # Garbage
  /\ objects' = [objects EXCEPT ![p][k] = Garbage]
  /\ UNCHANGED <<version, manifest, written, lock, meta, out, index, proc>>

\* `mindc clean` takes the lock and removes target/; `--cache` keeps the
\* artifacts.
Clean(p) ==
  /\ lock[p] = None
  /\ objects' = [objects EXCEPT ![p] = NoObjects]
  /\ meta' = [meta EXCEPT ![p] = NoObjects]
  /\ index' = [index EXCEPT ![p] = [f \in Files |-> None]]
  /\ \E gone \in {CleanOuts[p], {}} :
       out' = [o \in Outs |-> IF o \in gone THEN None ELSE out[o]]
  /\ UNCHANGED <<version, manifest, written, lock, proc, spent>>

BuildStep(b) ==
  \/ Probe(b) \/ Lock(b) \/ Open(b) \/ LoadFails(b) \/ Capture(b) \/ OpenFails(b)
  \/ CacheHit(b) \/ CacheMiss(b)
  \/ EditManifest(b) \/ EditFails(b) \/ Compile(b) \/ CompileFails(b)
  \/ Unedit(b) \/ UneditFails(b) \/ Drop(b) \/ DropFails(b)
  \/ Move(b) \/ MoveFails(b) \/ ReadBack(b) \/ SkipPublish(b)
  \/ PutObject(b) \/ PutMeta(b) \/ PutFails(b)

Environment ==
  \/ \E b \in Builds : Crash(b)
  \/ \E p \in Projects :
       \/ \E f \in Files : EditSource(p, f)
       \/ UserEdit(p)
       \/ \E k \in DOMAIN objects[p] : Rot(p, k)
       \/ Clean(p)

Next == (\E b \in Builds : BuildStep(b)) \/ Environment

Spec == Init /\ [][Next]_vars

\* A running process keeps running; the environment need not act.
FairSpec == Spec /\ \A b \in Builds : WF_vars(BuildStep(b))

-----------------------------------------------------------------------------
(***************************************************************************)
(* Properties.                                                             *)
(***************************************************************************)

\* A build that reports success delivers the artifact of the sources it
\* captured, and none of them is older than the lock was granted: no cache hit
\* serves a stale sibling module, a damaged object, or a half-published entry,
\* whatever was killed, edited or cleaned meanwhile (run_build, cache::probe).
ArtifactFresh ==
  \A b \in Builds : proc[b].result = "ok" =>
    /\ proc[b].got = Program(b)
    /\ \A f \in DOMAIN proc[b].got.files :
         proc[b].got.files[f] >= proc[b].atLock[f]

\* The claim of a cache key: what a lookup would restore is what a fresh
\* compile of the captured inputs would produce (source_key.rs).
CacheHonest ==
  \A b \in Builds :
    At(b, "lookup") /\ b \notin Ineligible /\ Hit(Proj(b), Key(b)) =>
      objects[Proj(b)][Key(b)] = Program(b)

\* No process killed and at most one failing call: whenever a project's lock
\* is free, its Mind.toml is one the user wrote, never a build's temporary or
\* torn one (ManifestEdit).
ManifestRestored ==
  spent.crashes = 0 /\ spent.faults <= 1 =>
    \A p \in Projects : lock[p] = None => manifest[p] \in written[p]

\* Building a named file in a directory without a Mind.toml compiles that file
\* alone, whatever temporary or leftover manifest it meets there
\* (open_explicit).
StandaloneScope ==
  \A b \in Builds : Explicit(b) /\ Proj(b) \in Standalone =>
    DOMAIN proc[b].snap \subseteq {EntryOf[b]}

\* No process killed and at most two failing calls: such a build is never
\* refused for another build's temporary Mind.toml, come and gone, left behind
\* or torn.  Two failing calls leave such a manifest behind; it takes a third
\* to tear it, or to fail to read it (open_explicit, ManifestEdit).
StandaloneOpens ==
  spent.crashes = 0 /\ spent.faults <= 2 =>
    \A b \in Builds : Explicit(b) /\ Proj(b) \in Standalone =>
      proc[b].result # "invalid"

\* Every build that is not killed ends, whatever fails and whoever is killed
\* while holding the lock.
BuildEnds == \A b \in Builds : <>(proc[b].pc \in {"done", "killed"})
=============================================================================
