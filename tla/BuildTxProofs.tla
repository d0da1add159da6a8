---------------------------- MODULE BuildTxProofs ----------------------------
(***************************************************************************)
(* Proofs about BuildTx, for any number of builds, projects and files, and *)
(* every bound on the events of the environment.                           *)
(***************************************************************************)
EXTENDS BuildTx, TLAPS

(***************************************************************************)
(* The inductive invariant.                                                *)
(***************************************************************************)

Snaps  == UNION {[D -> Nat] : D \in SUBSET Files}
Inputs == [entry : Files \cup {NoEntry}, sources : BOOLEAN, files : Snaps]
Bytes  == Inputs \cup {Garbage, None}

Loadable == [entry : Files \cup {NoEntry}, sources : BOOLEAN, temp : BOOLEAN]

Labels == {"start", "lock", "open", "capture", "lookup", "edit", "compile", "unedit",
           "drop", "move", "readback", "object", "meta", "done", "killed"}

Outcomes == {"none", "ok", "failed", "invalid"}

Processes ==
  [pc : Labels, probed : BOOLEAN, loaded : Loadable, entry : Files \cup {NoEntry},
   single : BOOLEAN, snap : Snaps, orig : Manifests \cup {Absent, Torn},
   edited : BOOLEAN, got : Bytes, result : Outcomes, atLock : [Files -> Nat]]

Counters == [saves : Nat, edits : Nat, faults : Nat, crashes : Nat, rot : Nat]

\* The types of what the proofs speak of.
TypeOK ==
  /\ version \in [Projects -> [Files -> Nat]]
  /\ manifest \in [Projects -> Manifests \cup {Absent, Torn}]
  /\ written \in [Projects -> SUBSET (UserManifests \cup {Absent})]
  /\ lock \in [Projects -> Builds \cup {None}]
  /\ DOMAIN objects = Projects /\ DOMAIN meta = Projects
  /\ \A p \in Projects : \A k \in DOMAIN meta[p] : meta[p][k] \in Bytes
  /\ out \in [Outs -> Bytes]
  /\ proc \in [Builds -> Processes]
  /\ spent \in Counters

\* Between taking the lock and the end.
Holding == {"open", "capture", "lookup", "edit", "compile", "unedit", "drop",
            "move", "readback", "object", "meta"}

\* A build without a path goes on only with a manifest, which names its entry.
Resolved ==
  \A b \in Builds :
    /\ proc[b].pc \in {"lock", "open"} => Explicit(b) \/ proc[b].probed
    /\ proc[b].pc \in Holding \ {"open"} => proc[b].entry \in Files

\* A temporary Mind.toml may be in place.
Editing == {"compile", "unedit", "drop"}

\* A build in its transaction holds the lock of its project.
Locked == \A b \in Builds : proc[b].pc \in Holding => lock[Proj(b)] = b

\* Mind.toml is one the user wrote, or the one to be put back is.  Only a
\* failed write leads to a second attempt to put it back.
Restorable ==
  /\ \A b \in Builds : At(b, "drop") => spent.faults >= 1 /\ proc[b].edited
  /\ spent.crashes = 0 /\ spent.faults <= 1 =>
       /\ \A b \in Builds : proc[b].pc \in Editing => proc[b].orig \in written[Proj(b)]
       /\ \A p \in Projects :
            \/ manifest[p] \in written[p]
            \/ \E b \in Builds : Proj(b) = p /\ proc[b].pc \in Editing /\ proc[b].edited

\* No manifest in a directory without one of the user's declares sources.
Plain(p, m) == p \in Standalone /\ m \in Manifests => ~m.sources

Unspoilt ==
  /\ \A p \in Projects : Plain(p, manifest[p])
  /\ \A b \in Builds : Plain(Proj(b), proc[b].orig)

\* A build has put its temporary Mind.toml in place, or tried to.
EditPending(b) == proc[b].pc \in Editing /\ proc[b].edited

\* What it takes, without a kill, to leave m in such a directory: two failing
\* calls for a temporary manifest, three for a torn one.
Cost(m) ==
  /\ m # Absent => spent.faults >= 2
  /\ m = Torn => spent.faults >= 3

\* What it takes for a Mind.toml to be torn while its edit is pending.
TornEdit(b) ==
  manifest[Proj(b)] = Torn =>
    /\ spent.faults >= 1
    /\ At(b, "compile") => spent.faults >= 3
    /\ At(b, "drop") => spent.faults >= 2

Costly ==
  spent.crashes = 0 =>
    /\ \A p \in Standalone :
         Cost(manifest[p]) \/ \E b \in Builds : Proj(b) = p /\ EditPending(b)
    /\ \A b \in Builds :
         Proj(b) \in Standalone /\ EditPending(b) => Cost(proc[b].orig) /\ TornEdit(b)

\* A named file of such a directory is captured alone, and is not refused before
\* a third call fails.
Alone(b) ==
  Explicit(b) /\ Proj(b) \in Standalone =>
    /\ DOMAIN proc[b].snap \subseteq {EntryOf[b]}
    /\ At(b, "capture") => proc[b].single /\ proc[b].entry = EntryOf[b]
    /\ spent.crashes = 0 /\ spent.faults <= 2 => proc[b].result # "invalid"

\* What was captured is no older than the lock.
Recent(b) ==
  /\ \A f \in Files : proc[b].atLock[f] <= version[Proj(b)][f]
  /\ proc[b].pc \in {"start", "lock", "open"} => DOMAIN proc[b].snap = {}
  /\ \A f \in DOMAIN proc[b].snap : proc[b].atLock[f] <= proc[b].snap[f]

\* Two builds that write to the same path are of the same project.
OutsSeparate == \A a, b \in Builds : OutOf[a] = OutOf[b] => Proj(a) = Proj(b)

\* The build has put its artifact in place; `mindc clean` may have removed it.
Delivered(b) == proc[b].got = Program(b) /\ out[OutOf[b]] \in {Program(b), None}

\* What a build has in hand, and what it published, is its own program.
Own(b) ==
  /\ proc[b].result = "ok" => At(b, "done") /\ proc[b].got = Program(b)
  /\ At(b, "unedit") /\ b \in Direct /\ proc[b].result # "failed" => Delivered(b)
  /\ At(b, "readback") => Delivered(b)
  /\ At(b, "object") \/ At(b, "meta") => proc[b].got = Program(b)

Published == \A p \in Projects : \A k \in DOMAIN meta[p] : meta[p][k] = k

IInv ==
  /\ TypeOK /\ Resolved /\ Locked /\ Restorable /\ Unspoilt /\ Costly
  /\ \A b \in Builds : Alone(b) /\ Recent(b)

Honest == Published /\ \A b \in Builds : Own(b)

-----------------------------------------------------------------------------
(***************************************************************************)
(* Types.                                                                  *)
(***************************************************************************)

\* An event of the environment is counted.
LEMMA EventCounts ==
  ASSUME spent \in Counters, NEW bound
  PROVE  /\ Event("saves", bound) =>
              spent' \in Counters /\ UNCHANGED <<spent.faults, spent.crashes>>
         /\ Event("edits", bound) =>
              spent' \in Counters /\ UNCHANGED <<spent.faults, spent.crashes>>
         /\ Event("rot", bound) =>
              spent' \in Counters /\ UNCHANGED <<spent.faults, spent.crashes>>
         /\ Event("faults", bound) =>
              spent' \in Counters /\ spent.faults' = spent.faults + 1 /\ UNCHANGED spent.crashes
         /\ Event("crashes", bound) =>
              spent' \in Counters /\ spent.crashes' = spent.crashes + 1 /\ UNCHANGED spent.faults
  BY DEF Event, Counters

\* The inputs a build captured.
LEMMA ProgramType ==
  ASSUME TypeOK, NEW b \in Builds
  PROVE  /\ Program(b) \in Inputs /\ Key(b) = Program(b)
         /\ Program(b).files = proc[b].snap
  BY DEF TypeOK, Program, Key, Inputs, Processes, Loadable

\* A build that ends keeps the rest of its state.
LEMMA EndedType ==
  ASSUME TypeOK, NEW b \in Builds, NEW res \in Outcomes
  PROVE  /\ Ended(b, res) \in Processes
         /\ Ended(b, res).pc = "done" /\ Ended(b, res).result = res
         /\ Ended(b, res).entry = proc[b].entry /\ Ended(b, res).loaded = proc[b].loaded
         /\ Ended(b, res).snap = proc[b].snap /\ Ended(b, res).atLock = proc[b].atLock
         /\ Ended(b, res).got = proc[b].got /\ Ended(b, res).orig = proc[b].orig
<1>1. proc[b] \in Processes
  BY DEF TypeOK
<1>. QED
  BY <1>1 DEF Ended, Processes, Labels

LEMMA ReleasedType ==
  ASSUME TypeOK, NEW b \in Builds
  PROVE  /\ Released(b) \in [Projects -> Builds \cup {None}]
         /\ Released(b)[Proj(b)] # b
         /\ \A p \in Projects : p # Proj(b) => Released(b)[p] = lock[p]
         /\ \A p \in Projects : lock[p] # b => Released(b)[p] = lock[p]
  BY BuildAssumption DEF TypeOK, Released, Proj

LEMMA InitType ==
  Init => TypeOK
<1>. SUFFICES ASSUME Init PROVE TypeOK
  OBVIOUS
<1>1. <<>> \in Snaps
  <2>1. <<>> \in [{} -> Nat] /\ {} \in SUBSET Files
    OBVIOUS
  <2>. QED  BY <2>1 DEF Snaps
<1>2. Synthetic \in Loadable
  BY DEF Synthetic, Loadable
<1>3. proc \in [Builds -> Processes]
  BY <1>1, <1>2 DEF Init, Processes, Bytes, Labels, Outcomes
<1>4. \A p \in Projects : DOMAIN meta[p] = {}
  BY DEF Init, NoObjects
<1>5. written \in [Projects -> SUBSET (UserManifests \cup {Absent})]
  BY DEF Init
<1>6. manifest \in [Projects -> Manifests \cup {Absent, Torn}]
  BY DEF Init, UserManifests
<1>. QED
  BY <1>3, <1>4, <1>5, <1>6 DEF Init, TypeOK, Bytes, Counters

\* The steps of a build keep the types.
LEMMA BuildType ==
  ASSUME TypeOK, Resolved, NEW b \in Builds, BuildStep(b)
  PROVE  TypeOK'
<1>. USE DEF TypeOK
<1>0. /\ proc[b] \in Processes /\ Proj(b) \in Projects /\ OutOf[b] \in Outs
      /\ EntryOf[b] \in Files \cup {NoEntry}
  BY BuildAssumption DEF Proj
<1>a. ASSUME NEW rec \in Processes, proc' = [proc EXCEPT ![b] = rec]
      PROVE  proc' \in [Builds -> Processes]
  BY <1>a
<1>b. ASSUME NEW label \in Labels, Goto(b, label)
      PROVE  proc' \in [Builds -> Processes]
  BY <1>0, <1>b DEF Goto, Processes
<1>c. ASSUME NEW res \in Outcomes, Finish(b, res)
      PROVE  proc' \in [Builds -> Processes] /\ lock' \in [Projects -> Builds \cup {None}]
  BY <1>c, EndedType, ReleasedType DEF Finish
<1>d. Fault => spent' \in Counters
  BY EventCounts DEF Fault
<1>e. Restored(b) \in [Projects -> Manifests \cup {Absent, Torn}]
  BY <1>0 DEF Restored, Processes
<1>f. HalfWritten(b) \cup RestoreFailed(b) \subseteq [Projects -> Manifests \cup {Absent, Torn}]
  BY <1>0 DEF HalfWritten, RestoreFailed
<1>1. CASE Probe(b)
  <2>1. Ended(b, "invalid") \in Processes
    BY EndedType DEF Outcomes
  <2>2. [proc[b] EXCEPT !.probed = (manifest[Proj(b)] # Absent), !.pc = "lock"] \in Processes
    BY <1>0 DEF Processes, Labels
  <2>3. proc' \in [Builds -> Processes]
    BY <1>1, <2>1, <2>2 DEF Probe
  <2>. QED
    BY <1>1, <2>3 DEF Probe
<1>2. CASE Lock(b)
  <2>1. [proc[b] EXCEPT !.pc = "open", !.atLock = version[Proj(b)]] \in Processes
    BY <1>0 DEF Processes, Labels
  <2>2. proc' = [proc EXCEPT ![b] = [proc[b] EXCEPT !.pc = "open", !.atLock = version[Proj(b)]]]
    BY <1>2 DEF Lock
  <2>3. proc' \in [Builds -> Processes]
    BY <2>1, <2>2, <1>a
  <2>. QED
    BY <1>0, <1>2, <2>3 DEF Lock
<1>3. CASE Open(b)
  <2>1. ASSUME NEW m \in Loadable, NEW single \in BOOLEAN, Begin(b, m, single)
        PROVE  proc' \in [Builds -> Processes]
    BY ZenonT(30), <1>0, <2>1 DEF Begin, Processes, Labels, Loadable
  <2>2. Synthetic \in Loadable /\ Manifests \subseteq Loadable
    BY DEF Synthetic, Loadable, Manifests
  <2>3. \A m : SingleFile(b, m) \in BOOLEAN
    BY DEF SingleFile
  <2>4. /\ proc' \in [Builds -> Processes]
        /\ lock' \in [Projects -> Builds \cup {None}]
    BY <1>3, <1>c, <2>1, <2>2, <2>3 DEF Open, Outcomes
  <2>. QED
    BY <1>3, <2>4 DEF Open
<1>4. CASE Capture(b)
  <2>1. PICK f \in Scope(b) \ DOMAIN proc[b].snap :
          LET old == proc[b].snap
              new == [g \in DOMAIN old \cup {f} |->
                        IF g = f THEN version[Proj(b)][f] ELSE old[g]]
          IN  proc' = [proc EXCEPT ![b].snap = new,
                                   ![b].pc = IF DOMAIN new = Scope(b) THEN "lookup" ELSE @]
    BY <1>4 DEF Capture
  <2>. DEFINE old == proc[b].snap
              new == [g \in DOMAIN old \cup {f} |->
                        IF g = f THEN version[Proj(b)][f] ELSE old[g]]
              rec == [proc[b] EXCEPT !.snap = new,
                                     !.pc = IF DOMAIN new = Scope(b) THEN "lookup" ELSE @]
  <2>2. f \in Files
    BY <1>4 DEF Resolved, Capture, Scope, At, Holding
  <2>3. new \in Snaps
    <3>1. PICK D \in SUBSET Files : old \in [D -> Nat]
      BY <1>0 DEF Processes, Snaps
    <3>2. new \in [D \cup {f} -> Nat] /\ D \cup {f} \in SUBSET Files
      BY <1>0, <2>2, <3>1
    <3>. QED
      BY <3>2 DEF Snaps
  <2>. HIDE DEF new
  <2>4. rec \in Processes
    BY <1>0, <2>3 DEF Processes, Labels
  <2>5. proc' = [proc EXCEPT ![b] = rec]
    BY <2>1 DEF new
  <2>6. proc' \in [Builds -> Processes]
    BY <1>a, <2>4, <2>5
  <2>. QED
    BY <1>4, <2>6 DEF Capture
<1>5. CASE OpenFails(b)
  BY <1>5, <1>c, <1>d DEF OpenFails, Outcomes
<1>6. CASE CacheHit(b)
  <2>. DEFINE bytes == objects[Proj(b)][Key(b)]
  <2>1. bytes \in Bytes
    BY <1>0, <1>6 DEF CacheHit, Hit
  <2>. HIDE DEF bytes
  <2>2. [Ended(b, "ok") EXCEPT !.got = bytes] \in Processes
    <3>1. Ended(b, "ok") \in Processes
      BY EndedType DEF Outcomes
    <3>. QED
      BY <2>1, <3>1 DEF Processes
  <2>3. /\ proc' = [proc EXCEPT ![b] = [Ended(b, "ok") EXCEPT !.got = bytes]]
        /\ out' = [out EXCEPT ![OutOf[b]] = bytes]
    BY <1>6 DEF CacheHit, bytes
  <2>4. proc' \in [Builds -> Processes] /\ out' \in [Outs -> Bytes]
    BY <1>0, <1>a, <2>1, <2>2, <2>3
  <2>. QED
    BY <1>6, <2>4, ReleasedType DEF CacheHit
<1>7. CASE CacheMiss(b)
  BY <1>7, <1>b DEF CacheMiss, Labels
<1>8. CASE EditManifest(b)
  <2>1. proc[b].entry \in Files
    BY <1>8 DEF EditManifest, Resolved, At, Holding
  <2>2. \A m : Replacement(b, m) \in Manifests \cup {Torn}
    BY <2>1 DEF Replacement, Manifests
  <2>. DEFINE m == manifest[Proj(b)]
  <2>3. [proc[b] EXCEPT !.pc = "compile", !.orig = m, !.edited = EditNeeded(b)] \in Processes
    BY ZenonT(30), <1>0 DEF Processes, Labels, EditNeeded
  <2>4. proc' = [proc EXCEPT ![b] =
                   [proc[b] EXCEPT !.pc = "compile", !.orig = m, !.edited = EditNeeded(b)]]
    BY <1>8 DEF EditManifest
  <2>5. proc' \in [Builds -> Processes]
    BY <1>a, <2>3, <2>4
  <2>6. manifest' \in [Projects -> Manifests \cup {Absent, Torn}]
    BY <1>0, <1>8, <2>2 DEF EditManifest
  <2>. QED
    BY <1>8, <2>5, <2>6 DEF EditManifest
<1>9. CASE EditFails(b)
  <2>1. [proc[b] EXCEPT !.pc = "unedit", !.orig = manifest[Proj(b)], !.edited = TRUE,
                        !.result = "failed"] \in Processes
    BY <1>0 DEF Processes, Labels, Outcomes
  <2>2. proc' = [proc EXCEPT ![b] =
                   [proc[b] EXCEPT !.pc = "unedit", !.orig = manifest[Proj(b)],
                                   !.edited = TRUE, !.result = "failed"]]
    BY <1>9 DEF EditFails
  <2>3. proc' \in [Builds -> Processes]
    BY <1>a, <2>1, <2>2
  <2>. QED
    BY <1>9, <1>d, <1>f, <2>3 DEF EditFails
<1>10. CASE Compile(b)
  <2>1. Program(b) \in Bytes
    BY ProgramType DEF Bytes
  <2>2. [proc[b] EXCEPT !.pc = "unedit", !.got = Program(b)] \in Processes
    BY <1>0, <2>1 DEF Processes, Labels
  <2>3. CASE b \in Direct
    <3>1. proc' = [proc EXCEPT ![b] = [proc[b] EXCEPT !.pc = "unedit", !.got = Program(b)]]
      BY <1>10, <2>3 DEF Compile
    <3>2. proc' \in [Builds -> Processes] /\ out' \in [Outs -> Bytes]
      BY <1>0, <1>10, <1>a, <2>1, <2>2, <2>3, <3>1 DEF Compile
    <3>. QED
      BY <1>10, <3>2 DEF Compile
  <2>4. CASE b \notin Direct
    BY <1>10, <1>b, <2>4 DEF Compile, Labels
  <2>. QED
    BY <2>3, <2>4
<1>11. CASE CompileFails(b)
  <2>1. [proc[b] EXCEPT !.pc = "unedit", !.result = "failed"] \in Processes
    BY <1>0 DEF Processes, Labels, Outcomes
  <2>2. proc' = [proc EXCEPT ![b] = [proc[b] EXCEPT !.pc = "unedit", !.result = "failed"]]
    BY <1>11 DEF CompileFails
  <2>3. proc' \in [Builds -> Processes]
    BY <1>a, <2>1, <2>2
  <2>. QED
    BY <1>11, <2>3 DEF CompileFails
<1>12. CASE Unedit(b)
  <2>1. CASE proc[b].result = "failed"
    <3>1. [Ended(b, "failed") EXCEPT !.edited = FALSE] \in Processes
      <4>1. Ended(b, "failed") \in Processes
        BY EndedType DEF Outcomes
      <4>. QED
        BY <4>1 DEF Processes
    <3>2. proc' \in [Builds -> Processes]
      BY <1>12, <1>a, <2>1, <3>1 DEF Unedit
    <3>. QED
      BY <1>12, <1>e, <2>1, <3>2, ReleasedType DEF Unedit
  <2>2. CASE proc[b].result # "failed"
    <3>. DEFINE label == IF b \in Direct THEN "readback" ELSE "move"
    <3>1. [proc[b] EXCEPT !.pc = label, !.edited = FALSE] \in Processes
      BY ZenonT(30), <1>0 DEF Processes, Labels
    <3>2. proc' = [proc EXCEPT ![b] = [proc[b] EXCEPT !.pc = label, !.edited = FALSE]]
      BY <1>12, <2>2 DEF Unedit
    <3>3. proc' \in [Builds -> Processes]
      BY <1>a, <3>1, <3>2
    <3>. QED
      BY <1>12, <1>e, <2>2, <3>3 DEF Unedit
  <2>. QED
    BY <2>1, <2>2
<1>13. CASE UneditFails(b)
  BY <1>13, <1>b, <1>d, <1>f DEF UneditFails, Labels
<1>14. CASE Drop(b)
  BY <1>14, <1>c, <1>e DEF Drop, AfterDrop, Outcomes
<1>15. CASE DropFails(b)
  BY <1>15, <1>c, <1>d, <1>f DEF DropFails, Outcomes
<1>16. CASE Move(b)
  <2>1. Program(b) \in Bytes
    BY ProgramType DEF Bytes
  <2>2. [proc[b] EXCEPT !.pc = "readback", !.got = Program(b)] \in Processes
    BY <1>0, <2>1 DEF Processes, Labels
  <2>3. proc' = [proc EXCEPT ![b] = [proc[b] EXCEPT !.pc = "readback", !.got = Program(b)]]
    BY <1>16 DEF Move
  <2>4. proc' \in [Builds -> Processes] /\ out' \in [Outs -> Bytes]
    BY <1>0, <1>16, <1>a, <2>1, <2>2, <2>3 DEF Move
  <2>. QED
    BY <1>16, <2>4 DEF Move
<1>17. CASE MoveFails(b)
  BY <1>17, <1>c, <1>d DEF MoveFails, Outcomes
<1>18. CASE ReadBack(b)
  <2>1. [proc[b] EXCEPT !.pc = "object", !.got = out[OutOf[b]]] \in Processes
    BY <1>0 DEF Processes, Labels
  <2>2. proc' = [proc EXCEPT ![b] = [proc[b] EXCEPT !.pc = "object", !.got = out[OutOf[b]]]]
    BY <1>18 DEF ReadBack
  <2>3. proc' \in [Builds -> Processes]
    BY <1>a, <2>1, <2>2
  <2>. QED
    BY <1>18, <2>3 DEF ReadBack
<1>19. CASE SkipPublish(b)
  BY <1>19, <1>c, <1>d DEF SkipPublish, Outcomes
<1>20. CASE PutObject(b)
  BY <1>20, <1>b DEF PutObject, Labels
<1>21. CASE PutMeta(b)
  <2>1. proc[b].got \in Bytes
    BY <1>0 DEF Processes
  <2>2. /\ DOMAIN meta' = Projects
        /\ \A p \in Projects : \A k \in DOMAIN meta'[p] : meta'[p][k] \in Bytes
    BY <1>0, <1>21, <2>1 DEF PutMeta, With
  <2>. QED
    BY <1>21, <1>c, <2>2 DEF PutMeta, Outcomes
<1>22. CASE PutFails(b)
  BY <1>22, <1>c, <1>d DEF PutFails, Outcomes
<1>23. CASE LoadFails(b)
  BY <1>23, <1>c, <1>d DEF LoadFails, Outcomes
<1>. QED
  BY <1>1, <1>2, <1>3, <1>4, <1>5, <1>6, <1>7, <1>8, <1>9, <1>10, <1>11, <1>12, <1>13,
     <1>14, <1>15, <1>16, <1>17, <1>18, <1>19, <1>20, <1>21, <1>22, <1>23 DEF BuildStep

\* The steps of the environment keep the types.
LEMMA EnvironmentType ==
  ASSUME TypeOK, Environment
  PROVE  TypeOK'
<1>. USE DEF TypeOK
<1>1. ASSUME NEW b \in Builds, Crash(b)
      PROVE  TypeOK'
  <2>1. proc[b] \in Processes /\ Proj(b) \in Projects
    BY BuildAssumption DEF Proj
  <2>2. proc' \in [Builds -> Processes]
    BY <1>1, <2>1 DEF Crash, Goto, Processes, Labels
  <2>3. manifest' \in [Projects -> Manifests \cup {Absent, Torn}]
    BY <1>1, <2>1 DEF Crash
  <2>. QED
    BY <1>1, <2>2, <2>3, EventCounts, ReleasedType DEF Crash
<1>2. ASSUME NEW p \in Projects, NEW f \in Files, EditSource(p, f)
      PROVE  TypeOK'
  <2>1. version' \in [Projects -> [Files -> Nat]]
    BY <1>2 DEF EditSource
  <2>. QED
    BY <1>2, <2>1, EventCounts DEF EditSource
<1>3. ASSUME NEW p \in Projects, UserEdit(p)
      PROVE  TypeOK'
  <2>1. /\ manifest' \in [Projects -> Manifests \cup {Absent, Torn}]
        /\ written' \in [Projects -> SUBSET (UserManifests \cup {Absent})]
    BY <1>3 DEF UserEdit, UserManifests
  <2>. QED
    BY <1>3, <2>1, EventCounts DEF UserEdit
<1>4. ASSUME NEW p \in Projects, NEW k \in DOMAIN objects[p], Rot(p, k)
      PROVE  TypeOK'
  BY <1>4, EventCounts DEF Rot
<1>5. ASSUME NEW p \in Projects, Clean(p)
      PROVE  TypeOK'
  <2>1. out' \in [Outs -> Bytes]
    BY <1>5 DEF Clean, Bytes
  <2>2. \A q \in Projects : \A k \in DOMAIN meta'[q] : meta'[q][k] \in Bytes
    BY <1>5 DEF Clean, NoObjects
  <2>. QED
    BY <1>5, <2>1, <2>2 DEF Clean
<1>. QED
  BY <1>1, <1>2, <1>3, <1>4, <1>5 DEF Environment

-----------------------------------------------------------------------------
(***************************************************************************)
(* What a step of a build may change.                                      *)
(***************************************************************************)

\* Only what belongs to the build, its project and its artifact path.
LEMMA BuildFrame ==
  ASSUME TypeOK, NEW b \in Builds, BuildStep(b)
  PROVE  /\ version' = version /\ written' = written
         /\ spent.crashes' = spent.crashes /\ spent.faults' \in {spent.faults, spent.faults + 1}
         /\ \A c \in Builds : c # b => proc'[c] = proc[c]
         /\ \A p \in Projects : p # Proj(b) => manifest'[p] = manifest[p] /\ meta'[p] = meta[p]
         /\ \A o \in Outs : o # OutOf[b] => out'[o] = out[o]
<1>. USE DEF TypeOK
<1>1. spent' = spent \/ Fault
  BY DEF BuildStep, Probe, Lock, Open, LoadFails, Capture, OpenFails, CacheHit, CacheMiss,
         EditManifest, EditFails, Compile, CompileFails, Unedit, UneditFails, Drop,
         DropFails, Move, MoveFails, ReadBack, SkipPublish, PutObject, PutMeta, PutFails
<1>2. spent.crashes' = spent.crashes /\ spent.faults' \in {spent.faults, spent.faults + 1}
  BY <1>1, EventCounts DEF Fault
<1>3. version' = version /\ written' = written
  BY DEF BuildStep, Probe, Lock, Open, LoadFails, Capture, OpenFails, CacheHit, CacheMiss,
         EditManifest, EditFails, Compile, CompileFails, Unedit, UneditFails, Drop,
         DropFails, Move, MoveFails, ReadBack, SkipPublish, PutObject, PutMeta, PutFails
<1>4. \A c \in Builds : c # b => proc'[c] = proc[c]
  BY DEF BuildStep, Probe, Lock, Open, LoadFails, Begin, Capture, OpenFails, CacheHit, CacheMiss,
         EditManifest, EditFails, Compile, CompileFails, Unedit, UneditFails, Drop,
         DropFails, Move, MoveFails, ReadBack, SkipPublish, PutObject, PutMeta, PutFails,
         Finish, Goto
<1>5. \A p \in Projects : p # Proj(b) => manifest'[p] = manifest[p] /\ meta'[p] = meta[p]
  BY DEF BuildStep, Probe, Lock, Open, LoadFails, Capture, OpenFails, CacheHit, CacheMiss,
         EditManifest, EditFails, Compile, CompileFails, Unedit, UneditFails, Drop,
         DropFails, Move, MoveFails, ReadBack, SkipPublish, PutObject, PutMeta, PutFails,
         Restored, AfterDrop, HalfWritten, RestoreFailed
<1>6. \A o \in Outs : o # OutOf[b] => out'[o] = out[o]
  BY DEF BuildStep, Probe, Lock, Open, LoadFails, Capture, OpenFails, CacheHit, CacheMiss,
         EditManifest, EditFails, Compile, CompileFails, Unedit, UneditFails, Drop,
         DropFails, Move, MoveFails, ReadBack, SkipPublish, PutObject, PutMeta, PutFails
<1>. QED
  BY <1>2, <1>3, <1>4, <1>5, <1>6

\* How a build moves: it looks for a manifest, takes the lock, opens the
\* transaction, goes on inside it, or ends.
Looks(b) ==
  /\ At(b, "start") /\ lock' = lock
  /\ proc'[b].pc \in {"lock", "done"}
  /\ proc'[b].pc = "lock" => Explicit(b) \/ proc'[b].probed

Takes(b) ==
  /\ At(b, "lock") /\ lock[Proj(b)] = None
  /\ lock' = [lock EXCEPT ![Proj(b)] = b]
  /\ proc'[b] = [proc[b] EXCEPT !.pc = "open", !.atLock = version[Proj(b)]]

Opens(b) ==
  /\ At(b, "open") /\ lock' = lock
  /\ proc'[b].pc = "capture"
  /\ proc'[b].snap = proc[b].snap /\ proc'[b].atLock = proc[b].atLock

Continues(b) ==
  /\ proc[b].pc \in Holding \ {"open"} /\ lock' = lock
  /\ proc'[b].pc \in Holding \ {"open"}
  /\ proc'[b].entry = proc[b].entry

Leaves(b) ==
  /\ proc[b].pc \in Holding \cup {"lock"} /\ lock' = Released(b)
  /\ proc'[b].pc = "done"

LEMMA BuildMoves ==
  ASSUME TypeOK, NEW b \in Builds, BuildStep(b)
  PROVE  Looks(b) \/ Takes(b) \/ Opens(b) \/ Continues(b) \/ Leaves(b)
<1>. USE DEF TypeOK, At
<1>0. proc[b] \in Processes
  OBVIOUS
<1>a. ASSUME NEW res \in Outcomes, Finish(b, res)
      PROVE  lock' = Released(b) /\ proc'[b].pc = "done"
  BY <1>a, EndedType DEF Finish
<1>1. CASE Probe(b)
  BY <1>0, <1>1 DEF Probe, Looks, Processes, Ended
<1>2. CASE Lock(b)
  BY <1>0, <1>2 DEF Lock, Takes, Processes
<1>3. CASE Open(b)
  <2>1. ASSUME NEW m, NEW single, Begin(b, m, single)
        PROVE  /\ proc'[b].pc = "capture"
               /\ proc'[b].snap = proc[b].snap /\ proc'[b].atLock = proc[b].atLock
    BY <1>0, <2>1 DEF Begin, Processes
  <2>. QED
    BY <1>3, <1>a, <2>1 DEF Open, Opens, Leaves, Holding, Outcomes
<1>4. CASE Capture(b)
  BY <1>0, <1>4 DEF Capture, Continues, Processes, Holding
<1>5. CASE CacheHit(b)
  BY <1>0, <1>5 DEF CacheHit, Leaves, Ended, Processes, Holding
<1>6. CASE CacheMiss(b) \/ EditManifest(b) \/ CompileFails(b) \/ UneditFails(b)
           \/ EditFails(b) \/ Move(b) \/ ReadBack(b) \/ PutObject(b)
  BY <1>0, <1>6 DEF CacheMiss, EditManifest, EditFails, CompileFails, UneditFails, Move,
       ReadBack, PutObject, Goto, Continues, Processes, Holding
<1>7. CASE Compile(b)
  BY <1>0, <1>7 DEF Compile, Goto, Continues, Processes, Holding
<1>8. CASE Unedit(b)
  <2>1. CASE proc[b].result = "failed"
    <3>1. Ended(b, "failed") \in Processes /\ Ended(b, "failed").pc = "done"
      BY EndedType DEF Outcomes
    <3>2. proc'[b].pc = "done"
      BY <1>8, <2>1, <3>1 DEF Unedit, Processes
    <3>. QED
      BY <1>8, <2>1, <3>2 DEF Unedit, Leaves, Holding
  <2>2. CASE proc[b].result # "failed"
    BY <1>0, <1>8, <2>2 DEF Unedit, Continues, Processes, Holding
  <2>. QED
    BY <2>1, <2>2
<1>9. CASE LoadFails(b) \/ OpenFails(b) \/ Drop(b) \/ DropFails(b) \/ MoveFails(b)
           \/ SkipPublish(b) \/ PutMeta(b) \/ PutFails(b)
  BY <1>9, <1>a DEF LoadFails, OpenFails, Drop, DropFails, MoveFails, SkipPublish,
       PutMeta, PutFails, Leaves, Outcomes, Holding
<1>. QED
  BY <1>1, <1>2, <1>3, <1>4, <1>5, <1>6, <1>7, <1>8, <1>9 DEF BuildStep

-----------------------------------------------------------------------------
(***************************************************************************)
(* The lock, and the entry a build compiles.                               *)
(***************************************************************************)

\* No two builds of a project are in their transactions at the same time.
LEMMA OneAtATime ==
  ASSUME Locked, NEW b \in Builds, NEW c \in Builds, Proj(b) = Proj(c),
         proc[b].pc \in Holding, proc[c].pc \in Holding
  PROVE  b = c
  BY DEF Locked

LEMMA BuildLocked ==
  ASSUME TypeOK, Locked, NEW b \in Builds, BuildStep(b)
  PROVE  Locked'
<1>. SUFFICES ASSUME NEW c \in Builds, proc'[c].pc \in Holding
              PROVE  lock'[Proj(c)] = c
  BY DEF Locked, Proj
<1>0. Proj(b) \in Projects /\ Proj(c) \in Projects
  BY BuildAssumption DEF Proj
<1>1. CASE c # b
  <2>1. lock[Proj(c)] = c
    BY <1>1, BuildFrame DEF Locked
  <2>2. lock'[Proj(c)] = lock[Proj(c)]
    <3>1. CASE Takes(b)
      <4>1. Proj(b) # Proj(c)
        BY <2>1, <3>1, BuildAssumption DEF Takes
      <4>. QED
        BY <1>0, <3>1, <4>1 DEF Takes, TypeOK
    <3>2. CASE Leaves(b)
      BY <1>0, <1>1, <2>1, <3>2, ReleasedType DEF Leaves
    <3>3. CASE ~Takes(b) /\ ~Leaves(b)
      BY <3>3, BuildMoves DEF Looks, Opens, Continues
    <3>. QED
      BY <3>1, <3>2, <3>3
  <2>. QED
    BY <2>1, <2>2
<1>2. CASE c = b
  BY <1>0, <1>2, BuildMoves
     DEF Locked, Looks, Takes, Opens, Continues, Leaves, TypeOK, Holding, At
<1>. QED
  BY <1>1, <1>2

LEMMA BuildResolved ==
  ASSUME TypeOK, Resolved, NEW b \in Builds, BuildStep(b)
  PROVE  Resolved'
<1>. SUFFICES ASSUME NEW c \in Builds
              PROVE  /\ proc'[c].pc \in {"lock", "open"} => Explicit(c) \/ proc'[c].probed
                     /\ proc'[c].pc \in Holding \ {"open"} => proc'[c].entry \in Files
  BY DEF Resolved, Explicit
<1>0. proc[b] \in Processes
  BY DEF TypeOK
<1>1. CASE c # b
  BY <1>1, BuildFrame DEF Resolved
<1>2. CASE c = b /\ Opens(b)
  <2>0. ~Finish(b, "invalid")
    BY <1>2, EndedType DEF Finish, Opens, TypeOK, Outcomes
  <2>1. Open(b)
    BY <1>2, <2>0 DEF BuildStep, Opens, Open, LoadFails, Probe, Lock, Capture, OpenFails,
         CacheHit, CacheMiss, EditManifest, EditFails, Compile, CompileFails, Unedit,
         UneditFails, Drop, DropFails, Move, MoveFails, ReadBack, SkipPublish, PutObject,
         PutMeta, PutFails, At
  <2>2. ASSUME NEW m, NEW single, Begin(b, m, single)
        PROVE  proc'[b].entry = IF Explicit(b) THEN EntryOf[b] ELSE m.entry
    BY <1>0, <2>2 DEF Begin, Processes, TypeOK
  <2>3. Explicit(b) \/ ~Synthesised(b)
    BY <1>2 DEF Resolved, Opens, At, Vanished, Synthesised
  <2>4. Explicit(b) => EntryOf[b] \in Files
    BY BuildAssumption DEF Explicit
  <2>6. \A m \in Manifests : m.entry \in Files
    BY DEF Manifests
  <2>7. proc'[b].entry \in Files
    BY <2>1, <2>2, <2>3, <2>4, <2>0, <2>6 DEF Open
  <2>. QED
    BY <1>2, <2>7 DEF Opens
<1>3. CASE c = b /\ ~Opens(b)
  BY <1>0, <1>3, BuildMoves DEF Resolved, Looks, Takes, Continues, Leaves, Processes, Holding, At
<1>. QED
  BY <1>1, <1>2, <1>3

\* The environment moves no build, except that it kills one.
LEMMA EnvironmentLocked ==
  ASSUME TypeOK, Locked, Resolved, Environment
  PROVE  Locked' /\ Resolved'
<1>1. ASSUME NEW b \in Builds, Crash(b)
      PROVE  Locked' /\ Resolved'
  <2>0. proc[b] \in Processes /\ Proj(b) \in Projects
    BY BuildAssumption DEF TypeOK, Proj
  <2>1. proc'[b].pc = "killed"
    BY <1>1, <2>0 DEF Crash, Goto, TypeOK, Processes
  <2>2. \A c \in Builds : c # b => proc'[c] = proc[c]
    BY <1>1 DEF Crash, Goto, TypeOK
  <2>3. \A c \in Builds : c # b /\ lock[Proj(c)] = c => lock'[Proj(c)] = c
    BY <1>1, ReleasedType, BuildAssumption DEF Crash, Proj
  <2>4. \A c \in Builds : proc'[c].pc \in Holding => lock'[Proj(c)] = c
    BY <2>1, <2>2, <2>3 DEF Locked, Holding
  <2>. QED
    BY <2>1, <2>2, <2>4 DEF Locked, Resolved, Holding, Proj, Explicit
<1>2. ASSUME proc' = proc, lock' = lock
      PROVE  Locked' /\ Resolved'
  BY <1>2 DEF Locked, Resolved, Proj, Explicit
<1>. QED
  BY <1>1, <1>2 DEF Environment, EditSource, UserEdit, Rot, Clean

-----------------------------------------------------------------------------
(***************************************************************************)
(* The temporary Mind.toml is taken back.                                  *)
(***************************************************************************)

\* How a step of a build changes its own Mind.toml: it puts a temporary one in
\* place and remembers what was there, puts that back, leaves it alone, ...
Replaces(b) ==
  /\ At(b, "edit") /\ proc'[b].pc = "compile"
  /\ proc'[b].orig = manifest[Proj(b)]
  /\ proc'[b].edited = EditNeeded(b)
  /\ manifest'[Proj(b)] = IF EditNeeded(b) THEN Replacement(b, manifest[Proj(b)])
                          ELSE manifest[Proj(b)]

PutsBack(b) ==
  /\ proc[b].pc \in {"unedit", "drop"} /\ proc'[b].pc \notin Editing
  /\ proc[b].edited \/ At(b, "drop")
  /\ proc'[b].orig = proc[b].orig
  /\ manifest'[Proj(b)] = proc[b].orig

Leave(b) ==
  /\ manifest'[Proj(b)] = manifest[Proj(b)]
  /\ proc'[b].orig = proc[b].orig
  /\ \/ proc[b].pc \notin Editing /\ proc'[b].pc \notin Editing
     \/ /\ At(b, "compile") /\ proc'[b].pc = "unedit"
        /\ proc'[b].edited = proc[b].edited
     \/ At(b, "unedit") /\ ~proc[b].edited /\ proc'[b].pc \notin Editing

\* ... or fails to write it or to put it back, and may tear it.
Spoils(b) ==
  /\ spent.faults' = spent.faults + 1
  /\ manifest'[Proj(b)] \in {manifest[Proj(b)], Torn}
  /\ \/ /\ At(b, "edit") /\ proc'[b].pc = "unedit"
        /\ proc'[b].orig = manifest[Proj(b)] /\ proc'[b].edited
     \/ /\ At(b, "unedit") /\ proc'[b].pc = "drop"
        /\ proc'[b].orig = proc[b].orig /\ proc[b].edited /\ proc'[b].edited
        /\ proc[b].orig = Absent => manifest'[Proj(b)] = manifest[Proj(b)]
     \/ /\ At(b, "drop") /\ proc'[b].pc \notin Editing
        /\ proc'[b].orig = proc[b].orig
        /\ proc[b].orig = Absent => manifest'[Proj(b)] = manifest[Proj(b)]

LEMMA BuildManifest ==
  ASSUME TypeOK, NEW b \in Builds, BuildStep(b)
  PROVE  Replaces(b) \/ PutsBack(b) \/ Leave(b) \/ Spoils(b)
<1>. USE DEF TypeOK, At
<1>0. proc[b] \in Processes /\ Proj(b) \in Projects
  BY BuildAssumption DEF Proj
<1>a. ASSUME NEW res \in Outcomes, Finish(b, res)
      PROVE  proc'[b].orig = proc[b].orig /\ proc'[b].pc = "done"
  BY <1>a, EndedType DEF Finish
<1>b. Fault => spent.faults' = spent.faults + 1
  BY EventCounts DEF Fault
<1>c. \A g \in HalfWritten(b) : g[Proj(b)] \in {manifest[Proj(b)], Torn}
  BY <1>0 DEF HalfWritten
<1>d. \A g \in RestoreFailed(b) :
        /\ g[Proj(b)] \in {manifest[Proj(b)], Torn}
        /\ proc[b].orig = Absent => g[Proj(b)] = manifest[Proj(b)]
  BY <1>c DEF RestoreFailed
<1>1. CASE Probe(b)
  BY <1>0, <1>1 DEF Probe, Leave, Processes, Ended, Editing
<1>2. CASE Lock(b)
  BY <1>0, <1>2 DEF Lock, Leave, Processes, Editing
<1>3. CASE Open(b)
  <2>1. ASSUME NEW m, NEW single, Begin(b, m, single)
        PROVE  proc'[b].pc = "capture" /\ proc'[b].orig = proc[b].orig
    BY <1>0, <2>1 DEF Begin, Processes
  <2>. QED
    BY <1>3, <1>a, <2>1 DEF Open, Leave, Editing, Outcomes
<1>4. CASE Capture(b)
  BY <1>0, <1>4 DEF Capture, Leave, Processes, Editing
<1>5. CASE CacheHit(b)
  BY <1>0, <1>5 DEF CacheHit, Leave, Ended, Processes, Editing
<1>6. CASE CacheMiss(b) \/ CompileFails(b) \/ Move(b) \/ ReadBack(b) \/ PutObject(b)
  BY <1>0, <1>6 DEF CacheMiss, CompileFails, Move, ReadBack, PutObject, Goto, Leave,
       Processes, Editing
<1>7. CASE EditManifest(b)
  BY <1>0, <1>7 DEF EditManifest, Replaces, Processes
<1>8. CASE Compile(b)
  BY <1>0, <1>8 DEF Compile, Goto, Leave, Processes, Editing
<1>9. CASE Unedit(b)
  <2>1. proc'[b].orig = proc[b].orig /\ proc'[b].pc \notin Editing
    <3>1. CASE proc[b].result = "failed"
      <4>1. /\ Ended(b, "failed") \in Processes /\ Ended(b, "failed").pc = "done"
            /\ Ended(b, "failed").orig = proc[b].orig
        BY EndedType DEF Outcomes
      <4>. QED
        <5> DEFINE e == Ended(b, "failed")
        <5>1. proc'[b] = [e EXCEPT !.edited = FALSE]
          BY <1>9, <3>1 DEF Unedit
        <5>2. e \in Processes /\ e.pc = "done" /\ e.orig = proc[b].orig
          BY <4>1
        <5> HIDE DEF e
        <5>3. proc'[b].pc = "done" /\ proc'[b].orig = proc[b].orig
          BY <5>1, <5>2 DEF Processes
        <5>. QED
          BY <5>3 DEF Editing
    <3>2. CASE proc[b].result # "failed"
      BY <1>0, <1>9, <3>2 DEF Unedit, Processes, Editing
    <3>. QED
      BY <3>1, <3>2
  <2>2. manifest'[Proj(b)] = IF proc[b].edited THEN proc[b].orig ELSE manifest[Proj(b)]
    BY <1>0, <1>9 DEF Unedit, Restored
  <2>. QED
    BY <1>9, <2>1, <2>2 DEF Unedit, PutsBack, Leave
<1>10. CASE UneditFails(b)
  BY <1>0, <1>10, <1>b, <1>d DEF UneditFails, Goto, Spoils, Processes, Editing
<1>11. CASE Drop(b)
  BY <1>0, <1>11, <1>a DEF Drop, AfterDrop, Restored, PutsBack, Editing, Outcomes
<1>12. CASE DropFails(b)
  BY <1>12, <1>a, <1>b, <1>d DEF DropFails, Spoils, Editing, Outcomes
<1>13. CASE LoadFails(b) \/ OpenFails(b) \/ MoveFails(b) \/ SkipPublish(b) \/ PutMeta(b)
            \/ PutFails(b)
  BY <1>13, <1>a DEF LoadFails, OpenFails, MoveFails, SkipPublish, PutMeta, PutFails,
       Leave, Outcomes, Editing
<1>14. CASE EditFails(b)
  BY <1>0, <1>14, <1>b, <1>c DEF EditFails, Spoils, Processes
<1>. QED
  BY <1>1, <1>2, <1>3, <1>4, <1>5, <1>6, <1>7, <1>8, <1>9, <1>10, <1>11, <1>12, <1>13,
     <1>14 DEF BuildStep

LEMMA BuildRestorable ==
  ASSUME TypeOK, Locked, Restorable, NEW b \in Builds, BuildStep(b)
  PROVE  Restorable'
<1>0. /\ Proj(b) \in Projects /\ spent \in Counters
      /\ \A c \in Builds : c # b => proc'[c] = proc[c]
      /\ \A p \in Projects : p # Proj(b) => manifest'[p] = manifest[p]
      /\ written' = written
      /\ spent.crashes' = spent.crashes /\ spent.faults' \in {spent.faults, spent.faults + 1}
  BY BuildFrame, BuildAssumption DEF TypeOK, Proj
<1>a. spent.faults \in Nat
  BY <1>0 DEF Counters
<1>1. ASSUME NEW c \in Builds, proc'[c].pc = "drop"
      PROVE  spent.faults' >= 1 /\ proc'[c].edited
  <2>1. CASE c # b
    BY <1>0, <1>1, <1>a, <2>1 DEF Restorable, At
  <2>2. CASE c = b
    BY <1>1, <1>a, <2>2, BuildManifest DEF Replaces, PutsBack, Leave, Spoils, Editing
  <2>. QED
    BY <2>1, <2>2
<1>2. ASSUME spent.crashes' = 0, spent.faults' <= 1
      PROVE  /\ \A c \in Builds : proc'[c].pc \in Editing => proc'[c].orig \in written[Proj(c)]
             /\ \A p \in Projects :
                  \/ manifest'[p] \in written[p]
                  \/ \E c \in Builds : Proj(c) = p /\ proc'[c].pc \in Editing /\ proc'[c].edited
  <2>1. /\ \A c \in Builds : proc[c].pc \in Editing => proc[c].orig \in written[Proj(c)]
        /\ \A p \in Projects :
             \/ manifest[p] \in written[p]
             \/ \E c \in Builds : Proj(c) = p /\ proc[c].pc \in Editing /\ proc[c].edited
    BY <1>0, <1>2, <1>a DEF Restorable
  <2>2. At(b, "edit") => manifest[Proj(b)] \in written[Proj(b)]
    BY <1>0, <2>1, OneAtATime DEF At, Holding, Editing
  <2>3. ASSUME NEW c \in Builds, proc'[c].pc \in Editing
        PROVE  proc'[c].orig \in written[Proj(c)]
    <3>1. CASE c # b
      BY <1>0, <2>1, <2>3, <3>1
    <3>2. CASE c = b
      BY <2>1, <2>2, <2>3, <3>2, BuildManifest
         DEF Replaces, PutsBack, Leave, Spoils, Editing, At
    <3>. QED
      BY <3>1, <3>2
  <2>4. ASSUME NEW p \in Projects, manifest'[p] \notin written[p]
        PROVE  \E c \in Builds : Proj(c) = p /\ proc'[c].pc \in Editing /\ proc'[c].edited
    <3>1. CASE p # Proj(b)
      BY <1>0, <2>1, <2>4, <3>1
    <3>2. CASE p = Proj(b) /\ Replaces(b)
      BY <2>2, <2>4, <3>2 DEF Replaces, Editing
    <3>3. CASE p = Proj(b) /\ PutsBack(b)
      BY <2>1, <2>4, <3>3 DEF PutsBack, Editing, At
    <3>4. CASE p = Proj(b) /\ Leave(b)
      <4>1. PICK c \in Builds : Proj(c) = p /\ proc[c].pc \in Editing /\ proc[c].edited
        BY <2>1, <2>4, <3>4 DEF Leave
      <4>2. CASE c # b
        BY <1>0, <4>1, <4>2
      <4>3. CASE c = b
        BY <3>4, <4>1, <4>3 DEF Leave, Editing, At
      <4>. QED
        BY <4>2, <4>3
    <3>5. CASE p = Proj(b) /\ Spoils(b)
      <4>1. ~At(b, "drop")
        BY <1>2, <1>a, <3>5 DEF Restorable, Spoils
      <4>. QED
        BY <3>5, <4>1 DEF Spoils, Editing
    <3>. QED
      BY <3>1, <3>2, <3>3, <3>4, <3>5, BuildManifest
  <2>. QED
    BY <2>3, <2>4
<1>. QED
  BY <1>0, <1>1, <1>2 DEF Restorable, At, Proj

LEMMA EnvironmentRestorable ==
  ASSUME TypeOK, Restorable, Environment
  PROVE  Restorable'
<1>0. spent.faults \in Nat /\ spent.crashes \in Nat
  BY DEF TypeOK, Counters
<1>1. ASSUME NEW b \in Builds, Crash(b)
      PROVE  Restorable'
  <2>1. spent.crashes' = spent.crashes + 1 /\ spent.faults' = spent.faults
    BY <1>1, EventCounts DEF Crash, TypeOK
  <2>2. \A c \in Builds : proc'[c].pc = "drop" => proc[c].pc = "drop" /\ proc'[c] = proc[c]
    BY <1>1 DEF Crash, Goto, TypeOK, Processes
  <2>. QED
    BY <1>0, <2>1, <2>2 DEF Restorable, At
<1>2. ASSUME NEW p \in Projects, UserEdit(p)
      PROVE  Restorable'
  <2>1. /\ proc' = proc /\ spent.crashes' = spent.crashes /\ spent.faults' = spent.faults
        /\ \A q \in Projects : /\ written[q] \subseteq written'[q]
                               /\ manifest'[q] = manifest[q] \/ manifest'[q] \in written'[q]
    BY <1>2, EventCounts DEF UserEdit, TypeOK
  <2>2. \A c \in Builds : Proj(c) \in Projects
    BY BuildAssumption DEF Proj
  <2>. QED
    BY <2>1, <2>2 DEF Restorable, At, Proj
<1>3. ASSUME proc' = proc, manifest' = manifest, written' = written,
             spent.crashes' = spent.crashes, spent.faults' = spent.faults
      PROVE  Restorable'
  BY <1>3 DEF Restorable, At, Proj
<1>4. ASSUME NEW p \in Projects, NEW f \in Files, EditSource(p, f)
      PROVE  Restorable'
  BY <1>3, <1>4, EventCounts DEF EditSource, TypeOK
<1>5. ASSUME NEW p \in Projects, NEW k \in DOMAIN objects[p], Rot(p, k)
      PROVE  Restorable'
  BY <1>3, <1>5, EventCounts DEF Rot, TypeOK
<1>6. ASSUME NEW p \in Projects, Clean(p)
      PROVE  Restorable'
  BY <1>3, <1>6 DEF Clean
<1>. QED
  BY <1>1, <1>2, <1>4, <1>5, <1>6 DEF Environment

-----------------------------------------------------------------------------
(***************************************************************************)
(* Directories without a Mind.toml of the user's.                          *)
(***************************************************************************)

\* A temporary manifest is as plain as the one it replaces.
LEMMA ReplacementPlain ==
  ASSUME NEW b \in Builds, proc[b].entry \in Files, NEW m, Plain(Proj(b), m)
  PROVE  Plain(Proj(b), Replacement(b, m))
<1>1. CASE m = Torn
  BY <1>1, BuildAssumption DEF Replacement, Plain
<1>2. CASE m # Torn
  <2>. DEFINE r == Replacement(b, m)
  <2>1. r \in Manifests
    BY <1>2 DEF Replacement, Manifests
  <2>2. r.sources <=> (m \in Manifests /\ m.sources)
    BY <1>2 DEF Replacement
  <2>. QED
    BY <2>1, <2>2, BuildAssumption DEF Plain
<1>. QED
  BY <1>1, <1>2

\* A temporary manifest does not parse only if the one it patches does not.
LEMMA ReplacementTorn ==
  ASSUME NEW b \in Builds, proc[b].entry \in Files, NEW m, Replacement(b, m) = Torn
  PROVE  m = Torn
<1>1. CASE m # Torn
  <2>1. Replacement(b, m) \in Manifests
    BY <1>1 DEF Replacement, Manifests
  <2>. QED
    BY <2>1, BuildAssumption
<1>. QED
  BY <1>1

LEMMA BuildUnspoilt ==
  ASSUME TypeOK, Resolved, Unspoilt, NEW b \in Builds, BuildStep(b)
  PROVE  Unspoilt'
<1>0. /\ Proj(b) \in Projects
      /\ \A c \in Builds : c # b => proc'[c] = proc[c]
      /\ \A p \in Projects : p # Proj(b) => manifest'[p] = manifest[p]
  BY BuildFrame, BuildAssumption DEF Proj
<1>1. Plain(Proj(b), manifest[Proj(b)]) /\ Plain(Proj(b), proc[b].orig)
  BY <1>0 DEF Unspoilt
<1>2. Plain(Proj(b), manifest'[Proj(b)]) /\ Plain(Proj(b), proc'[b].orig)
  <2>1. CASE Replaces(b)
    <3>1. proc[b].entry \in Files
      BY <2>1 DEF Replaces, Resolved, At, Holding
    <3>. QED
      BY <1>1, <2>1, <3>1, ReplacementPlain DEF Replaces
  <2>2. CASE PutsBack(b)
    BY <1>1, <2>2 DEF PutsBack
  <2>3. CASE Leave(b)
    BY <1>1, <2>3 DEF Leave
  <2>4. CASE Spoils(b)
    BY <1>1, <2>4, BuildAssumption DEF Spoils, Plain
  <2>. QED
    BY <2>1, <2>2, <2>3, <2>4, BuildManifest
<1>3. /\ \A p \in Projects : Plain(p, manifest'[p])
      /\ \A c \in Builds : Plain(Proj(c), proc'[c].orig)
  BY <1>0, <1>2 DEF Unspoilt
<1>. QED
  BY <1>0, <1>3 DEF Unspoilt, Plain, Proj

LEMMA EnvironmentUnspoilt ==
  ASSUME TypeOK, Unspoilt, Environment
  PROVE  Unspoilt'
<1>1. ASSUME NEW b \in Builds, Crash(b)
      PROVE  Unspoilt'
  <2>1. \A c \in Builds : proc'[c].orig = proc[c].orig
    BY <1>1 DEF Crash, Goto, TypeOK, Processes
  <2>2. \A p \in Projects : manifest'[p] \in {manifest[p], Torn}
    BY <1>1 DEF Crash, TypeOK
  <2>. QED
    BY <2>1, <2>2, BuildAssumption DEF Unspoilt, Plain, Proj
<1>2. ASSUME NEW p \in Projects, UserEdit(p)
      PROVE  Unspoilt'
  <2>1. /\ proc' = proc /\ p \notin Standalone
        /\ \A q \in Projects : \/ manifest'[q] = manifest[q]
                               \/ q = p /\ manifest'[q] \in UserManifests
    BY <1>2 DEF UserEdit, TypeOK
  <2>. QED
    BY <2>1, BuildAssumption DEF Unspoilt, Plain, Proj, UserManifests
<1>3. ASSUME proc' = proc, manifest' = manifest
      PROVE  Unspoilt'
  BY <1>3 DEF Unspoilt, Plain, Proj
<1>. QED
  BY <1>1, <1>2, <1>3 DEF Environment, EditSource, Rot, Clean

\* A pending edit is of the one build of its project that is in its transaction.
LEMMA OnePending ==
  ASSUME Locked, NEW b \in Builds, NEW c \in Builds, Proj(c) = Proj(b),
         proc[b].pc \in Holding, EditPending(c)
  PROVE  c = b
  BY OneAtATime DEF EditPending, Editing, Holding

\* What is left behind, or kept to be put back, has cost its failing calls.
LEMMA BuildCostly ==
  ASSUME TypeOK, Resolved, Locked, Restorable, Costly, NEW b \in Builds, BuildStep(b)
  PROVE  Costly'
<1>. SUFFICES ASSUME spent.crashes' = 0
              PROVE  /\ \A p \in Standalone :
                          Cost(manifest[p])' \/ \E c \in Builds : Proj(c) = p /\ EditPending(c)'
                     /\ \A c \in Builds :
                          Proj(c) \in Standalone /\ EditPending(c)' =>
                            Cost(proc[c].orig)' /\ TornEdit(c)'
  BY DEF Costly, Proj
<1>0. /\ Proj(b) \in Projects /\ Standalone \subseteq Projects /\ spent.faults \in Nat
      /\ \A c \in Builds : c # b => proc'[c] = proc[c]
      /\ \A p \in Projects : p # Proj(b) => manifest'[p] = manifest[p]
      /\ spent.faults' \in {spent.faults, spent.faults + 1}
      /\ spent.crashes = 0
  BY BuildFrame, BuildAssumption DEF TypeOK, Proj, Counters
<1>1. /\ \A p \in Standalone :
           Cost(manifest[p]) \/ \E c \in Builds : Proj(c) = p /\ EditPending(c)
      /\ \A c \in Builds :
           Proj(c) \in Standalone /\ EditPending(c) => Cost(proc[c].orig) /\ TornEdit(c)
  BY <1>0 DEF Costly
<1>2. \A m : Cost(m) => (m # Absent => spent.faults' >= 2) /\ (m = Torn => spent.faults' >= 3)
  BY <1>0 DEF Cost
<1>3. \A c \in Builds : c # b => (EditPending(c)' <=> EditPending(c))
  BY <1>0 DEF EditPending
\* Nothing of another build or another directory changes.
<1>4. ASSUME NEW c \in Builds, c # b, Proj(c) \in Standalone, EditPending(c)'
      PROVE  Cost(proc[c].orig)' /\ TornEdit(c)'
  <2>1. EditPending(c) /\ Cost(proc[c].orig) /\ TornEdit(c)
    BY <1>1, <1>3, <1>4
  <2>2. Cost(proc[c].orig)'
    BY <1>0, <1>2, <1>4, <2>1 DEF Cost
  <2>3. CASE Proj(c) # Proj(b)
    BY <1>0, <1>4, <2>1, <2>2, <2>3 DEF TornEdit, At, Proj
  <2>4. CASE Proj(c) = Proj(b)
    <3>1. proc[b].pc \notin Holding
      BY <1>4, <2>1, <2>4, OnePending
    <3>2. manifest'[Proj(b)] = manifest[Proj(b)]
      BY <3>1, BuildManifest DEF Replaces, PutsBack, Leave, Spoils, At, Holding
    <3>. QED
      BY <1>0, <1>4, <2>1, <2>2, <2>4, <3>2 DEF TornEdit, At, Proj
  <2>. QED
    BY <2>3, <2>4
<1>5. ASSUME NEW p \in Standalone, p # Proj(b)
      PROVE  Cost(manifest[p])' \/ \E c \in Builds : Proj(c) = p /\ EditPending(c)'
  BY <1>0, <1>1, <1>2, <1>3, <1>5 DEF Cost
\* Of the build itself and its directory.
<1>6. ASSUME Proj(b) \in Standalone
      PROVE  /\ Cost(manifest[Proj(b)])' \/ \E c \in Builds : Proj(c) = Proj(b) /\ EditPending(c)'
             /\ EditPending(b)' => Cost(proc[b].orig)' /\ TornEdit(b)'
  <2>1. proc[b].pc \in Holding /\ ~EditPending(b) => Cost(manifest[Proj(b)])
    BY <1>1, <1>6, OnePending
  <2>2. EditPending(b) => Cost(proc[b].orig) /\ TornEdit(b)
    BY <1>1, <1>6
  <2>3. CASE Replaces(b)
    <3>1. Cost(manifest[Proj(b)])
      BY <2>1, <2>3 DEF Replaces, EditPending, Editing, At, Holding
    <3>2. /\ manifest'[Proj(b)] = Torn => manifest[Proj(b)] = Torn
          /\ ~EditNeeded(b) => manifest'[Proj(b)] = manifest[Proj(b)]
      BY <2>3, ReplacementTorn DEF Replaces, Resolved, At, Holding
    <3>3. Cost(proc[b].orig)'
      BY <1>2, <2>3, <3>1 DEF Replaces, Cost
    <3>4. TornEdit(b)'
      BY <1>2, <2>3, <3>1, <3>2, <1>0 DEF Replaces, Cost, TornEdit, At, Proj
    <3>5. EditNeeded(b) => EditPending(b)'
      BY <2>3 DEF Replaces, EditPending, Editing
    <3>6. ~EditNeeded(b) => Cost(manifest[Proj(b)])'
      BY <1>2, <3>1, <3>2 DEF Cost, Proj
    <3>. QED
      BY <3>3, <3>4, <3>5, <3>6
  <2>4. CASE PutsBack(b)
    <3>1. EditPending(b) /\ ~EditPending(b)'
      BY <2>4 DEF PutsBack, EditPending, Editing, Restorable, At
    <3>2. Cost(manifest[Proj(b)])'
      BY <1>2, <2>2, <2>4, <3>1 DEF PutsBack, Cost, Proj
    <3>. QED
      BY <3>1, <3>2
  <2>5. CASE Leave(b)
    <3>1. CASE EditPending(b)
      <4>1. /\ At(b, "compile") /\ proc'[b].pc = "unedit" /\ EditPending(b)'
            /\ proc'[b].orig = proc[b].orig /\ manifest'[Proj(b)] = manifest[Proj(b)]
        BY <2>5, <3>1 DEF Leave, EditPending, Editing, At
      <4>2. Cost(proc[b].orig)'
        BY <1>2, <2>2, <3>1, <4>1 DEF Cost
      <4>3. TornEdit(b)'
        BY <1>0, <2>2, <3>1, <4>1 DEF TornEdit, At, Proj
      <4>. QED
        BY <4>1, <4>2, <4>3
    <3>2. CASE ~EditPending(b)
      <4>1. ~EditPending(b)' /\ manifest'[Proj(b)] = manifest[Proj(b)]
        BY <2>5, <3>2 DEF Leave, EditPending, Editing, At
      <4>2. \/ Cost(manifest[Proj(b)])
            \/ \E c \in Builds : c # b /\ Proj(c) = Proj(b) /\ EditPending(c)
        BY <1>1, <1>6, <3>2
      <4>. QED
        BY <1>2, <1>3, <4>1, <4>2 DEF Cost, Proj
    <3>. QED
      BY <3>1, <3>2
  <2>6. CASE Spoils(b)
    <3>1. CASE At(b, "edit")
      <4>1. Cost(manifest[Proj(b)])
        BY <2>1, <3>1 DEF EditPending, Editing, At, Holding
      <4>2. EditPending(b)' /\ proc'[b].pc = "unedit" /\ proc'[b].orig = manifest[Proj(b)]
        BY <2>6, <3>1 DEF Spoils, EditPending, Editing, At
      <4>3. Cost(proc[b].orig)'
        BY <1>2, <4>1, <4>2 DEF Cost
      <4>4. TornEdit(b)'
        BY <1>0, <2>6, <4>2 DEF Spoils, TornEdit, At, Proj
      <4>. QED
        BY <4>2, <4>3, <4>4
    <3>2. CASE At(b, "unedit")
      <4>1. /\ EditPending(b) /\ EditPending(b)' /\ proc'[b].pc = "drop"
            /\ proc'[b].orig = proc[b].orig
            /\ proc[b].orig = Absent => manifest'[Proj(b)] = manifest[Proj(b)]
        BY <2>6, <3>2 DEF Spoils, EditPending, Editing, At
      <4>2. Cost(proc[b].orig)'
        BY <1>2, <2>2, <4>1 DEF Cost
      <4>3. TornEdit(b)'
        BY <1>0, <2>2, <2>6, <4>1 DEF Spoils, TornEdit, Cost, At, Proj
      <4>. QED
        BY <4>1, <4>2, <4>3
    <3>3. CASE At(b, "drop")
      <4>1. /\ EditPending(b) /\ ~EditPending(b)'
            /\ spent.faults >= 1
            /\ proc[b].orig # Absent => spent.faults >= 2
            /\ proc[b].orig = Absent => manifest'[Proj(b)] = manifest[Proj(b)]
        BY <2>2, <2>6, <3>3 DEF Spoils, EditPending, Editing, Restorable, Cost, At
      <4>2. Cost(manifest[Proj(b)])'
        BY <1>0, <2>2, <2>6, <3>3, <4>1 DEF Spoils, TornEdit, Cost, At, Proj
      <4>. QED
        BY <4>1, <4>2
    <3>. QED
      BY <2>6, <3>1, <3>2, <3>3 DEF Spoils
  <2>. QED
    BY <2>3, <2>4, <2>5, <2>6, BuildManifest
<1>. QED
  BY <1>4, <1>5, <1>6

LEMMA EnvironmentCostly ==
  ASSUME TypeOK, Costly, Environment
  PROVE  Costly'
<1>0. spent.crashes \in Nat /\ Standalone \subseteq Projects
  BY BuildAssumption DEF TypeOK, Counters
<1>1. ASSUME NEW b \in Builds, Crash(b)
      PROVE  Costly'
  <2>1. spent.crashes' = spent.crashes + 1
    BY <1>1, EventCounts DEF Crash, TypeOK
  <2>. QED
    BY <1>0, <2>1 DEF Costly
<1>2. ASSUME proc' = proc, \A p \in Standalone : manifest'[p] = manifest[p],
             spent.crashes' = spent.crashes, spent.faults' = spent.faults
      PROVE  Costly'
  BY <1>0, <1>2 DEF Costly, Cost, TornEdit, EditPending, At, Proj
<1>3. ASSUME NEW p \in Projects, UserEdit(p)
      PROVE  Costly'
  <2>1. \A q \in Standalone : manifest'[q] = manifest[q]
    BY <1>0, <1>3 DEF UserEdit, TypeOK
  <2>. QED
    BY <1>2, <1>3, <2>1, EventCounts DEF UserEdit, TypeOK
<1>4. ASSUME NEW p \in Projects, NEW f \in Files, EditSource(p, f)
      PROVE  Costly'
  BY <1>2, <1>4, EventCounts DEF EditSource, TypeOK
<1>5. ASSUME NEW p \in Projects, NEW k \in DOMAIN objects[p], Rot(p, k)
      PROVE  Costly'
  BY <1>2, <1>5, EventCounts DEF Rot, TypeOK
<1>6. ASSUME NEW p \in Projects, Clean(p)
      PROVE  Costly'
  BY <1>2, <1>6 DEF Clean
<1>. QED
  BY <1>1, <1>3, <1>4, <1>5, <1>6 DEF Environment

\* Once the sources are captured they stay as they are, with all that goes
\* into the program.
Settled(b) ==
  /\ proc'[b].entry = proc[b].entry /\ proc'[b].loaded = proc[b].loaded
  /\ proc'[b].snap = proc[b].snap /\ proc'[b].atLock = proc[b].atLock
  /\ proc'[b].pc \notin {"start", "lock", "open", "capture"}
  /\ proc'[b].result \in {proc[b].result, "ok", "failed"}

LEMMA BuildSettles ==
  ASSUME TypeOK, NEW b \in Builds, BuildStep(b)
  PROVE  Probe(b) \/ Lock(b) \/ Open(b) \/ LoadFails(b) \/ Capture(b) \/ Settled(b)
<1>. USE DEF TypeOK, At
<1>0. proc[b] \in Processes
  OBVIOUS
<1>a. ASSUME NEW res \in {"ok", "failed"}, Finish(b, res)
      PROVE  Settled(b)
  BY <1>a, EndedType DEF Finish, Settled, Outcomes
<1>1. CASE CacheHit(b)
  BY <1>0, <1>1 DEF CacheHit, Ended, Settled, Processes
<1>2. CASE CacheMiss(b) \/ EditManifest(b) \/ EditFails(b) \/ CompileFails(b)
           \/ UneditFails(b) \/ Move(b) \/ ReadBack(b) \/ PutObject(b)
  BY <1>0, <1>2 DEF CacheMiss, EditManifest, EditFails, CompileFails, UneditFails, Move,
       ReadBack, PutObject, Goto, Settled, Processes
<1>3. CASE Compile(b)
  BY <1>0, <1>3 DEF Compile, Goto, Settled, Processes
<1>4. CASE Unedit(b)
  <2>1. CASE proc[b].result = "failed"
    <3>1. Ended(b, "failed") \in Processes
      BY EndedType DEF Outcomes
    <3>2. proc'[b] = [Ended(b, "failed") EXCEPT !.edited = FALSE]
      BY <1>4, <2>1 DEF Unedit
    <3>3. /\ proc'[b].entry = Ended(b, "failed").entry /\ proc'[b].snap = Ended(b, "failed").snap
          /\ proc'[b].loaded = Ended(b, "failed").loaded
          /\ proc'[b].atLock = Ended(b, "failed").atLock
          /\ proc'[b].pc = Ended(b, "failed").pc /\ proc'[b].result = Ended(b, "failed").result
      BY <3>1, <3>2 DEF Processes
    <3>. QED
      BY <3>3, EndedType DEF Settled, Outcomes
  <2>2. CASE proc[b].result # "failed"
    BY <1>0, <1>4, <2>2 DEF Unedit, Settled, Processes
  <2>. QED
    BY <2>1, <2>2
<1>5. CASE OpenFails(b) \/ Drop(b) \/ DropFails(b) \/ MoveFails(b)
           \/ SkipPublish(b) \/ PutMeta(b) \/ PutFails(b)
  BY <1>5, <1>a DEF OpenFails, Drop, DropFails, MoveFails, SkipPublish,
       PutMeta, PutFails
<1>. QED
  BY <1>1, <1>2, <1>3, <1>4, <1>5 DEF BuildStep

\* Capturing adds one file of the build's scope, in its current version.
LEMMA CaptureAdds ==
  ASSUME TypeOK, Resolved, NEW b \in Builds, Capture(b)
  PROVE  \E f \in Files \cap Scope(b) :
           /\ DOMAIN proc'[b].snap = DOMAIN proc[b].snap \cup {f}
           /\ proc'[b].snap[f] = version[Proj(b)][f]
           /\ \A g \in DOMAIN proc[b].snap \ {f} : proc'[b].snap[g] = proc[b].snap[g]
           /\ proc'[b].entry = proc[b].entry /\ proc'[b].single = proc[b].single
           /\ proc'[b].loaded = proc[b].loaded /\ proc'[b].atLock = proc[b].atLock
           /\ proc'[b].result = proc[b].result /\ proc'[b].got = proc[b].got
           /\ proc'[b].pc \in {"capture", "lookup"}
<1>0. proc[b] \in Processes
  BY DEF TypeOK
<1>1. PICK f \in Scope(b) \ DOMAIN proc[b].snap :
        LET old == proc[b].snap
            new == [g \in DOMAIN old \cup {f} |->
                      IF g = f THEN version[Proj(b)][f] ELSE old[g]]
        IN  proc' = [proc EXCEPT ![b].snap = new,
                                 ![b].pc = IF DOMAIN new = Scope(b) THEN "lookup" ELSE @]
  BY DEF Capture
<1>2. f \in Files
  BY DEF Resolved, Capture, Scope, At, Holding
<1>. QED
  BY <1>0, <1>1, <1>2 DEF TypeOK, Processes, Capture, At

LEMMA BuildAlone ==
  ASSUME TypeOK, Resolved, Locked, Unspoilt, Costly, NEW b \in Builds, BuildStep(b),
         NEW c \in Builds, Alone(c)
  PROVE  Alone(c)'
<1>. SUFFICES ASSUME Explicit(c), Proj(c) \in Standalone
              PROVE  /\ DOMAIN proc'[c].snap \subseteq {EntryOf[c]}
                     /\ proc'[c].pc = "capture" => proc'[c].single /\ proc'[c].entry = EntryOf[c]
                     /\ spent.crashes' = 0 /\ spent.faults' <= 2 =>
                          proc'[c].result # "invalid"
  BY DEF Alone, Explicit, Proj, At
<1>0. /\ DOMAIN proc[c].snap \subseteq {EntryOf[c]}
      /\ proc[c].pc = "capture" => proc[c].single /\ proc[c].entry = EntryOf[c]
      /\ spent.crashes = 0 /\ spent.faults <= 2 => proc[c].result # "invalid"
      /\ spent.crashes' = spent.crashes /\ spent.faults \in Nat
      /\ spent.faults' \in {spent.faults, spent.faults + 1}
      /\ proc[b] \in Processes
  BY BuildFrame DEF Alone, At, TypeOK, Counters
<1>1. CASE c # b
  BY <1>0, <1>1, BuildFrame
<1>2. CASE c = b /\ Probe(b)
  BY <1>0, <1>2 DEF Probe, TypeOK, Processes, At
<1>3. CASE c = b /\ Lock(b)
  BY <1>0, <1>3 DEF Lock, TypeOK, Processes, At
\* A manifest met under the lock was left behind, at two failing calls.
<1>b. ASSUME c = b, At(b, "open"), spent.crashes = 0, ~Synthesised(b)
      PROVE  Cost(manifest[Proj(b)]) /\ manifest[Proj(b)] # Absent
  <2>1. ~EditPending(b) /\ proc[b].pc \in Holding
    BY <1>b DEF EditPending, Editing, At, Holding
  <2>2. Cost(manifest[Proj(b)])
    BY <1>b, <2>1, OnePending DEF Costly
  <2>3. manifest[Proj(b)] # Absent
    BY <1>b, BuildAssumption DEF Synthesised, Vanished, Proj
  <2>. QED
    BY <2>2, <2>3
<1>4. CASE c = b /\ Open(b)
  <2>1. ASSUME NEW m, NEW single, Begin(b, m, single)
        PROVE  /\ proc'[b].snap = proc[b].snap /\ proc'[b].single = single
               /\ proc'[b].entry = EntryOf[b] /\ proc'[b].result = proc[b].result
    BY <1>0, <1>4, <2>1 DEF Begin, Processes, TypeOK
  <2>2. manifest[Proj(b)] \in Manifests => SingleFile(b, manifest[Proj(b)])
    BY <1>4, BuildAssumption DEF SingleFile, Unspoilt, Plain, Proj
  <2>3. spent.crashes = 0 /\ spent.faults <= 2 /\ ~Synthesised(b) =>
          manifest[Proj(b)] \in Manifests
    <3>1. ~Synthesised(b) /\ spent.crashes = 0 =>
            Cost(manifest[Proj(b)]) /\ manifest[Proj(b)] # Absent
      BY <1>4, <1>b DEF Open
    <3>2. manifest[Proj(b)] \in Manifests \cup {Absent, Torn}
      BY <1>4, BuildAssumption DEF TypeOK, Proj
    <3>. QED
      BY <1>0, <3>1, <3>2 DEF Cost
  <2>4. Finish(b, "invalid") => proc'[b].snap = proc[b].snap /\ proc'[b].pc = "done"
    BY EndedType DEF Finish, TypeOK, Outcomes
  <2>5. spent' = spent
    BY <1>4 DEF Open
  <2>. QED
    BY <1>0, <1>4, <2>1, <2>2, <2>3, <2>4, <2>5 DEF Open
<1>5. CASE c = b /\ Capture(b)
  <2>1. Scope(b) = {EntryOf[b]}
    BY <1>0, <1>5 DEF Scope, Capture, At
  <2>2. PICK f \in Files \cap Scope(b) :
          /\ DOMAIN proc'[b].snap = DOMAIN proc[b].snap \cup {f}
          /\ proc'[b].entry = proc[b].entry /\ proc'[b].single = proc[b].single
          /\ proc'[b].result = proc[b].result
    BY <1>5, CaptureAdds
  <2>. QED
    BY <1>0, <1>5, <2>1, <2>2 DEF Capture, At
<1>6. CASE c = b /\ Settled(b)
  BY <1>0, <1>6 DEF Settled
<1>7. CASE c = b /\ LoadFails(b)
  <2>1. /\ proc'[b].snap = proc[b].snap /\ proc'[b].pc = "done"
        /\ spent.faults' = spent.faults + 1
    BY <1>7, EndedType, EventCounts DEF LoadFails, Fault, Finish, TypeOK, Outcomes
  <2>2. spent.crashes = 0 => spent.faults >= 2
    BY <1>7, <1>b DEF LoadFails, Cost
  <2>. QED
    BY <1>0, <1>7, <2>1, <2>2
<1>. QED
  BY <1>1, <1>2, <1>3, <1>4, <1>5, <1>6, <1>7, BuildSettles

-----------------------------------------------------------------------------
(***************************************************************************)
(* What is captured is no older than the lock.                             *)
(***************************************************************************)

LEMMA BuildRecent ==
  ASSUME TypeOK, Resolved, NEW b \in Builds, BuildStep(b), NEW c \in Builds, Recent(c)
  PROVE  Recent(c)'
<1>0. /\ proc[b] \in Processes /\ Proj(c) \in Projects /\ version' = version
      /\ version[Proj(c)] \in [Files -> Nat]
  BY BuildFrame, BuildAssumption DEF TypeOK, Proj
<1>. SUFFICES /\ \A f \in Files : proc'[c].atLock[f] <= version[Proj(c)][f]
              /\ proc'[c].pc \in {"start", "lock", "open"} => DOMAIN proc'[c].snap = {}
              /\ \A f \in DOMAIN proc'[c].snap : proc'[c].atLock[f] <= proc'[c].snap[f]
  BY <1>0 DEF Recent, Proj
<1>. USE DEF Recent
<1>1. CASE c # b
  BY <1>1, BuildFrame
<1>2. CASE c = b /\ Probe(b)
  BY <1>0, <1>2 DEF Probe, TypeOK, Processes, At, Ended
<1>3. CASE c = b /\ Lock(b)
  <2>1. proc'[b].atLock = version[Proj(b)] /\ proc'[b].snap = proc[b].snap
    BY <1>0, <1>3 DEF Lock, TypeOK, Processes
  <2>2. DOMAIN proc[b].snap = {}
    BY <1>3 DEF Lock, At
  <2>3. \A f \in Files : version[Proj(b)][f] <= version[Proj(b)][f]
    BY <1>0, <1>3
  <2>. QED
    BY <1>3, <2>1, <2>2, <2>3
<1>4. CASE c = b /\ Open(b)
  <2>1. ASSUME NEW m, NEW single, Begin(b, m, single)
        PROVE  proc'[b].snap = proc[b].snap /\ proc'[b].atLock = proc[b].atLock
    BY <1>0, <2>1 DEF Begin, Processes, TypeOK
  <2>2. Finish(b, "invalid") => proc'[b].snap = proc[b].snap /\ proc'[b].atLock = proc[b].atLock
    BY EndedType DEF Finish, TypeOK, Outcomes
  <2>3. proc'[b].snap = proc[b].snap /\ proc'[b].atLock = proc[b].atLock
    BY <1>4, <2>1, <2>2 DEF Open
  <2>. QED
    BY <1>4, <2>3 DEF Open, At
<1>5. CASE c = b /\ Capture(b)
  <2>1. PICK f \in Files :
          /\ DOMAIN proc'[b].snap = DOMAIN proc[b].snap \cup {f}
          /\ proc'[b].snap[f] = version[Proj(b)][f]
          /\ \A g \in DOMAIN proc[b].snap \ {f} : proc'[b].snap[g] = proc[b].snap[g]
          /\ proc'[b].atLock = proc[b].atLock
          /\ proc'[b].pc \in {"capture", "lookup"}
    BY <1>5, CaptureAdds
  <2>. QED
    BY <1>5, <2>1
<1>6. CASE c = b /\ Settled(b)
  BY <1>6 DEF Settled
<1>7. CASE c = b /\ LoadFails(b)
  BY <1>7, EndedType DEF LoadFails, Finish, TypeOK, Outcomes
<1>. QED
  BY <1>1, <1>2, <1>3, <1>4, <1>5, <1>6, <1>7, BuildSettles

\* Versions only grow, and a kill changes nothing but where a build is.
LEMMA EnvironmentKeeps ==
  ASSUME TypeOK, Environment, NEW b \in Builds
  PROVE  /\ Alone(b) => Alone(b)'
         /\ Recent(b) => Recent(b)'
<1>0. /\ proc[b] \in Processes /\ spent.crashes \in Nat
      /\ Proj(b) \in Projects /\ version \in [Projects -> [Files -> Nat]]
  BY BuildAssumption DEF TypeOK, Counters, Proj
<1>1. /\ proc'[b].snap = proc[b].snap /\ proc'[b].atLock = proc[b].atLock
      /\ proc'[b].single = proc[b].single /\ proc'[b].entry = proc[b].entry
      /\ proc'[b].result = proc[b].result
      /\ proc'[b].pc = proc[b].pc \/ proc'[b].pc = "killed"
  <2>1. ASSUME NEW c \in Builds, Crash(c)
        PROVE  proc' = [proc EXCEPT ![c].pc = "killed"]
    BY <2>1 DEF Crash, Goto
  <2>2. proc' = proc \/ \E c \in Builds : proc' = [proc EXCEPT ![c].pc = "killed"]
    BY <2>1 DEF Environment, EditSource, UserEdit, Rot, Clean
  <2>3. CASE proc' = proc
    BY <2>3
  <2>4. ASSUME NEW c \in Builds, proc' = [proc EXCEPT ![c].pc = "killed"]
        PROVE  proc'[b] = proc[b] \/ proc'[b] = [proc[b] EXCEPT !.pc = "killed"]
    BY <2>4 DEF TypeOK
  <2>5. proc'[b] = proc[b] \/ proc'[b] = [proc[b] EXCEPT !.pc = "killed"]
    BY <2>2, <2>3, <2>4
  <2>. QED
    BY <1>0, <2>5 DEF Processes
<1>2. \A f \in Files : version[Proj(b)][f] <= version'[Proj(b)][f]
  <2>1. ASSUME NEW p \in Projects, NEW g \in Files, EditSource(p, g)
        PROVE  \A f \in Files : version[Proj(b)][f] <= version'[Proj(b)][f]
    BY <1>0, <2>1 DEF EditSource
  <2>2. version' = version => \A f \in Files : version[Proj(b)][f] <= version'[Proj(b)][f]
    BY <1>0
  <2>. QED
    BY <2>1, <2>2 DEF Environment, Crash, UserEdit, Rot, Clean
<1>3. (spent.crashes' = 0 => spent.crashes = 0) /\ spent.faults' = spent.faults
  <2>1. \/ spent' = spent
        \/ \E bound, kind : /\ kind \in {"saves", "edits", "crashes", "rot"}
                            /\ Event(kind, bound)
    BY DEF Environment, Crash, EditSource, UserEdit, Rot, Clean
  <2>. QED
    BY <1>0, <2>1, EventCounts DEF TypeOK, Counters
<1>4. proc'[b].atLock \in [Files -> Nat] /\ version'[Proj(b)] \in [Files -> Nat]
  BY <1>0, <1>1, EnvironmentType DEF TypeOK, Processes
<1>5. Alone(b) => Alone(b)'
  BY <1>1, <1>3 DEF Alone, Explicit, Proj, At
<1>6. Recent(b) => Recent(b)'
  BY <1>0, <1>1, <1>2, <1>4 DEF Recent, Proj, Processes
<1>. QED
  BY <1>5, <1>6

-----------------------------------------------------------------------------
(***************************************************************************)
(* What is delivered and published.                                        *)
(***************************************************************************)

\* Only a build in its transaction writes to its artifact path.
LEMMA OutOnlyLocked ==
  ASSUME NEW b \in Builds, BuildStep(b), out' # out
  PROVE  proc[b].pc \in Holding
  BY DEF BuildStep, Probe, Lock, Open, LoadFails, Capture, OpenFails, CacheHit, CacheMiss,
         EditManifest, EditFails, Compile, CompileFails, Unedit, UneditFails, Drop,
         DropFails, Move, MoveFails, ReadBack, SkipPublish, PutObject, PutMeta, PutFails,
         At, Holding

\* The steps of another build do not take away what a build delivered.
LEMMA OthersOwn ==
  ASSUME OutsSeparate, TypeOK, Locked, NEW b \in Builds, BuildStep(b),
         NEW c \in Builds, c # b, Own(c)
  PROVE  Own(c)'
<1>1. proc'[c] = proc[c]
  BY BuildFrame
<1>2. Program(c)' = Program(c)
  BY <1>1 DEF Program
<1>3. proc[c].pc \in {"unedit", "readback"} => out'[OutOf[c]] = out[OutOf[c]]
  <2>1. OutOf[c] \in Outs
    BY BuildAssumption
  <2>2. CASE OutOf[c] # OutOf[b]
    BY <2>1, <2>2, BuildFrame
  <2>3. CASE OutOf[c] = OutOf[b]
    BY <2>3, OneAtATime, OutOnlyLocked DEF OutsSeparate, Holding
  <2>. QED
    BY <2>2, <2>3
<1>. QED
  BY <1>1, <1>2, <1>3 DEF Own, Delivered, At

\* Nor does a build lose its own artifact on the way to publishing it.
LEMMA ItsOwn ==
  ASSUME TypeOK, Resolved, Published, NEW b \in Builds, BuildStep(b), Own(b)
  PROVE  Own(b)'
<1>0. /\ proc[b] \in Processes /\ OutOf[b] \in Outs /\ Proj(b) \in Projects
      /\ out \in [Outs -> Bytes] /\ proc \in [Builds -> Processes]
  BY BuildAssumption DEF TypeOK, Proj
<1>1. ASSUME proc'[b].result # "ok",
             proc'[b].pc \notin {"unedit", "readback", "object", "meta"}
      PROVE  Own(b)'
  BY <1>1 DEF Own, At
<1>a. ASSUME Finish(b, "failed") \/ Finish(b, "invalid")
      PROVE  Own(b)'
  BY <1>1, <1>a, EndedType DEF Finish, TypeOK, Outcomes
<1>b. ASSUME Finish(b, "ok"), proc[b].got = Program(b)
      PROVE  Own(b)'
  <2>1. /\ proc'[b].got = Program(b) /\ proc'[b].pc = "done"
        /\ proc'[b].snap = proc[b].snap /\ proc'[b].entry = proc[b].entry
        /\ proc'[b].loaded = proc[b].loaded
    BY <1>0, <1>b, EndedType DEF Finish, Outcomes
  <2>. QED
    BY <2>1 DEF Own, At, Program
<1>2. CASE Probe(b)
  <2>1. proc'[b].pc \in {"lock", "done"} /\ proc'[b].result \in {proc[b].result, "invalid"}
    BY <1>0, <1>2 DEF Probe, Processes, Ended
  <2>. QED
    BY <1>1, <1>2, <2>1 DEF Probe, Own, At
<1>3. CASE Lock(b)
  <2>1. proc'[b].pc = "open" /\ proc'[b].result = proc[b].result
    BY <1>0, <1>3 DEF Lock, Processes
  <2>. QED
    BY <1>1, <1>3, <2>1 DEF Lock, Own, At
<1>4. CASE Open(b)
  <2>1. ASSUME NEW m, NEW single, Begin(b, m, single)
        PROVE  proc'[b].pc = "capture" /\ proc'[b].result = proc[b].result
    BY <1>0, <2>1 DEF Begin, Processes
  <2>. QED
    BY <1>1, <1>4, <1>a, <2>1 DEF Open, Own, At
<1>5. CASE Capture(b)
  <2>1. proc'[b].pc \in {"capture", "lookup"} /\ proc'[b].result = proc[b].result
    BY <1>5, CaptureAdds
  <2>. QED
    BY <1>1, <1>5, <2>1 DEF Capture, Own, At
<1>6. CASE CacheHit(b)
  <2>1. objects[Proj(b)][Key(b)] = Program(b)
    BY <1>0, <1>6, ProgramType DEF CacheHit, Hit, Published
  <2>2. proc'[b] = [Ended(b, "ok") EXCEPT !.got = Program(b)]
    BY <1>0, <1>6, <2>1 DEF CacheHit
  <2>3. /\ Ended(b, "ok") \in Processes /\ Ended(b, "ok").snap = proc[b].snap
        /\ Ended(b, "ok").entry = proc[b].entry /\ Ended(b, "ok").loaded = proc[b].loaded
        /\ Ended(b, "ok").pc = "done"
    BY EndedType DEF Outcomes
  <2>4. /\ proc'[b].got = Program(b) /\ proc'[b].pc = "done"
        /\ proc'[b].snap = proc[b].snap /\ proc'[b].entry = proc[b].entry
        /\ proc'[b].loaded = proc[b].loaded
    BY <2>2, <2>3 DEF Processes
  <2>. QED
    BY <2>4 DEF Own, At, Program
<1>7. CASE CacheMiss(b) \/ EditManifest(b) \/ UneditFails(b)
  <2>1. proc'[b].pc \in {"edit", "compile", "drop"} /\ proc'[b].result = proc[b].result
    BY <1>0, <1>7 DEF CacheMiss, EditManifest, UneditFails, Goto, Processes
  <2>. QED
    BY <1>1, <1>7, <2>1 DEF CacheMiss, EditManifest, UneditFails, Own, At
<1>8. CASE Compile(b)
  <2>0. proc[b].result # "ok"
    BY <1>8 DEF Compile, Own, At
  <2>1. CASE b \in Direct
    <3>1. /\ proc'[b].pc = "unedit" /\ proc'[b].got = Program(b)
          /\ proc'[b].snap = proc[b].snap /\ proc'[b].entry = proc[b].entry
          /\ proc'[b].loaded = proc[b].loaded /\ proc'[b].result = proc[b].result
          /\ out'[OutOf[b]] = Program(b)
      BY <1>0, <1>8, <2>1 DEF Compile, Processes
    <3>. QED
      BY <2>0, <3>1 DEF Own, Delivered, At, Program
  <2>2. CASE b \notin Direct
    <3>1. proc'[b].pc = "unedit" /\ proc'[b].result = proc[b].result
      BY <1>0, <1>8, <2>2 DEF Compile, Goto, Processes
    <3>. QED
      BY <2>0, <2>2, <3>1 DEF Own, At
  <2>. QED
    BY <2>1, <2>2
<1>9. CASE CompileFails(b)
  <2>1. proc'[b].pc = "unedit" /\ proc'[b].result = "failed"
    BY <1>0, <1>9 DEF CompileFails, Processes
  <2>. QED
    BY <2>1 DEF Own, At
<1>10. CASE Unedit(b)
  <2>1. CASE proc[b].result = "failed"
    <3>1. Ended(b, "failed") \in Processes /\ Ended(b, "failed").pc = "done"
          /\ Ended(b, "failed").result = "failed"
      BY EndedType DEF Outcomes
    <3>2. proc'[b].pc = "done" /\ proc'[b].result = "failed"
      BY <1>0, <1>10, <2>1, <3>1 DEF Unedit, Processes
    <3>. QED
      BY <1>1, <3>2
  <2>2. CASE proc[b].result # "failed"
    <3>1. /\ proc'[b].pc = (IF b \in Direct THEN "readback" ELSE "move")
          /\ proc'[b].got = proc[b].got /\ proc'[b].result = proc[b].result
          /\ proc'[b].snap = proc[b].snap /\ proc'[b].entry = proc[b].entry
          /\ proc'[b].loaded = proc[b].loaded /\ out' = out
      BY <1>0, <1>10, <2>2 DEF Unedit, Processes
    <3>2. Program(b)' = Program(b)
      BY <3>1 DEF Program
    <3>. QED
      BY <1>10, <2>2, <3>1, <3>2 DEF Unedit, Own, Delivered, At
  <2>. QED
    BY <2>1, <2>2
<1>11. CASE LoadFails(b) \/ OpenFails(b) \/ Drop(b) \/ DropFails(b) \/ MoveFails(b)
  BY <1>11, <1>a DEF LoadFails, OpenFails, Drop, DropFails, MoveFails
<1>12. CASE Move(b)
  <2>1. /\ proc'[b].pc = "readback" /\ proc'[b].got = Program(b)
        /\ proc'[b].snap = proc[b].snap /\ proc'[b].entry = proc[b].entry
        /\ proc'[b].loaded = proc[b].loaded /\ proc'[b].result = proc[b].result
        /\ out'[OutOf[b]] = Program(b)
    BY <1>0, <1>12 DEF Move, Processes
  <2>2. Program(b)' = Program(b)
    BY <2>1 DEF Program
  <2>. QED
    BY <1>12, <2>1, <2>2 DEF Move, Own, Delivered, At
<1>13. CASE ReadBack(b)
  <2>1. out[OutOf[b]] = Program(b)
    BY <1>13 DEF ReadBack, Own, Delivered
  <2>2. /\ proc'[b].pc = "object" /\ proc'[b].got = Program(b)
        /\ proc'[b].snap = proc[b].snap /\ proc'[b].entry = proc[b].entry
        /\ proc'[b].loaded = proc[b].loaded /\ proc'[b].result = proc[b].result
    BY <1>0, <1>13, <2>1 DEF ReadBack, Processes
  <2>3. Program(b)' = Program(b)
    BY <2>2 DEF Program
  <2>. QED
    BY <1>13, <2>2, <2>3 DEF ReadBack, Own, At
<1>14. CASE PutObject(b)
  <2>1. /\ proc'[b].pc = "meta" /\ proc'[b].got = proc[b].got
        /\ proc'[b].snap = proc[b].snap /\ proc'[b].entry = proc[b].entry
        /\ proc'[b].loaded = proc[b].loaded /\ proc'[b].result = proc[b].result
    BY <1>0, <1>14 DEF PutObject, Goto, Processes
  <2>2. Program(b)' = Program(b)
    BY <2>1 DEF Program
  <2>. QED
    BY <1>14, <2>1, <2>2 DEF PutObject, Own, At
<1>15. CASE SkipPublish(b) \/ PutMeta(b) \/ PutFails(b)
  BY <1>15, <1>b DEF SkipPublish, PutMeta, PutFails, Own, Delivered
<1>16. CASE EditFails(b)
  <2>1. proc'[b].pc = "unedit" /\ proc'[b].result = "failed"
    BY <1>0, <1>16 DEF EditFails, Processes
  <2>. QED
    BY <2>1 DEF Own, At
<1>. QED
  BY <1>2, <1>3, <1>4, <1>5, <1>6, <1>7, <1>8, <1>9, <1>10, <1>11, <1>12, <1>13, <1>14,
     <1>15, <1>16 DEF BuildStep

LEMMA BuildHonest ==
  ASSUME OutsSeparate, TypeOK, Resolved, Locked, Honest, NEW b \in Builds, BuildStep(b)
  PROVE  Honest'
<1>1. \A c \in Builds : Own(c)'
  BY OthersOwn, ItsOwn DEF Honest
<1>2. Published'
  <2>1. CASE PutMeta(b)
    <3>1. proc[b].got = Key(b)
      BY <2>1, ProgramType DEF PutMeta, Honest, Own
    <3>. QED
      BY <2>1, <3>1 DEF PutMeta, With, Honest, Published, TypeOK
  <2>2. CASE ~PutMeta(b)
    <3>1. meta' = meta
      BY <2>2 DEF BuildStep, Probe, Lock, Open, LoadFails, Capture, OpenFails, CacheHit, CacheMiss,
         EditManifest, EditFails, Compile, CompileFails, Unedit, UneditFails, Drop,
         DropFails, Move, MoveFails, ReadBack, SkipPublish, PutObject, PutFails
    <3>. QED
      BY <3>1 DEF Honest, Published
  <2>. QED
    BY <2>1, <2>2
<1>. QED
  BY <1>1, <1>2 DEF Honest

\* The environment only takes artifacts and cache entries away.
LEMMA EnvironmentHonest ==
  ASSUME TypeOK, Honest, Environment
  PROVE  Honest'
<1>1. ASSUME NEW b \in Builds, Crash(b)
      PROVE  Honest'
  <2>1. /\ out' = out /\ meta' = meta
        /\ \A c \in Builds : c # b => proc'[c] = proc[c]
    BY <1>1 DEF Crash, Goto, TypeOK
  <2>2. proc'[b].pc = "killed" /\ proc'[b].result = proc[b].result
    BY <1>1 DEF Crash, Goto, TypeOK, Processes
  <2>3. Own(b)'
    BY <1>1, <2>2 DEF Crash, Honest, Own, At
  <2>4. \A c \in Builds : c # b => Own(c)'
    BY <2>1 DEF Honest, Own, Delivered, Program, At
  <2>. QED
    BY <2>1, <2>3, <2>4 DEF Honest, Published
<1>2. ASSUME proc' = proc, out' = out, meta' = meta
      PROVE  Honest'
  BY <1>2 DEF Honest, Published, Own, Delivered, Program, At
<1>3. ASSUME NEW p \in Projects, Clean(p)
      PROVE  Honest'
  <2>1. proc' = proc /\ \A o \in Outs : out'[o] \in {out[o], None}
    BY <1>3 DEF Clean
  <2>2. \A q \in Projects : meta'[q] = meta[q] \/ DOMAIN meta'[q] = {}
    BY <1>3 DEF Clean, NoObjects, TypeOK
  <2>3. \A b \in Builds : OutOf[b] \in Outs
    BY BuildAssumption
  <2>4. \A b \in Builds : Own(b)'
    BY <2>1, <2>3 DEF Honest, Own, Delivered, Program, At
  <2>. QED
    BY <2>2, <2>4 DEF Honest, Published
<1>. QED
  BY <1>1, <1>2, <1>3 DEF Environment, EditSource, UserEdit, Rot

-----------------------------------------------------------------------------
(***************************************************************************)
(* The theorems.                                                           *)
(***************************************************************************)

LEMMA InitIInv ==
  Init => IInv /\ Honest
<1>. SUFFICES ASSUME Init PROVE IInv /\ Honest
  OBVIOUS
<1>1. /\ TypeOK
      /\ \A b \in Builds : /\ proc[b].pc = "start" /\ proc[b].result = "none"
                           /\ proc[b].orig = Absent /\ DOMAIN proc[b].snap = {}
                           /\ proc[b].atLock = [f \in Files |-> 0]
                           /\ Proj(b) \in Projects
      /\ \A p \in Projects : /\ manifest[p] \in UserManifests \cup {Absent}
                             /\ manifest[p] \in written[p]
                             /\ manifest[p] \in UserManifests => p \notin Standalone
  BY InitType, BuildAssumption DEF Init, Proj, UserManifests
<1>2. Resolved /\ Locked
  BY <1>1 DEF Resolved, Locked, Holding
<1>3. Restorable
  BY <1>1 DEF Restorable, At, Editing
<1>4. Unspoilt
  <2>1. ASSUME NEW p \in Projects
        PROVE  Plain(p, manifest[p])
    BY <1>1, BuildAssumption DEF Plain, UserManifests
  <2>2. ASSUME NEW b \in Builds
        PROVE  Plain(Proj(b), proc[b].orig)
    BY <1>1, BuildAssumption DEF Plain
  <2>. QED
    BY <2>1, <2>2 DEF Unspoilt
<1>5. \A b \in Builds : Alone(b)
  BY <1>1 DEF Alone, At
<1>6. \A b \in Builds : Recent(b)
  BY <1>1 DEF Recent, Init
<1>7. Honest
  BY <1>1 DEF Honest, Published, Own, Delivered, At, Init, NoObjects
<1>8. Costly
  <2>1. \A p \in Standalone : manifest[p] = Absent
    BY BuildAssumption DEF Init
  <2>. QED
    BY <1>1, <2>1, BuildAssumption DEF Costly, Cost, EditPending, Editing
<1>. QED
  BY <1>1, <1>2, <1>3, <1>4, <1>5, <1>6, <1>7, <1>8 DEF IInv

LEMMA NextIInv ==
  IInv /\ [Next]_vars => IInv'
<1>. SUFFICES ASSUME IInv, [Next]_vars PROVE IInv'
  OBVIOUS
<1>1. ASSUME NEW b \in Builds, BuildStep(b)
      PROVE  IInv'
  BY <1>1, BuildType, BuildResolved, BuildLocked, BuildRestorable, BuildUnspoilt, BuildCostly,
     BuildAlone, BuildRecent DEF IInv
<1>2. CASE Environment
  BY <1>2, EnvironmentType, EnvironmentLocked, EnvironmentRestorable, EnvironmentUnspoilt,
     EnvironmentCostly, EnvironmentKeeps DEF IInv
<1>3. CASE UNCHANGED vars
  BY <1>3 DEF vars, IInv, TypeOK, Resolved, Locked, Restorable, Unspoilt, Plain, Costly, Cost,
     TornEdit, EditPending, Alone, Recent, At, Proj, Explicit
<1>. QED
  BY <1>1, <1>2, <1>3 DEF Next

\* The inductive invariant of the build transaction.
THEOREM Invariance == Spec => []IInv
<1>1. Init => IInv
  BY InitIInv
<1>. QED
  BY <1>1, NextIInv, PTL DEF Spec

\* At most one build of a project is between taking the lock and its end,
\* whatever fails and whoever is killed (ProjectBuildLock).
THEOREM MutualExclusion ==
  Spec => [](\A b, c \in Builds :
               Proj(b) = Proj(c) /\ proc[b].pc \in Holding /\ proc[c].pc \in Holding => b = c)
<1>1. IInv => \A b, c \in Builds :
                Proj(b) = Proj(c) /\ proc[b].pc \in Holding /\ proc[c].pc \in Holding => b = c
  BY OneAtATime DEF IInv
<1>. QED
  BY <1>1, Invariance, PTL

\* With no process killed and at most one failed write, Mind.toml is the user's
\* whenever the lock is free (ManifestEdit::replace, restore and Drop).
THEOREM RestoresManifest == Spec => []ManifestRestored
<1>1. IInv => ManifestRestored
  <2>. SUFFICES ASSUME IInv, spent.crashes = 0 /\ spent.faults <= 1,
                       NEW p \in Projects, lock[p] = None
                PROVE  manifest[p] \in written[p]
    BY DEF ManifestRestored
  <2>1. ASSUME NEW b \in Builds, Proj(b) = p, proc[b].pc \in Editing
        PROVE  FALSE
    BY <2>1, BuildAssumption DEF IInv, Locked, Editing, Holding
  <2>. QED
    BY <2>1 DEF IInv, Restorable
<1>. QED
  BY <1>1, Invariance, PTL

\* A named file in a directory without a Mind.toml is compiled alone
\* (open_explicit).
THEOREM CapturesAlone == Spec => []StandaloneScope
<1>1. IInv => StandaloneScope
  BY DEF IInv, Alone, StandaloneScope
<1>. QED
  BY <1>1, Invariance, PTL

\* With no process killed and at most two failing calls, such a build is never
\* refused for a manifest that is not the user's: what another build left behind
\* is read like a manifest, and to tear it or fail to read it takes a third
\* failing call (open_explicit, ManifestEdit).
THEOREM OpensStandalone == Spec => []StandaloneOpens
<1>1. IInv => StandaloneOpens
  BY DEF IInv, Alone, StandaloneOpens
<1>. QED
  BY <1>1, Invariance, PTL

LEMMA HonestInvariance ==
  ASSUME OutsSeparate
  PROVE  Spec => []Honest
<1>1. Init => Honest
  BY InitIInv
<1>2. IInv /\ Honest /\ [Next]_vars => Honest'
  <2>. SUFFICES ASSUME IInv, Honest, [Next]_vars PROVE Honest'
    OBVIOUS
  <2>1. CASE UNCHANGED vars
    BY <2>1 DEF vars, Honest, Published, Own, Delivered, Program, At
  <2>2. CASE Next
    BY <2>2, BuildHonest, EnvironmentHonest DEF Next, IInv
  <2>. QED
    BY <2>1, <2>2
<1>. QED
  BY <1>1, <1>2, Invariance, PTL DEF Spec

\* If builds of different projects write to different paths, a build that
\* reports success delivers the program of sources it captured under the lock,
\* through any number of kills, failed calls, damaged objects, edits and cleans
\* (run_build, cache::probe, write_object).
THEOREM DeliversFresh ==
  ASSUME OutsSeparate
  PROVE  Spec => []ArtifactFresh
<1>1. IInv /\ Honest => ArtifactFresh
  <2>. SUFFICES ASSUME IInv, Honest, NEW b \in Builds, proc[b].result = "ok"
                PROVE  /\ proc[b].got = Program(b)
                       /\ \A f \in DOMAIN proc[b].got.files :
                            proc[b].got.files[f] >= proc[b].atLock[f]
    BY DEF ArtifactFresh
  <2>1. proc[b].got = Program(b) /\ proc[b].got.files = proc[b].snap
    BY ProgramType DEF IInv, Honest, Own
  <2>2. \A f \in DOMAIN proc[b].snap : proc[b].snap[f] \in Nat /\ proc[b].atLock[f] \in Nat
    BY DEF IInv, TypeOK, Processes, Snaps
  <2>. QED
    BY <2>1, <2>2 DEF IInv, Recent
<1>. QED
  BY <1>1, Invariance, HonestInvariance, PTL

\* Under the same condition, what a lookup would restore is what a fresh
\* compile of the captured inputs produces (source_key.rs).
THEOREM CacheStaysHonest ==
  ASSUME OutsSeparate
  PROVE  Spec => []CacheHonest
<1>1. IInv /\ Honest => CacheHonest
  <2>. SUFFICES ASSUME IInv, Honest, NEW b \in Builds, Hit(Proj(b), Key(b))
                PROVE  objects[Proj(b)][Key(b)] = Program(b)
    BY DEF CacheHonest
  <2>1. Key(b) = Program(b) /\ Proj(b) \in Projects
    BY ProgramType, BuildAssumption DEF IInv, Proj
  <2>. QED
    BY <2>1 DEF Hit, Honest, Published
<1>. QED
  BY <1>1, Invariance, HonestInvariance, PTL

-----------------------------------------------------------------------------
(***************************************************************************)
(* That builds end, apart from fair scheduling: the lock is never left     *)
(* behind, whoever waits waits for a build that can go on, and every build *)
(* only goes forward.                                                      *)
(***************************************************************************)

\* The owner of a project's lock is a build of that project, running and in
\* its transaction: no exit path and no kill leaves the lock behind.
OwnerRuns ==
  \A p \in Projects : lock[p] # None =>
    Proj(lock[p]) = p /\ proc[lock[p]].pc \in Holding

\* A build that captures has a file of its scope left to read.
CaptureOpen ==
  \A b \in Builds : At(b, "capture") =>
    /\ DOMAIN proc[b].snap \subseteq Scope(b)
    /\ Scope(b) \ DOMAIN proc[b].snap # {}

\* The guards of a build's steps, those that a fault takes not counted.
CanGo(b) ==
  \/ proc[b].pc \in {"start", "open", "lookup", "edit", "compile", "unedit", "drop", "move",
                     "readback", "object", "meta"}
  \/ At(b, "lock") /\ lock[Proj(b)] = None
  \/ At(b, "capture") /\ Scope(b) \ DOMAIN proc[b].snap # {}

\* A build that has not ended can go on, or waits for the lock while another
\* build of the project holds it and can go on itself.
BuildNeverStuck ==
  \A b \in Builds : proc[b].pc \notin {"done", "killed"} =>
    \/ CanGo(b)
    \/ At(b, "lock") /\ \E a \in Builds :
         a # b /\ Proj(a) = Proj(b) /\ lock[Proj(b)] = a /\ CanGo(a)

\* The order of the labels.
Stage(l) ==
  CASE l = "start" -> 0 [] l = "lock" -> 1 [] l = "open" -> 2 [] l = "capture" -> 3
    [] l = "lookup" -> 4 [] l = "edit" -> 5 [] l = "compile" -> 6 [] l = "unedit" -> 7
    [] l = "drop" -> 8 [] l = "move" -> 9 [] l = "readback" -> 10 [] l = "object" -> 11
    [] l = "meta" -> 12 [] OTHER -> 13

\* A step that moves a build takes it to a later stage, or captures one more
\* file of a scope that stays what it is.
GoesForward(b) ==
  \/ Stage(proc[b].pc) < Stage(proc'[b].pc)
  \/ /\ At(b, "capture") /\ proc'[b].pc = "capture"
     /\ Scope(b)' = Scope(b)
     /\ \E f \in Scope(b) \ DOMAIN proc[b].snap :
          DOMAIN proc'[b].snap = DOMAIN proc[b].snap \cup {f}

Forward == \A b \in Builds : proc'[b] # proc[b] => GoesForward(b)

-----------------------------------------------------------------------------
LEMMA BuildOwner ==
  ASSUME TypeOK, OwnerRuns, NEW b \in Builds, BuildStep(b)
  PROVE  OwnerRuns'
<1>. SUFFICES ASSUME NEW p \in Projects, lock'[p] # None
              PROVE  Proj(lock'[p]) = p /\ proc'[lock'[p]].pc \in Holding
  BY DEF OwnerRuns, Proj
<1>0. Proj(b) \in Projects /\ lock \in [Projects -> Builds \cup {None}] /\ None \notin Builds
  BY BuildAssumption DEF Proj, TypeOK
<1>1. \A c \in Builds : c # b => proc'[c] = proc[c]
  BY BuildFrame
<1>2. CASE Looks(b)
  <2>1. lock'[p] \in Builds /\ lock'[p] = lock[p] /\ lock[p] # b
    BY <1>0, <1>2 DEF Looks, OwnerRuns, At, Holding
  <2>. QED
    BY <1>1, <2>1 DEF OwnerRuns
<1>3. CASE Takes(b)
  <2>0. proc'[b].pc = "open" /\ proc[b].pc = "lock"
    BY <1>3 DEF Takes, At, TypeOK, Processes
  <2>1. CASE p = Proj(b)
    BY <1>0, <1>3, <2>0, <2>1 DEF Takes, Holding
  <2>2. CASE p # Proj(b)
    <3>1. lock'[p] \in Builds /\ lock'[p] = lock[p]
      BY <1>0, <1>3, <2>2 DEF Takes
    <3>2. lock[p] # b
      BY <2>0, <3>1 DEF OwnerRuns, Holding
    <3>. QED
      BY <1>1, <3>1, <3>2 DEF OwnerRuns
  <2>. QED
    BY <2>1, <2>2
<1>4. CASE Opens(b) \/ Continues(b)
  <2>1. lock'[p] \in Builds /\ lock'[p] = lock[p] /\ proc'[b].pc \in Holding
    BY <1>0, <1>4 DEF Opens, Continues, Holding
  <2>. QED
    BY <1>1, <2>1 DEF OwnerRuns
<1>5. CASE Leaves(b)
  <2>1. lock' = [lock EXCEPT ![Proj(b)] = IF @ = b THEN None ELSE @]
    BY <1>5 DEF Leaves, Released
  <2>2. lock'[p] \in Builds /\ lock'[p] = lock[p] /\ (p = Proj(b) => lock[p] # b)
    BY <1>0, <2>1
  <2>3. lock[p] # b
    BY <2>2 DEF OwnerRuns
  <2>. QED
    BY <1>1, <2>2, <2>3 DEF OwnerRuns
<1>. QED
  BY <1>2, <1>3, <1>4, <1>5, BuildMoves

LEMMA EnvironmentOwner ==
  ASSUME TypeOK, OwnerRuns, Environment
  PROVE  OwnerRuns'
<1>1. ASSUME NEW b \in Builds, Crash(b)
      PROVE  OwnerRuns'
  <2>. SUFFICES ASSUME NEW p \in Projects, lock'[p] # None
                PROVE  Proj(lock'[p]) = p /\ proc'[lock'[p]].pc \in Holding
    BY DEF OwnerRuns, Proj
  <2>0. Proj(b) \in Projects /\ lock \in [Projects -> Builds \cup {None}]
    BY BuildAssumption DEF Proj, TypeOK
  <2>1. lock' = [lock EXCEPT ![Proj(b)] = IF @ = b THEN None ELSE @]
    BY <1>1 DEF Crash, Released
  <2>2. lock'[p] \in Builds /\ lock'[p] = lock[p] /\ (p = Proj(b) => lock[p] # b)
    BY <2>0, <2>1
  <2>3. lock[p] # b
    BY <2>2 DEF OwnerRuns
  <2>4. \A c \in Builds : c # b => proc'[c] = proc[c]
    BY <1>1 DEF Crash, Goto, TypeOK
  <2>. QED
    BY <2>2, <2>3, <2>4 DEF OwnerRuns
<1>2. ASSUME proc' = proc, lock' = lock
      PROVE  OwnerRuns'
  BY <1>2 DEF OwnerRuns, Proj
<1>. QED
  BY <1>1, <1>2 DEF Environment, EditSource, UserEdit, Rot, Clean

\* Of a build that captures: one more file, or all of them.
LEMMA CaptureGrows ==
  ASSUME TypeOK, NEW b \in Builds, Capture(b)
  PROVE  /\ Scope(b)' = Scope(b) /\ At(b, "capture")
         /\ \E f \in Scope(b) \ DOMAIN proc[b].snap :
              /\ DOMAIN proc'[b].snap = DOMAIN proc[b].snap \cup {f}
              /\ proc'[b].pc = IF DOMAIN proc'[b].snap = Scope(b) THEN "lookup" ELSE "capture"
<1>0. proc[b] \in Processes
  BY DEF TypeOK
<1>1. PICK f \in Scope(b) \ DOMAIN proc[b].snap :
        LET old == proc[b].snap
            new == [g \in DOMAIN old \cup {f} |->
                      IF g = f THEN version[Proj(b)][f] ELSE old[g]]
        IN  proc' = [proc EXCEPT ![b].snap = new,
                                 ![b].pc = IF DOMAIN new = Scope(b) THEN "lookup" ELSE @]
  BY DEF Capture
<1>2. proc'[b].entry = proc[b].entry /\ proc'[b].single = proc[b].single
  BY <1>0, <1>1 DEF TypeOK, Processes
<1>3. Scope(b)' = Scope(b)
  BY <1>2 DEF Scope
<1>4. /\ DOMAIN proc'[b].snap = DOMAIN proc[b].snap \cup {f}
      /\ proc'[b].pc = IF DOMAIN proc'[b].snap = Scope(b) THEN "lookup" ELSE "capture"
  BY <1>0, <1>1 DEF TypeOK, Processes, Capture, At
<1>. QED
  BY <1>3, <1>4 DEF Capture

\* No other step inside the transaction leads to a capture.
LEMMA OnlyCaptureStays ==
  ASSUME TypeOK, NEW b \in Builds, BuildStep(b), Continues(b), ~Capture(b)
  PROVE  proc'[b].pc # "capture"
<1>. USE DEF TypeOK
<1>0. proc[b] \in Processes
  OBVIOUS
<1>1. CASE CacheMiss(b) \/ EditManifest(b) \/ EditFails(b) \/ CompileFails(b)
           \/ UneditFails(b) \/ Move(b) \/ ReadBack(b) \/ PutObject(b)
  BY <1>0, <1>1 DEF CacheMiss, EditManifest, EditFails, CompileFails, UneditFails, Move,
       ReadBack, PutObject, Goto, Processes
<1>2. CASE Compile(b)
  BY <1>0, <1>2 DEF Compile, Goto, Processes
<1>3. CASE Unedit(b)
  <2>1. CASE proc[b].result = "failed"
    <3>1. Ended(b, "failed") \in Processes /\ Ended(b, "failed").pc = "done"
      BY EndedType DEF Outcomes
    <3>. QED
      BY <1>3, <2>1, <3>1 DEF Unedit, Processes
  <2>2. CASE proc[b].result # "failed"
    BY <1>0, <1>3, <2>2 DEF Unedit, Processes
  <2>. QED
    BY <2>1, <2>2
<1>4. CASE CacheHit(b) \/ Probe(b) \/ Lock(b) \/ Open(b)
  <2>1. CASE Probe(b) \/ Lock(b) \/ Open(b)
    BY <2>1 DEF Probe, Lock, Open, Continues, Holding, At
  <2>2. CASE CacheHit(b)
    BY <1>0, <2>2, EndedType DEF CacheHit, Processes, Outcomes
  <2>. QED
    BY <1>4, <2>1, <2>2
<1>5. ASSUME NEW res \in Outcomes, Finish(b, res)
      PROVE  proc'[b].pc = "done"
  BY <1>5, EndedType DEF Finish
<1>6. CASE LoadFails(b) \/ OpenFails(b) \/ Drop(b) \/ DropFails(b) \/ MoveFails(b)
           \/ SkipPublish(b) \/ PutMeta(b) \/ PutFails(b)
  BY <1>6, <1>5 DEF LoadFails, OpenFails, Drop, DropFails, MoveFails, SkipPublish,
       PutMeta, PutFails, Outcomes
<1>. QED
  BY <1>1, <1>2, <1>3, <1>4, <1>6 DEF BuildStep

LEMMA BuildCapture ==
  ASSUME IInv, IInv', CaptureOpen, NEW b \in Builds, BuildStep(b)
  PROVE  CaptureOpen'
<1>. SUFFICES ASSUME NEW c \in Builds, proc'[c].pc = "capture"
              PROVE  /\ DOMAIN proc'[c].snap \subseteq Scope(c)'
                     /\ Scope(c)' \ DOMAIN proc'[c].snap # {}
  BY DEF CaptureOpen, At
<1>. USE DEF IInv
<1>1. CASE c # b
  <2>1. proc'[c] = proc[c]
    BY <1>1, BuildFrame
  <2>2. Scope(c)' = Scope(c)
    BY <2>1 DEF Scope
  <2>. QED
    BY <2>1, <2>2 DEF CaptureOpen, At
<1>2. CASE c = b /\ Opens(b)
  <2>1. DOMAIN proc'[b].snap = {}
    BY <1>2 DEF Opens, Recent, At
  <2>2. proc'[b].entry \in Files
    BY <1>2 DEF Opens, Resolved, Holding
  <2>3. proc'[b].entry \in Scope(b)'
    BY <2>2 DEF Scope
  <2>. QED
    BY <1>2, <2>1, <2>3
<1>3. CASE c = b /\ Capture(b)
  <2>1. Scope(b)' = Scope(b) /\ DOMAIN proc[b].snap \subseteq Scope(b)
    BY <1>3, CaptureGrows DEF CaptureOpen
  <2>2. PICK f \in Scope(b) \ DOMAIN proc[b].snap :
          /\ DOMAIN proc'[b].snap = DOMAIN proc[b].snap \cup {f}
          /\ proc'[b].pc = IF DOMAIN proc'[b].snap = Scope(b) THEN "lookup" ELSE "capture"
    BY <1>3, CaptureGrows
  <2>3. DOMAIN proc'[b].snap \subseteq Scope(b) /\ DOMAIN proc'[b].snap # Scope(b)
    BY <1>3, <2>1, <2>2
  <2>. QED
    BY <1>3, <2>1, <2>3
<1>4. CASE c = b /\ ~Opens(b) /\ ~Capture(b)
  <2>1. Continues(b)
    <3>1. proc'[b].pc = "capture"
      BY <1>4
    <3>2. ~Looks(b) /\ ~Leaves(b)
      BY <3>1 DEF Looks, Leaves
    <3>3. ~Takes(b)
      BY <3>1 DEF Takes, TypeOK, Processes
    <3>. QED
      BY <1>4, <3>2, <3>3, BuildMoves
  <2>. QED
    BY <1>4, <2>1, OnlyCaptureStays
<1>. QED
  BY <1>1, <1>2, <1>3, <1>4

LEMMA EnvironmentCapture ==
  ASSUME TypeOK, CaptureOpen, Environment
  PROVE  CaptureOpen'
<1>1. ASSUME NEW b \in Builds, Crash(b)
      PROVE  CaptureOpen'
  <2>. SUFFICES ASSUME NEW c \in Builds, proc'[c].pc = "capture"
                PROVE  proc'[c] = proc[c]
    BY DEF CaptureOpen, At, Scope
  <2>. QED
    BY <1>1 DEF Crash, Goto, TypeOK, Processes
<1>2. ASSUME proc' = proc
      PROVE  CaptureOpen'
  BY <1>2 DEF CaptureOpen, At, Scope
<1>. QED
  BY <1>1, <1>2 DEF Environment, EditSource, UserEdit, Rot, Clean

LEMMA OwnerInvariance == Spec => [](IInv /\ OwnerRuns /\ CaptureOpen)
<1>1. Init => OwnerRuns /\ CaptureOpen
  BY DEF Init, OwnerRuns, CaptureOpen, At
<1>2. IInv /\ IInv' /\ OwnerRuns /\ CaptureOpen /\ [Next]_vars => OwnerRuns' /\ CaptureOpen'
  <2>1. UNCHANGED vars /\ OwnerRuns /\ CaptureOpen => OwnerRuns' /\ CaptureOpen'
    BY DEF vars, OwnerRuns, CaptureOpen, At, Scope, Proj
  <2>2. IInv => TypeOK
    BY DEF IInv
  <2>. QED
    BY <2>1, <2>2, BuildOwner, EnvironmentOwner, BuildCapture, EnvironmentCapture DEF Next
<1>. QED
  BY <1>1, <1>2, Invariance, PTL DEF Spec

\* The lock of a project is free or belongs to a build of that project that is
\* running and in its transaction, whatever failed and whoever was killed
\* (ProjectBuildLock and its drop; the kernel's release of a flock).
THEOREM LockNeverOrphaned == Spec => []OwnerRuns
  BY OwnerInvariance, PTL

\* Builds do not block one another for good: each can go on or waits for one
\* that can (ProjectBuildLock::acquire, SourceSnapshot::capture).
THEOREM BuildsGoOn == Spec => []BuildNeverStuck
<1>1. IInv /\ OwnerRuns /\ CaptureOpen => BuildNeverStuck
  <2>. SUFFICES ASSUME IInv, OwnerRuns, CaptureOpen,
                       NEW b \in Builds, proc[b].pc \notin {"done", "killed"}, ~CanGo(b)
                PROVE  At(b, "lock") /\ \E a \in Builds :
                         a # b /\ Proj(a) = Proj(b) /\ lock[Proj(b)] = a /\ CanGo(a)
    BY DEF BuildNeverStuck
  <2>1. proc[b].pc \in Labels
    BY DEF IInv, TypeOK, Processes
  <2>2. At(b, "lock") /\ lock[Proj(b)] # None
    BY <2>1 DEF CanGo, Labels, CaptureOpen, At
  <2>3. Proj(b) \in Projects /\ lock[Proj(b)] \in Builds
    BY <2>2, BuildAssumption DEF Proj, IInv, TypeOK
  <2>. DEFINE a == lock[Proj(b)]
  <2>4. a \in Builds /\ Proj(a) = Proj(b) /\ proc[a].pc \in Holding
    BY <2>2, <2>3 DEF OwnerRuns
  <2>5. a # b
    BY <2>2, <2>4 DEF At, Holding
  <2>6. CanGo(a)
    BY <2>4 DEF CanGo, Holding, CaptureOpen, At
  <2>. QED
    BY <2>2, <2>4, <2>5, <2>6
<1>. QED
  BY <1>1, OwnerInvariance, PTL

-----------------------------------------------------------------------------
LEMMA BuildForward ==
  ASSUME TypeOK, NEW b \in Builds, BuildStep(b)
  PROVE  GoesForward(b)
<1>. USE DEF TypeOK, At
<1>0. proc[b] \in Processes
  OBVIOUS
<1>a. ASSUME NEW res \in Outcomes, Finish(b, res)
      PROVE  proc'[b].pc = "done"
  BY <1>a, EndedType DEF Finish
<1>1. CASE Probe(b)
  BY <1>0, <1>1 DEF Probe, GoesForward, Stage, Processes, Ended
<1>2. CASE Lock(b)
  BY <1>0, <1>2 DEF Lock, GoesForward, Stage, Processes
<1>3. CASE Open(b)
  <2>1. ASSUME NEW m, NEW single, Begin(b, m, single)
        PROVE  proc'[b].pc = "capture"
    BY <1>0, <2>1 DEF Begin, Processes
  <2>2. proc'[b].pc \in {"capture", "done"} /\ proc[b].pc = "open"
    BY <1>3, <1>a, <2>1 DEF Open, Outcomes
  <2>. QED
    BY <2>2 DEF GoesForward, Stage
<1>4. CASE Capture(b)
  <2>1. proc[b].pc = "capture"
    BY <1>4 DEF Capture
  <2>. QED
    BY <1>4, <2>1, CaptureGrows DEF GoesForward, Stage
<1>5. CASE CacheHit(b)
  BY <1>0, <1>5 DEF CacheHit, GoesForward, Stage, Ended, Processes
<1>6. CASE CacheMiss(b) \/ EditManifest(b) \/ EditFails(b) \/ CompileFails(b)
           \/ UneditFails(b) \/ Move(b) \/ ReadBack(b) \/ PutObject(b)
  BY <1>0, <1>6 DEF CacheMiss, EditManifest, EditFails, CompileFails, UneditFails, Move,
       ReadBack, PutObject, Goto, GoesForward, Stage, Processes
<1>7. CASE Compile(b)
  BY <1>0, <1>7 DEF Compile, Goto, GoesForward, Stage, Processes
<1>8. CASE Unedit(b)
  <2>1. CASE proc[b].result = "failed"
    <3>1. Ended(b, "failed") \in Processes /\ Ended(b, "failed").pc = "done"
      BY EndedType DEF Outcomes
    <3>2. proc'[b].pc = "done"
      BY <1>8, <2>1, <3>1 DEF Unedit, Processes
    <3>. QED
      BY <1>8, <3>2 DEF Unedit, GoesForward, Stage
  <2>2. CASE proc[b].result # "failed"
    BY <1>0, <1>8, <2>2 DEF Unedit, GoesForward, Stage, Processes
  <2>. QED
    BY <2>1, <2>2
<1>9. CASE LoadFails(b) \/ OpenFails(b) \/ Drop(b) \/ DropFails(b) \/ MoveFails(b)
           \/ SkipPublish(b) \/ PutMeta(b) \/ PutFails(b)
  <2>1. proc'[b].pc = "done"
    BY <1>9, <1>a DEF LoadFails, OpenFails, Drop, DropFails, MoveFails, SkipPublish,
       PutMeta, PutFails, Outcomes
  <2>2. proc[b].pc \in {"lock", "open", "capture", "edit", "drop", "move", "readback", "object",
                        "meta"}
    BY <1>9 DEF LoadFails, OpenFails, Drop, DropFails, MoveFails, SkipPublish, PutMeta, PutFails
  <2>. QED
    BY <2>1, <2>2 DEF GoesForward, Stage
<1>. QED
  BY <1>1, <1>2, <1>3, <1>4, <1>5, <1>6, <1>7, <1>8, <1>9 DEF BuildStep

\* A build only goes forward, whatever fails, whoever is killed and whatever is
\* edited or cleaned meanwhile: it has no loop but the capture of its files,
\* and that one reads a new file each time (run_build, SourceSnapshot::capture).
THEOREM BuildsGoForward == Spec => [][Forward]_vars
<1>1. TypeOK /\ Next => Forward
  <2>. SUFFICES ASSUME TypeOK, Next, NEW c \in Builds, proc'[c] # proc[c] PROVE GoesForward(c)
    BY DEF Forward
  <2>1. ASSUME NEW b \in Builds, BuildStep(b) PROVE GoesForward(c)
    <3>1. c = b
      BY <2>1, BuildFrame
    <3>. QED
      BY <2>1, <3>1, BuildForward
  <2>2. ASSUME NEW b \in Builds, Crash(b) PROVE GoesForward(c)
    <3>1. c = b
      BY <2>2 DEF Crash, Goto, TypeOK
    <3>2. proc'[b].pc = "killed" /\ proc[b].pc \in Labels \ {"start", "done", "killed"}
      BY <2>2 DEF Crash, Goto, TypeOK, Processes
    <3>. QED
      BY <3>1, <3>2 DEF GoesForward, Stage, Labels
  <2>3. CASE Environment /\ ~\E b \in Builds : Crash(b)
    BY <2>3 DEF Environment, EditSource, UserEdit, Rot, Clean
  <2>. QED
    BY <2>1, <2>2, <2>3 DEF Next
<1>2. IInv /\ [Next]_vars => [Forward]_vars
  BY <1>1 DEF IInv
<1>. QED
  BY <1>2, Invariance, PTL DEF Spec
=============================================================================
