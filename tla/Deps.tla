-------------------------------- MODULE Deps --------------------------------
(***************************************************************************)
(* Dependencies (src/src/deps/mod.rs): `mindc lock`, `fetch` and           *)
(* `clean --cache` over Mind.lock and the cache of git trees, which all    *)
(* projects and processes share without a lock.  A tree is the set of its  *)
(* files; what they hold follows from dependency and revision, and a hash  *)
(* is equal when the tree is.  git is external: a clone gives the revision *)
(* asked for or fails.                                                     *)
(***************************************************************************)
EXTENDS Integers, Sequences, SequencesExt, FiniteSets

CONSTANTS
    Deps,           \* all dependencies, sorted by name
    Git,            \* those of them that come from git; the others are paths
    Files,          \* the files of a tree
    Procs,          \* processes
    MaxRev,         \* bound: revisions of a dependency
    MaxCommands,    \* bound: commands started
    Missing, Torn   \* no such directory or file; a file half written

Names == ToSet(Deps)
Revs  == 1 .. MaxRev
Pins  == UNION {[D -> Revs] : D \in SUBSET Names}     \* what Mind.lock may hold

ASSUME DepsAssumption ==
    /\ Deps \in Seq(Names) /\ Git \subseteq Names
    /\ MaxRev \in Nat \ {0} /\ MaxCommands \in Nat
    /\ IsFiniteSet(Files) /\ Missing # Torn
    /\ Missing \notin Pins /\ Torn \notin Pins
    /\ \A tree \in SUBSET Files : Missing # tree

VARIABLES
    current,    \* the revision of each tree: head of the branch, or the folder
    wanted,     \* the dependencies Mind.toml names
    lockfile,   \* Mind.lock: revisions by name, Missing or Torn
    cache,      \* the directory of each git dependency and revision
    run,        \* what each process is doing
    started,    \* commands started so far
    last,       \* history: the last command that ended with success, if it ran
                \*   alone and nothing was edited since
    broken      \* history: staging or removal was interrupted, or fetch or clean
                \*   removed a directory beside another command

depsVars == <<current, wanted, lockfile, cache, run, started, last, broken>>

NoLock   == [d \in {} |-> 0]
Commands == {"lock", "check", "relock", "fetch", "update", "clean"}
Locks    == {"lock", "check", "relock"}

Idle == [cmd |-> "none", at |-> "idle", todo |-> {}, entries |-> NoLock,
         rev |-> 1, left |-> {}, alone |-> FALSE]

DepsInit ==
    /\ current = [d \in Names |-> 1] /\ wanted \in {Names, Names \ Git}
    /\ lockfile = Missing
    /\ cache = [d \in Git |-> [r \in Revs |-> Missing]]
    /\ run = [p \in Procs |-> Idle]
    /\ started = 0 /\ last = "none" /\ broken = FALSE

-----------------------------------------------------------------------------
\* The first of a set of dependencies, in the order of their names.
First(todo) ==
    Deps[CHOOSE i \in DOMAIN Deps : Deps[i] \in todo /\ \A j \in 1 .. i - 1 : Deps[j] \notin todo]

Busy(p)    == run[p].at # "idle"
Quiet      == \A p \in Procs : ~Busy(p)
Dep(p)     == First(run[p].todo)
Tree(p)    == cache[Dep(p)][run[p].rev]
Go(p, new) == run' = [run EXCEPT ![p] = new]

\* fetch and clean may remove directories; lock must not.
Removes(p) == run[p].cmd \notin Locks

\* No process that runs has the project for itself any more.
Disturbed == [q \in Procs |-> [run[q] EXCEPT !.alone = FALSE]]

\* The process ends: with success, or with an error or because it was killed.
Ends(p, ok) ==
    /\ Go(p, Idle)
    /\ last' = IF ok /\ run[p].alone THEN run[p].cmd ELSE last

\* The rest of the loop after the dependency at hand.
Further(p) == [run[p] EXCEPT !.at = "next", !.todo = @ \ {Dep(p)}]

InTree(p, files) == cache' = [cache EXCEPT ![Dep(p)][run[p].rev] = files]

\* Mutant: what was locked before is never dropped.
KeptAll(c, pkg) == IF lockfile \in {Missing, Torn} THEN NoLock ELSE lockfile

\* lock --update pkg keeps the entries of the others, as far as there are any.
Kept(c, pkg) ==
    IF c # "relock" \/ lockfile \in {Missing, Torn} THEN NoLock
    ELSE [d \in (DOMAIN lockfile \cap wanted) \ {pkg} |-> lockfile[d]]

\* The dependencies a command goes through.
Todo(c, kept) == IF c \in Locks THEN wanted \ DOMAIN kept ELSE Git \cap DOMAIN kept

\* The entries, and one more or another one for the dependency.
With(pins, d, r) == [e \in DOMAIN pins \cup {d} |-> IF e = d THEN r ELSE pins[e]]

\* A command begins: lock reads the manifest, the others read Mind.lock and
\* do nothing without one.
Start(p, c, pkg) ==
    LET kept == IF c \in Locks THEN Kept(c, pkg) ELSE lockfile
        may  == c \in Locks \/ lockfile \notin {Missing, Torn}
    IN  /\ ~Busy(p) /\ started < MaxCommands
        /\ started' = started + 1
        /\ IF may
           THEN run' = [Disturbed EXCEPT ![p] =
                          [Idle EXCEPT !.cmd = c, !.at = "next", !.entries = kept,
                                       !.todo = Todo(c, kept), !.alone = Quiet]]
           ELSE run' = run
        /\ broken' = (broken \/ (may /\ \E q \in Procs : run[q].at = "remove" /\ Removes(q)))
        /\ last' = "none"
        /\ UNCHANGED <<current, wanted, lockfile, cache>>

\* A path dependency is hashed where it is.
ResolvePath(p) ==
    /\ run[p].at = "next" /\ run[p].todo # {} /\ Dep(p) \notin Git
    /\ Go(p, [Further(p) EXCEPT !.entries = With(@, Dep(p), current[Dep(p)])])
    /\ UNCHANGED <<current, wanted, lockfile, cache, started, last, broken>>

\* Mutant: a directory that exists is always good enough.
SkipsAny(c, dir) == dir # Missing

\* run_fetch leaves a directory alone that exists, unless told otherwise.
Skips(c, dir) == c = "fetch" /\ dir # Missing

\* Clone the branch (lock) or the revision locked (fetch), or pick the
\* directory to clean.
BeginGit(p) ==
    LET c == run[p].cmd
        r == IF c \in Locks THEN current[Dep(p)] ELSE run[p].entries[Dep(p)]
        dir == cache[Dep(p)][r]
    IN  /\ run[p].at = "next" /\ run[p].todo # {} /\ Dep(p) \in Git
        /\ \/ Skips(c, dir) /\ Go(p, Further(p)) /\ UNCHANGED last
           \/ /\ ~Skips(c, dir)
              /\ Go(p, [run[p] EXCEPT !.rev = r,
                                      !.at = IF c \in Locks THEN "stage" ELSE "replace"])
              /\ UNCHANGED last
           \/ ~Skips(c, dir) /\ c # "clean" /\ Ends(p, FALSE)
        /\ UNCHANGED <<current, wanted, lockfile, cache, started, broken>>

Resolved(p) == [Further(p) EXCEPT !.entries = With(@, Dep(p), run[p].rev)]

\* Mutant: lock replaces what is there, as fetch --update does.
StageNextReplace(p) == [run[p] EXCEPT !.at = "replace"]

\* resolve_git_dep stages the clone unless the directory exists.
StageNext(p) ==
    IF Tree(p) # Missing THEN Resolved(p) ELSE [run[p] EXCEPT !.at = "create"]

Stage(p) ==
    /\ run[p].at = "stage" /\ Go(p, StageNext(p))
    /\ UNCHANGED <<current, wanted, lockfile, cache, started, last, broken>>

\* remove_dir_all lists what there is, if the directory exists.  For a plain
\* fetch it may exist by now.
Replace(p) ==
    /\ run[p].at = "replace"
    /\ Go(p, IF Tree(p) # Missing THEN [run[p] EXCEPT !.at = "remove", !.left = Tree(p)]
             ELSE IF run[p].cmd = "clean" THEN Further(p)
             ELSE [run[p] EXCEPT !.at = "create"])
    /\ broken' = (broken \/ (Removes(p) /\ Tree(p) # Missing
                            /\ \E q \in Procs \ {p} : Busy(q)))
    /\ UNCHANGED <<current, wanted, lockfile, cache, started, last>>

RemoveFile(p) ==
    /\ run[p].at = "remove"
    /\ \E f \in run[p].left :
         /\ InTree(p, IF Tree(p) = Missing THEN Missing ELSE Tree(p) \ {f})
         /\ Go(p, [run[p] EXCEPT !.left = @ \ {f}])
    /\ UNCHANGED <<current, wanted, lockfile, started, last, broken>>

\* The directory itself, which must be there and empty.  clean ignores errors.
RemoveDir(p) ==
    /\ run[p].at = "remove" /\ run[p].left = {}
    /\ IF Tree(p) = {} THEN InTree(p, Missing) ELSE UNCHANGED cache
    /\ IF run[p].cmd = "clean" THEN Go(p, Further(p)) /\ UNCHANGED last
       ELSE IF Tree(p) = {} THEN Go(p, [run[p] EXCEPT !.at = "create"]) /\ UNCHANGED last
       ELSE Ends(p, FALSE)
    /\ UNCHANGED <<current, wanted, lockfile, started, broken>>

Create(p) ==
    /\ run[p].at = "create"
    /\ InTree(p, IF Tree(p) = Missing THEN {} ELSE Tree(p))
    /\ Go(p, [run[p] EXCEPT !.at = "copy", !.left = Files])
    /\ UNCHANGED <<current, wanted, lockfile, started, last, broken>>

\* copy_dir_all, a file at a time.  It fails if the directory is gone, and
\* may fail for other reasons.
CopyFile(p) ==
    /\ run[p].at = "copy"
    /\ \/ /\ Tree(p) # Missing
          /\ \E f \in run[p].left : /\ InTree(p, Tree(p) \cup {f})
                                    /\ Go(p, [run[p] EXCEPT !.left = @ \ {f}])
          /\ UNCHANGED <<last, broken>>
       \/ run[p].left # {} /\ Ends(p, FALSE) /\ broken' = TRUE /\ UNCHANGED cache
    /\ UNCHANGED <<current, wanted, lockfile, started>>

\* The tree hash is written beside the tree, and the next dependency is due.
Staged(p) ==
    /\ run[p].at = "copy" /\ run[p].left = {}
    /\ IF Tree(p) = Missing THEN Ends(p, FALSE)
       ELSE /\ Go(p, IF run[p].cmd \in Locks THEN Resolved(p) ELSE Further(p))
            /\ UNCHANGED last
    /\ UNCHANGED <<current, wanted, lockfile, cache, started, broken>>

\* fs::write truncates Mind.lock and then writes it.
BeginWrite(p) ==
    /\ run[p].at = "next" /\ run[p].todo = {} /\ run[p].cmd \in {"lock", "relock"}
    /\ lockfile' = Torn
    /\ Go(p, [run[p] EXCEPT !.at = "write"])
    /\ UNCHANGED <<current, wanted, cache, started, last, broken>>

EndWrite(p) ==
    /\ run[p].at = "write"
    /\ lockfile' = run[p].entries
    /\ Ends(p, TRUE)
    /\ UNCHANGED <<current, wanted, cache, started, broken>>

\* fetch and clean are through; lock --check compares.
Finish(p) ==
    /\ run[p].at = "next" /\ run[p].todo = {} /\ run[p].cmd \notin {"lock", "relock"}
    /\ Ends(p, run[p].cmd = "check" => lockfile = run[p].entries)
    /\ UNCHANGED <<current, wanted, lockfile, cache, started, broken>>

Kill(p) ==
    /\ Busy(p) /\ Ends(p, FALSE)
    /\ broken' = (broken \/ run[p].at \in {"copy", "remove"})
    /\ UNCHANGED <<current, wanted, lockfile, cache, started>>

\* A commit upstream.
Commit ==
    /\ \E d \in Git : current[d] < MaxRev /\ current' = [current EXCEPT ![d] = @ + 1]
    /\ UNCHANGED <<wanted, lockfile, cache, run, started, last, broken>>

\* An edit in the folder of a path dependency, or of Mind.toml.
Edit ==
    /\ \/ /\ \E d \in Names \ Git :
               current[d] < MaxRev /\ current' = [current EXCEPT ![d] = @ + 1]
          /\ UNCHANGED wanted
       \/ wanted' \in {Names, Names \ Git} \ {wanted} /\ UNCHANGED current
    /\ run' = Disturbed /\ last' = "none"
    /\ UNCHANGED <<lockfile, cache, started, broken>>

Step(p) ==
    \/ \E c \in Commands, d \in Names : Start(p, c, d)
    \/ ResolvePath(p) \/ BeginGit(p) \/ Stage(p) \/ Replace(p) \/ RemoveFile(p)
    \/ RemoveDir(p) \/ Create(p) \/ CopyFile(p) \/ Staged(p)
    \/ BeginWrite(p) \/ EndWrite(p) \/ Finish(p) \/ Kill(p)

DepsNext == (\E p \in Procs : Step(p)) \/ Commit \/ Edit

DepsSpec == DepsInit /\ [][DepsNext]_depsVars

-----------------------------------------------------------------------------
\* verify_entry, for one entry of Mind.lock.
EntryVerdict(d) ==
    IF d \notin Git THEN IF lockfile[d] = current[d] THEN "ok" ELSE "drifted"
    ELSE CASE cache[d][lockfile[d]] = Missing -> "fetch first"
           [] cache[d][lockfile[d]] = Files   -> "ok"
           [] OTHER                           -> "drifted"

\* resolve_and_verify_deps: Mind.lock names what Mind.toml does, and every
\* entry verifies; the first that does not is reported.
Verdict ==
    CASE wanted = {}           -> "ok"
      [] lockfile = Missing    -> "missing"
      [] lockfile = Torn       -> "unreadable"
      [] lockfile \notin {Missing, Torn} /\ DOMAIN lockfile # wanted -> "stale"
      [] OTHER ->
           LET bad == {d \in wanted : EntryVerdict(d) # "ok"}
           IN  IF bad = {} THEN "ok" ELSE EntryVerdict(First(bad))

\* A directory with a part of a tree, which passes for a cached one.
Partial == \E d \in Git, r \in Revs : cache[d][r] \notin {Missing, Files}

\* Any number of processes may lock, fetch, update and clean, and stage the
\* same tree into the same directory: when all have ended, no directory holds
\* a part of a tree.  Excepted are histories in which a copy failed, a copy or
\* a removal was killed, or fetch or clean removed a directory while another
\* command ran.
\* A plain fetch, too, removes a directory that another command began to stage
\* after the fetch had looked for it.
CacheWhole == ~broken /\ Quiet => ~Partial

\* After fetch --update alone, every tree Mind.lock names is whole, whatever
\* was killed, removed or half copied before (run_fetch).
UpdateRepairs ==
    last = "update" =>
        \A d \in Git \cap DOMAIN lockfile : cache[d][lockfile[d]] = Files

\* After `mindc lock` alone the dependencies verify, whatever Mind.lock held
\* before, unless it met a partial directory (run_lock).
LockVerifies == last = "lock" /\ ~Partial => Verdict = "ok"
=============================================================================
