----------------------------- MODULE Dependencies -----------------------------
(***************************************************************************)
(* What may be installed (scripts/check-dependencies.cjs): package.json,   *)
(* its allowlist, the lockfile and the reviewed snapshot of it must agree, *)
(* and the lockfile's flags with the graph of its edges, or the check      *)
(* refuses the commit.  The Dockerfile installs what it accepted with      *)
(* `npm ci --omit=dev --omit=optional`.                                    *)
(*                                                                         *)
(* A commit edits the four files at will, from the reviewed state.  A lock *)
(* path is the names along it; npm, external here, goes by the flags and   *)
(* verifies an integrity where there is one.                               *)
(***************************************************************************)
EXTENDS Naturals, FiniteSets, Sequences, SequencesExt

CONSTANT MaxEdits   \* bound: edits in a commit

VARIABLES
    package,   \* package.json: for each section, how each of its names is declared
    others,    \* what else it or an .npmrc says that changes what is installed
    allowlist, \* the names allowed in each section
    lock,      \* package-lock.json: the entry at each path
    lockRoot,  \* the names in its root's sections
    lines,     \* dependency-snapshot.txt
    edits,     \* edits so far
    checked    \* "no", "accepted" or "refused"

repoVars == <<package, others, allowlist, lock, lockRoot, lines, edits, checked>>

Sections == {"dependencies", "devDependencies"}
Flags    == {"dev", "optional", "devOptional"}
Kinds    == {"plain", "optional", "peer", "optional-peer"}
Mandatory == {"plain", "peer"}

(* What is installed from a release, each in its one section and at its own name's path. *)
Releases == [clerk |-> "dependencies", lint |-> "devDependencies"]
ReleasePaths == {<<name>> : name \in DOMAIN Releases}
Aliases == {[path |-> <<"wide-cjs">>, name |-> "wide", version |-> 1]}

Registry(name, version) == [host |-> "registry", name |-> name, version |-> version]
Released(name, version) == [host |-> "release", name |-> name, version |-> version]
Nowhere404 == [host |-> "none", name |-> "none", version |-> 0]
Edge(to, kind) == [to |-> to, kind |-> kind]

Entry(name, version, resolved, flags, edges) ==
    [name |-> name, version |-> version, resolved |-> resolved, integrity |-> "sha",
     flags |-> flags, link |-> FALSE, edges |-> edges]

-----------------------------------------------------------------------------
(* The snapshot of a lockfile. *)

(* Mutant: devOptional is taken for dev. *)
SectionOfFlagged(entry) == IF entry.flags \cap {"dev", "devOptional"} # {} THEN "dev" ELSE "runtime"

SectionOfEntry(entry) == IF "dev" \in entry.flags THEN "dev" ELSE "runtime"

Key(entry) == <<SectionOfEntry(entry), entry.name, entry.version>>

(* A second copy keeps the first one's integrity; an outer copy comes first. *)
ComputeSnapshot(l) ==
    LET First(k) == CHOOSE p \in DOMAIN l : Key(l[p]) = k /\ \A q \in DOMAIN l : Key(l[q]) = k => Len(p) <= Len(q)
    IN  {[key |-> k, integrity |-> l[First(k)].integrity] : k \in {Key(l[p]) : p \in DOMAIN l}}

SnapshotConflicts(l) ==
    \E p, q \in DOMAIN l : Key(l[p]) = Key(l[q]) /\ l[p].integrity # l[q].integrity

(* A name and version listed twice cannot be parsed. *)
Parses(text) == \A a, b \in text : a.key = b.key => a = b

SnapshotProblems == ~Parses(lines) \/ lines # ComputeSnapshot(lock)

-----------------------------------------------------------------------------
(* The graph of the lockfile. *)
Unresolved == <<>>

(* Node's lookup: nested first, then each parent. *)
ResolveDep(l, from, name) ==
    LET found == {SubSeq(from, 1, k) \o <<name>> : k \in 0..Len(from)} \cap DOMAIN l
    IN  IF found = {} THEN Unresolved ELSE CHOOSE p \in found : \A q \in found : Len(q) <= Len(p)

Resolved(l, from, names) == {ResolveDep(l, from, n) : n \in names} \ {Unresolved}

(* Mutant: peers are left out, as npm did before version 7. *)
FollowedButPeers(entry, kinds) == {e.to : e \in {x \in entry.edges : x.kind \in kinds /\ x.kind # "peer"}}

Followed(entry, kinds) == {e.to : e \in {x \in entry.edges : x.kind \in kinds}}

Reachable(l, names, kinds) ==
    LET after[n \in 0..Cardinality(DOMAIN l)] ==
            IF n = 0 THEN Resolved(l, <<>>, names)
            ELSE after[n - 1] \cup UNION {Resolved(l, p, Followed(l[p], kinds)) : p \in after[n - 1]}
    IN  after[Cardinality(DOMAIN l)]

DevFlagProblems ==
    LET runtime   == Reachable(lock, DOMAIN package["dependencies"], Kinds)
        dev       == Reachable(lock, DOMAIN package["devDependencies"], Kinds)
        mandatory == Reachable(lock, DOMAIN package["dependencies"], Mandatory)
    IN  \E p \in DOMAIN lock :
            LET flags == lock[p].flags IN
            \/ p \in runtime /\ "dev" \in flags
            \/ p \in mandatory /\ flags \cap {"optional", "devOptional"} # {}
            \/ p \notin runtime /\ "dev" \notin flags   \* of dev, or of nothing

-----------------------------------------------------------------------------
(* check(): package.json and each entry of the lockfile. *)
ReleaseOf(name, url) == url.host = "release" /\ url.name = name

Declared(name) ==
    LET section == package[Releases[name]] IN IF name \in DOMAIN section THEN section[name] ELSE Nowhere404

(* express stays on its major version 4. *)
SpecProblem(section, name) ==
    LET spec == package[section][name] IN
    \/ IF name \in DOMAIN Releases THEN section # Releases[name] \/ ~ReleaseOf(name, spec) ELSE spec.host # "registry"
    \/ name = "express" /\ spec.version # 4

PackageProblems ==
    \/ others # {}
    \/ \E s \in Sections :
          \/ DOMAIN package[s] # allowlist[s]
          \/ DOMAIN package[s] # lockRoot[s]
          \/ \E name \in DOMAIN package[s] : SpecProblem(s, name)

AliasProblem(path) ==
    LET entry == lock[path]
        alias == {a \in Aliases : a.path = path}
    IN  IF entry.name # Last(path)
        THEN [path |-> path, name |-> entry.name, version |-> entry.version] \notin Aliases
        ELSE \E a \in alias : a.version # entry.version

(* Mutant: any release of it will do, whatever package.json declares. *)
AnyRelease(path) ==
    LET entry == lock[path] IN ~ReleaseOf(Last(path), entry.resolved) \/ entry.resolved.version # entry.version

ReleaseProblem(path) ==
    LET entry == lock[path] IN
    \/ entry.resolved # Declared(Last(path))
    \/ ~ReleaseOf(Last(path), entry.resolved) \/ entry.resolved.version # entry.version

EntryProblem(path) ==
    LET entry == lock[path] IN
    \/ AliasProblem(path)
    \/ entry.link
    \/ IF path \in ReleasePaths THEN ReleaseProblem(path)
       ELSE entry.resolved # Registry(entry.name, entry.version)
    \/ entry.integrity = "none"

(* `npm run check:deps`. *)
CheckDependencies ==
    /\ checked = "no"
    /\ checked' = IF \/ PackageProblems \/ \E p \in DOMAIN lock : EntryProblem(p)
                     \/ DevFlagProblems \/ SnapshotConflicts(lock) \/ SnapshotProblems
                  THEN "refused" ELSE "accepted"
    /\ UNCHANGED <<package, others, allowlist, lock, lockRoot, lines, edits>>

(* `npm run snapshot:deps`, which writes what the lockfile holds. *)
WriteSnapshot ==
    /\ lines' = ComputeSnapshot(lock)
    /\ UNCHANGED <<package, others, allowlist, lock, lockRoot>>

-----------------------------------------------------------------------------
(* The reviewed repository: express needs long, and clerk as a peer; jest another long, and wide under an alias. *)
ReviewedPackage == [dependencies    |-> [clerk |-> Released("clerk", 1), express |-> Registry("express", 4)],
                    devDependencies |-> [jest |-> Registry("jest", 1), lint |-> Released("lint", 1)]]

ReviewedNames == [s \in Sections |-> DOMAIN ReviewedPackage[s]]

ReviewedLock ==
    [p \in {<<"clerk">>, <<"express">>, <<"long">>, <<"jest">>, <<"lint">>, <<"jest", "long">>, <<"wide-cjs">>} |->
        CASE p = <<"clerk">>    -> Entry("clerk", 1, Released("clerk", 1), {}, {})
          [] p = <<"express">>  -> Entry("express", 4, Registry("express", 4), {}, {Edge("long", "plain"), Edge("clerk", "peer"), Edge("types", "optional-peer")})
          [] p = <<"long">>     -> Entry("long", 1, Registry("long", 1), {}, {})
          [] p = <<"jest">>     -> Entry("jest", 1, Registry("jest", 1), {"dev"}, {Edge("long", "plain"), Edge("wide-cjs", "plain")})
          [] p = <<"lint">>     -> Entry("lint", 1, Released("lint", 1), {"dev"}, {})
          [] p = <<"wide-cjs">> -> Entry("wide", 1, Registry("wide", 1), {"dev"}, {})
          [] OTHER              -> Entry("long", 2, Registry("long", 2), {"dev"}, {})]

RepoInit ==
    /\ package = ReviewedPackage /\ others = {} /\ allowlist = ReviewedNames
    /\ lock = ReviewedLock /\ lockRoot = ReviewedNames /\ lines = ComputeSnapshot(ReviewedLock)
    /\ edits = 0 /\ checked = "no"

Names == {"clerk", "express", "long", "jest", "lint", "wide-cjs"}

(* A table with one entry more, or another one in its place. *)
With(table, key, entry) == [k \in DOMAIN table \cup {key} |-> IF k = key THEN entry ELSE table[k]]

(* The edits of one entry that are tried. *)
EditEntry ==
    \E p \in DOMAIN lock :
        /\ \/ \E flags \in {{}, {"dev"}, {"optional"}, {"devOptional"}, {"dev", "optional"}} :
                  lock' = [lock EXCEPT ![p].flags = flags]
           \/ \E i \in {"other-sha", "none"} : lock' = [lock EXCEPT ![p].integrity = i]
           \/ \E r \in {Released("clerk", 1), Released("clerk", 2), Released("lint", 1), Registry("long", 1), Nowhere404} : lock' = [lock EXCEPT ![p].resolved = r]
           \/ lock' = [lock EXCEPT ![p].link = TRUE]
           \/ \E v \in 1..2 : lock' = [lock EXCEPT ![p].version = v]
           \/ \E n \in Names : lock' = [lock EXCEPT ![p].name = n]
           \/ \E n \in Names, k \in {"plain", "optional", "peer"} : lock' = [lock EXCEPT ![p].edges = @ \cup {Edge(n, k)}]
           \/ \E e \in lock[p].edges : lock' = [lock EXCEPT ![p].edges = @ \ {e}]
        /\ UNCHANGED <<package, others, allowlist, lockRoot, lines>>

(* An entry is dropped, or a copy of one put elsewhere, its bytes perhaps substituted. *)
MoveEntry ==
    /\ \/ \E p \in DOMAIN lock : lock' = [q \in DOMAIN lock \ {p} |-> lock[q]]
       \/ \E p \in DOMAIN lock, q \in {<<n, "long">> : n \in {"express", "clerk"}}, i \in {"sha", "other-sha"} :
              lock' = With(lock, q, [lock[p] EXCEPT !.integrity = i])
    /\ UNCHANGED <<package, others, allowlist, lockRoot, lines>>

EditPackage ==
    /\ \/ \E s \in Sections, n \in Names : \E spec \in {Registry(n, 1), Registry(n, 4), Released("clerk", 2), Released("lint", 1)} :
             /\ package' = [package EXCEPT ![s] = With(@, n, spec)]
             /\ \/ UNCHANGED <<allowlist, lockRoot>>
                \/ /\ allowlist' = [allowlist EXCEPT ![s] = @ \cup {n}]
                   /\ lockRoot' = [lockRoot EXCEPT ![s] = @ \cup {n}]
             /\ UNCHANGED others
       \/ /\ others' = {"overrides"}
          /\ UNCHANGED <<package, allowlist, lockRoot>>
    /\ UNCHANGED <<lock, lines>>

Edit ==
    /\ checked = "no" /\ edits < MaxEdits
    /\ edits' = edits + 1
    /\ EditEntry \/ MoveEntry \/ EditPackage \/ WriteSnapshot
    /\ UNCHANGED checked

RepoNext == Edit \/ CheckDependencies

RepoSpec == RepoInit /\ [][RepoNext]_repoVars

-----------------------------------------------------------------------------
(* npm: what `npm ci` with these --omit flags installs, and whether its bytes are the lockfile's. *)
Installed(omit) ==
    {p \in DOMAIN lock : /\ ~("dev" \in lock[p].flags /\ "dev" \in omit)
                         /\ ~("optional" \in lock[p].flags /\ "optional" \in omit)
                         /\ ~("devOptional" \in lock[p].flags /\ {"dev", "optional"} \subseteq omit)}

Verified(p) ==
    /\ others = {} /\ ~lock[p].link /\ lock[p].integrity # "none"
    /\ p \in ReleasePaths => lock[p].resolved = Declared(Last(p))

Bytes(p) == <<lock[p].name, lock[p].version, IF Verified(p) THEN lock[p].integrity ELSE "unverified">>

(***************************************************************************)
(* "A package that appears here is a package a reviewer saw": a commit     *)
(* that leaves the snapshot as it was, and is accepted, installs with      *)
(* --omit=dev what was reviewed for it, to the byte, however its lockfile  *)
(* was edited.                                                             *)
(***************************************************************************)
OnlyReviewedBytes ==
    checked = "accepted" /\ lines = ComputeSnapshot(ReviewedLock) =>
        {Bytes(p) : p \in Installed({"dev"})} =
            {<<"clerk", 1, "sha">>, <<"express", 4, "sha">>, <<"long", 1, "sha">>}

(***************************************************************************)
(* What an accepted lockfile's flags leave out of the image is not needed  *)
(* there, and what they leave in is: what the Dockerfile installs holds,   *)
(* with package.json's dependencies and with each package, whatever of     *)
(* what it needs the lockfile has an entry for, and nothing that only      *)
(* development needs.  What it has no entry for is skipped by the check,   *)
(* with a rewritten snapshot; with the reviewed one OnlyReviewedBytes says *)
(* that nothing is missing.                                                *)
(***************************************************************************)
OmitDropsNothingNeeded ==
    checked = "accepted" =>
        LET image == Installed({"dev", "optional"})
            Needs(kinds) == [p \in DOMAIN lock |-> {e.to : e \in {x \in lock[p].edges : x.kind \in kinds}}]
            Holds(S, from, names) == \A n \in names : ResolveDep(lock, from, n) \in S \cup {Unresolved}
            Closed(S, kinds) ==
                /\ Holds(S, <<>>, DOMAIN package["dependencies"])
                /\ \A p \in S : Holds(S, p, Needs(kinds)[p])
        IN  /\ \E S \in SUBSET image : Closed(S, Mandatory)
            /\ \A S \in SUBSET DOMAIN lock : Closed(S, Kinds) => image \subseteq S
=============================================================================
