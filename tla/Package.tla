------------------------------ MODULE Package ------------------------------
(***************************************************************************)
(* The life of a package in a bpkg configuration (src/bpkg/bpkg/pkg-fetch, *)
(* pkg-unpack, pkg-checkout, pkg-configure, pkg-disfigure and pkg-purge):  *)
(* every command changes the file system step by step, and then commits    *)
(* the new selected_package to the database.  A step may fail, in which    *)
(* case the command cleans up or declares the package broken, and bpkg may *)
(* be killed between any two steps.                                        *)
(*                                                                         *)
(* One command runs at a time (it holds the database).  A command that is  *)
(* refused by its checks changes nothing and is not a step of the model.   *)
(* The effect of the build system is whether the output directory is       *)
(* configured.                                                             *)
(***************************************************************************)
EXTENDS Naturals, FiniteSets

CONSTANTS
    Names,              \* the packages
    Versions,           \* their versions
    Depends,            \* for a package and version: the dependencies and their good versions
    Archived,           \* the <<package, version>> available from an archive repository
    VersionControlled,  \* and from a version control repository
    Existing,           \* the ones of which the user has an archive and a source directory
    SelfReplace         \* may a package be replaced by what it owns itself?

ASSUME PackageAssumption ==
    /\ Versions \subseteq Nat /\ 0 \notin Versions
    /\ \A n \in Names, v \in Versions : Depends[<<n, v>>] \subseteq Names \X SUBSET Versions
    /\ Archived \cup VersionControlled \cup Existing \subseteq Names \X Versions
    /\ SelfReplace \in BOOLEAN

VARIABLES
    selected,   \* the database: the selected_package of each name
    fs,         \* the files and directories that exist
    configured, \* the output directories that the build system has configured
    cmd,        \* the command in progress
    killed      \* the packages on which bpkg has been killed

vars == <<selected, fs, configured, cmd, killed>>

\* Paths.  Outputs of non-external packages are within the source directory.
None == <<"none">>
Archive(n, v) == <<"archive", n, v>>
SrcDir(n, v) == <<"dir", n, v>>
OutDir(n) == <<"out", n>>
UserArchive(n, v) == <<"user_archive", n, v>>
UserDir(n, v) == <<"user_dir", n, v>>
Repository == <<"repository">>

\* selected_package; transient if it is not in the database.
Transient ==
    [state |-> "transient", version |-> 0, system |-> FALSE, external |-> FALSE,
     archive |-> None, purge_archive |-> FALSE, src_root |-> None, purge_src |-> FALSE, out_root |-> None,
     prerequisites |-> {}]

Idle == [step |-> "idle"]

Init ==
    /\ selected = [n \in Names |-> Transient]
    /\ fs = {Repository} \cup UNION {{UserArchive(e[1], e[2]), UserDir(e[1], e[2])} : e \in Existing}
    /\ configured = {}
    /\ cmd = Idle
    /\ killed = {}

At(step) == cmd.step = step
GoTo(step) == cmd' = [cmd EXCEPT !.step = step]

\* A command on package n begins: the object p it has loaded, the object new
\* that is to be committed, and the path that it is to create, if any.
Begin(step, n, new, path, keep) ==
    /\ At("idle")
    /\ cmd' = [step |-> step, name |-> n, p |-> selected[n], new |-> new, path |-> path,
               arm |-> {}, keep |-> keep]
    /\ UNCHANGED <<selected, fs, configured, killed>>

\* pkg_fetch_check(), pkg_unpack_check(): a package in the way is replaced.
MayReplace(n) == selected[n].state \in {"transient", "fetched", "unpacked"}

\* The dependencies of n/v that are configured with a suitable version, or
\* nothing if one is missing (pkg_configure_prerequisites()).
Satisfied(n, v) ==
    \A d \in Depends[<<n, v>>] :
        selected[d[1]].state = "configured" /\ selected[d[1]].version \in d[2]

-----------------------------------------------------------------------------
(***************************************************************************)
(* The commands.                                                           *)
(***************************************************************************)

\* pkg-fetch --replace <name>/<version>.
Fetch(n, v) ==
    /\ <<n, v>> \in Archived /\ MayReplace(n) /\ Archive(n, v) \notin fs
    /\ Begin("create", n, [Transient EXCEPT !.state = "fetched", !.version = v,
                              !.archive = Archive(n, v), !.purge_archive = TRUE],
             Archive(n, v), FALSE)

\* pkg-fetch --existing --replace [--purge] <file>.
FetchExisting(n, v, a, purge) ==
    /\ MayReplace(n) /\ a \in fs
    /\ SelfReplace \/ ~(selected[n].purge_archive /\ selected[n].archive = a)
    /\ Begin("purge_src", n, [Transient EXCEPT !.state = "fetched", !.version = v,
                                 !.archive = a, !.purge_archive = purge],
             None, FALSE)

\* pkg-unpack <name>.
Unpack(n) ==
    LET p == selected[n]
        d == SrcDir(n, p.version)
    IN  /\ p.state = "fetched" /\ d \notin fs
        /\ Begin("create", n, [p EXCEPT !.state = "unpacked", !.src_root = d, !.purge_src = TRUE],
                 d, TRUE)

\* pkg-unpack --existing --replace [--purge] <dir>.
UnpackExisting(n, v, d, purge) ==
    /\ MayReplace(n) /\ d \in fs
    /\ SelfReplace \/ ~(selected[n].purge_src /\ selected[n].src_root = d)
    /\ Begin("purge_src", n, [Transient EXCEPT !.state = "unpacked", !.version = v,
                                 !.external = TRUE, !.src_root = d, !.purge_src = purge],
             None, FALSE)

\* pkg-checkout --replace <name>/<version>.
Checkout(n, v) ==
    /\ <<n, v>> \in VersionControlled /\ MayReplace(n)
    /\ SrcDir(n, v) \notin fs /\ Repository \in fs
    /\ Begin("checkout", n, [Transient EXCEPT !.state = "unpacked", !.version = v,
                                !.src_root = SrcDir(n, v), !.purge_src = TRUE],
             SrcDir(n, v), FALSE)

OutRoot(n, p) == IF p.external THEN OutDir(n) ELSE SrcDir(n, p.version)

MayConfigure(n) ==
    /\ selected[n].state = "unpacked" /\ selected[n].src_root \in fs
    /\ Satisfied(n, selected[n].version)

\* pkg-configure <name>.
Configure(n) ==
    LET p == selected[n]
    IN  /\ MayConfigure(n)
        /\ Begin("configure", n, [p EXCEPT !.state = "configured", !.out_root = OutRoot(n, p),
                                     !.prerequisites = {d[1] : d \in Depends[<<n, p.version>>]}],
                 None, TRUE)

\* pkg-configure sys:<name>/<version>.
ConfigureSystem(n, v) ==
    /\ <<n, v>> \in Archived \cup VersionControlled /\ selected[n] = Transient
    /\ Begin("commit", n, [Transient EXCEPT !.state = "configured", !.version = v, !.system = TRUE],
             None, TRUE)

\* Mutant: it does not matter what else depends on the package.
HasDependentsNot(n) == FALSE

HasDependents(n) == \E m \in Names : n \in selected[m].prerequisites

\* pkg-disfigure [--keep-out] <name>: back to unpacked, or to nothing if it is
\* a system package.
Disfigure(n, clean) ==
    LET p == selected[n]
    IN  /\ p.state = "configured" /\ ~HasDependents(n)
        /\ IF p.system
           THEN clean /\ Begin("commit", n, Transient, None, TRUE)
           ELSE Begin("disfigure", n, [p EXCEPT !.state = "unpacked", !.out_root = None,
                                          !.prerequisites = {}],
                      None, ~clean)

\* pkg-purge [--keep] <name>.
Purge(n, keep) ==
    LET p == selected[n]
    IN  /\ p.state \in {"fetched", "unpacked"} /\ (keep => p.archive # None)
        /\ Begin("purge_src", n,
                 IF keep THEN [p EXCEPT !.state = "fetched", !.src_root = None, !.purge_src = FALSE]
                         ELSE Transient,
                 None, keep)

\* pkg-purge --force of a broken package: all must have been removed by the user.
PurgeBroken(n) ==
    LET p == selected[n]
    IN  /\ p.state = "broken"
        /\ p.out_root = None \/ p.out_root \notin fs
        /\ ~p.purge_src \/ p.src_root \notin fs
        /\ ~p.purge_archive \/ p.archive \notin fs
        /\ Begin("commit", n, Transient, None, TRUE)

-----------------------------------------------------------------------------
(***************************************************************************)
(* Their steps.                                                            *)
(***************************************************************************)

\* A directory takes with it the configuration that is in it.
Remove(paths) == fs' = fs \ paths /\ configured' = configured \ paths

\* What is left of a fetch or an extraction that fails.
Leftover == {}

\* Fetch or copy the archive, extract it.
Create ==
    /\ At("create")
    /\ cmd.new.state = "unpacked" => cmd.new.archive \in fs
    /\ fs' = fs \cup {cmd.path}
    /\ cmd' = [cmd EXCEPT !.step = IF cmd.keep THEN "commit" ELSE "purge_src",
                          !.arm = {cmd.path}]
    /\ UNCHANGED <<selected, configured, killed>>

CreateFails ==
    /\ At("create")
    /\ fs' = fs \cup Leftover
    /\ cmd' = Idle
    /\ UNCHANGED <<selected, configured, killed>>

\* pkg_checkout(): the repository is moved to the temporary directory for the
\* time of the checkout, and is lost if that fails.
CheckoutMove ==
    /\ At("checkout")
    /\ fs' = fs \ {Repository}
    /\ GoTo("distribute")
    /\ UNCHANGED <<selected, configured, killed>>

CheckoutDistribute ==
    /\ At("distribute") /\ Satisfied(cmd.name, cmd.new.version)
    /\ fs' = fs \cup {Repository, cmd.path}
    /\ cmd' = [cmd EXCEPT !.step = "purge_src", !.arm = {cmd.path}]
    /\ UNCHANGED <<selected, configured, killed>>

\* (Or only the checksum of the manifest fails.)
CheckoutFails ==
    /\ At("distribute")
    /\ \/ fs' = fs
       \/ fs' = fs \cup {Repository} /\ Satisfied(cmd.name, cmd.new.version)
    /\ cmd' = Idle
    /\ UNCHANGED <<selected, configured, killed>>

\* The package is broken, and this is committed; the file or directory that has
\* been created for it is removed (auto_rmfile, auto_rmdir).
Broken(p) ==
    /\ selected' = [selected EXCEPT ![cmd.name] = [p EXCEPT !.state = "broken"]]
    /\ fs' = fs \ cmd.arm
    /\ cmd' = Idle
    /\ UNCHANGED killed

\* Mutant: it is forgotten what was to be removed.
AfterSrcFailForgotten(p) == [p EXCEPT !.src_root = None, !.purge_src = FALSE]

\* The object when the removal of the source directory has failed.
AfterSrcFail(p) == p

\* pkg_purge_fs(), the source directory.
PurgeSrc ==
    /\ At("purge_src")
    /\ Remove(IF cmd.p.purge_src THEN {cmd.p.src_root} ELSE {})
    /\ cmd' = [cmd EXCEPT !.step = IF cmd.keep THEN "commit" ELSE "purge_archive",
                          !.p.src_root = None, !.p.purge_src = FALSE]
    /\ UNCHANGED <<selected, killed>>

PurgeSrcFails ==
    /\ At("purge_src") /\ cmd.p.purge_src /\ cmd.p.src_root \in fs
    /\ Broken(AfterSrcFail(cmd.p))
    /\ UNCHANGED configured

\* And the archive.
PurgeArchive ==
    /\ At("purge_archive")
    /\ Remove(IF cmd.p.purge_archive THEN {cmd.p.archive} ELSE {})
    /\ GoTo("commit")
    /\ UNCHANGED <<selected, killed>>

PurgeArchiveFails ==
    /\ At("purge_archive") /\ cmd.p.purge_archive /\ cmd.p.archive \in fs
    /\ Broken(cmd.p)
    /\ UNCHANGED configured

\* b configure.
RunConfigure ==
    /\ At("configure")
    /\ fs' = fs \cup {cmd.new.out_root}
    /\ configured' = configured \cup {cmd.new.out_root}
    /\ GoTo("commit")
    /\ UNCHANGED <<selected, killed>>

\* Mutant: the package is taken to be as it was.
AfterConfigureFailNothing == "commit"

\* What a failed configuration is followed by.
AfterConfigureFail == "disfigure"

\* It fails, with the output directory partially configured or not there.
RunConfigureFails ==
    /\ At("configure")
    /\ \/ UNCHANGED <<fs, configured>>
       \/ /\ fs' = fs \cup {cmd.new.out_root}
          /\ configured' = configured \cup {cmd.new.out_root}
    /\ cmd' = [cmd EXCEPT !.step = AfterConfigureFail, !.p.out_root = cmd.new.out_root,
                          !.new = cmd.p, !.keep = FALSE]
    /\ UNCHANGED <<selected, killed>>

\* b disfigure; the output directory of an external package is removed if it
\* is not to be kept, or if b disfigure fails.
RunDisfigure ==
    /\ At("disfigure")
    /\ \/ cmd.p.external /\ Remove({cmd.p.out_root})
       \/ /\ cmd.p.external => cmd.keep
          /\ configured' = configured \ {cmd.p.out_root} /\ UNCHANGED fs
    /\ GoTo("commit")
    /\ UNCHANGED <<selected, killed>>

RunDisfigureFails ==
    /\ At("disfigure") /\ cmd.p.out_root \in fs
    /\ Broken([cmd.p EXCEPT !.prerequisites = {}])
    /\ configured' \in {configured, configured \ {cmd.p.out_root}}

Commit ==
    /\ At("commit")
    /\ selected' = [selected EXCEPT ![cmd.name] = cmd.new]
    /\ cmd' = Idle
    /\ UNCHANGED <<fs, configured, killed>>

-----------------------------------------------------------------------------
(***************************************************************************)
(* The environment.                                                        *)
(***************************************************************************)

\* The transaction is rolled back and nothing is cleaned up.
Kill ==
    /\ ~At("idle")
    /\ cmd' = Idle /\ killed' = killed \cup {cmd.name}
    /\ UNCHANGED <<selected, fs, configured>>

\* The user removes what is left of a broken package.
UserRemove(n) ==
    LET p == selected[n]
    IN  /\ At("idle") /\ p.state = "broken"
        /\ \E path \in fs \cap {p.out_root, p.src_root, p.archive} : Remove({path})
        /\ UNCHANGED <<selected, cmd, killed>>

\* bpkg rep-fetch restores a repository.
RepFetch ==
    /\ At("idle") /\ Repository \notin fs
    /\ fs' = fs \cup {Repository}
    /\ UNCHANGED <<selected, configured, cmd, killed>>

Command(n) ==
    \/ \E v \in Versions :
         \/ Fetch(n, v) \/ Checkout(n, v) \/ ConfigureSystem(n, v)
         \/ \E purge \in BOOLEAN :
              \/ FetchExisting(n, v, UserArchive(n, v), purge)
              \/ UnpackExisting(n, v, UserDir(n, v), purge)
    \/ Unpack(n) \/ Configure(n) \/ PurgeBroken(n)
    \/ \E b \in BOOLEAN : Disfigure(n, b) \/ Purge(n, b)

Step ==
    \/ Create \/ CreateFails \/ CheckoutMove \/ CheckoutDistribute \/ CheckoutFails
    \/ PurgeSrc \/ PurgeSrcFails \/ PurgeArchive \/ PurgeArchiveFails
    \/ RunConfigure \/ RunConfigureFails \/ RunDisfigure \/ RunDisfigureFails \/ Commit

Next == (\E n \in Names : Command(n) \/ UserRemove(n)) \/ Step \/ Kill \/ RepFetch

Spec == Init /\ [][Next]_vars

-----------------------------------------------------------------------------
(***************************************************************************)
(* Properties.                                                             *)
(***************************************************************************)
PathsOf(n, v) == {OutDir(n), Archive(n, v), SrcDir(n, v), UserArchive(n, v), UserDir(n, v)}
Paths == {None, Repository} \cup UNION {PathsOf(n, v) : n \in Names, v \in Versions}

Packages ==
    [state : {"transient", "fetched", "unpacked", "configured", "broken"},
     version : Versions \cup {0}, system : BOOLEAN, external : BOOLEAN,
     archive : Paths, purge_archive : BOOLEAN, src_root : Paths, purge_src : BOOLEAN,
     out_root : Paths, prerequisites : SUBSET Names]

\* Types of the variables.
TypeOK ==
    /\ selected \in [Names -> Packages]
    /\ fs \subseteq Paths /\ configured \subseteq fs /\ killed \subseteq Names
    /\ cmd = Idle \/ (cmd.p \in Packages /\ cmd.new \in Packages)

\* Between commands a package that is not broken has on the file system what
\* its state says, and an unpacked one is not half configured, whatever step of
\* whatever command has failed; a kill excuses only the package of the command.
RecordBacked ==
    At("idle") => \A n \in Names \ killed :
        LET p == selected[n]
        IN  /\ p.state = "fetched" => p.archive \in fs
            /\ p.state = "unpacked" => p.src_root \in fs /\ OutRoot(n, p) \notin configured
            /\ p.state = "configured" /\ ~p.system =>
                  p.src_root \in fs /\ p.out_root \in configured

\* Every archive and source directory that bpkg has created in the
\* configuration belongs to a record that will have it removed, and every
\* output directory without one has been disfigured: a command that fails
\* half-way leaves nothing that stands in the way of the next.
NoLitter ==
    At("idle") => \A n \in Names \ killed :
        LET p == selected[n]
        IN  /\ OutDir(n) \in configured => p.out_root = OutDir(n)
            /\ \A v \in Versions :
                 /\ Archive(n, v) \in fs => p.archive = Archive(n, v) /\ p.purge_archive
                 /\ SrcDir(n, v) \in fs => p.src_root = SrcDir(n, v) /\ p.purge_src

\* The prerequisites of a configured package are configured with versions
\* that suit it, whatever fails and whenever bpkg is killed.
PrerequisitesConfigured ==
    \A n \in Names : selected[n].state = "configured" /\ ~selected[n].system =>
        /\ Satisfied(n, selected[n].version)
        /\ selected[n].prerequisites = {d[1] : d \in Depends[<<n, selected[n].version>>]}
=============================================================================
