--------------------------- MODULE PackageProofs ---------------------------
(***************************************************************************)
(* Proof that bpkg never leaves a package configured on top of a           *)
(* prerequisite that is not, or is of an unsuitable version.               *)
(***************************************************************************)
EXTENDS Package, TLAPS

Steps == {"create", "checkout", "distribute", "purge_src", "purge_archive", "configure",
          "disfigure", "commit"}

Commands ==
    [step : Steps, name : Names, p : Packages, new : Packages, path : Paths, arm : SUBSET Paths,
     keep : BOOLEAN]

\* What is unpacked or the like has a version; a system package is configured.
Versioned(p) ==
    p.state \in {"fetched", "unpacked", "configured"} =>
        p.version \in Versions /\ (p.system => p.state = "configured")

\* A source package that is configured.
Built(p) == p.state = "configured" /\ ~p.system

\* p may become the record of package n: if it is configured, then on top of
\* what it needs.
MayCommit(n, p) ==
    /\ Versioned(p)
    /\ IF Built(p) THEN /\ selected[n].state # "configured"
                        /\ Satisfied(n, p.version)
                        /\ p.prerequisites = {d[1] : d \in Depends[<<n, p.version>>]}
                   ELSE p.prerequisites = {}

RecordsInv ==
    \A n \in Names :
        /\ Versioned(selected[n])
        /\ ~Built(selected[n]) => selected[n].prerequisites = {}

\* What a command in progress has made sure of and relies upon until its commit.
CommandInv ==
    cmd # Idle =>
        /\ ~HasDependents(cmd.name)
        /\ Versioned(cmd.p)
        /\ cmd.step \notin {"disfigure", "commit"} => cmd.p.prerequisites = {}
        /\ cmd.step = "configure" => cmd.p.state = "unpacked"
        /\ MayCommit(cmd.name, cmd.new)

ShapeInv == selected \in [Names -> Packages] /\ cmd \in {Idle} \cup Commands

IndInv == ShapeInv /\ RecordsInv /\ PrerequisitesConfigured /\ CommandInv

-----------------------------------------------------------------------------
\* A command in progress is not taken for none.
LEMMA CommandNotIdle == ASSUME NEW c \in Commands PROVE c # Idle /\ c.step # "idle"
BY DEF Commands, Steps, Idle

LEMMA TransientType == Transient \in Packages
BY DEF Transient, Packages, Paths

\* The paths of a package are paths.
LEMMA PathTypes ==
    ASSUME NEW n \in Names, NEW v \in Versions
    PROVE  /\ {Archive(n, v), SrcDir(n, v), UserArchive(n, v), UserDir(n, v), OutDir(n)} \subseteq Paths
           /\ None \in Paths
<1>1. PathsOf(n, v) \subseteq Paths /\ None \in Paths
  BY DEF Paths
<1> QED
  BY <1>1 DEF PathsOf

\* Only a configured package has dependents.
LEMMA DependentsNeedConfigured ==
    ASSUME IndInv, NEW n \in Names, HasDependents(n)
    PROVE  selected[n].state = "configured"
<1>1. PICK m \in Names : n \in selected[m].prerequisites
  BY DEF HasDependents
<1>2. Built(selected[m])
  BY <1>1 DEF IndInv, RecordsInv
<1>3. PICK d \in Depends[<<m, selected[m].version>>] : n = d[1]
  BY <1>1, <1>2 DEF IndInv, PrerequisitesConfigured, Built
<1> QED
  BY <1>2, <1>3 DEF IndInv, PrerequisitesConfigured, Built, Satisfied

-----------------------------------------------------------------------------
\* The beginning of a command.
LEMMA BeginPreserves ==
    ASSUME IndInv, NEW step \in Steps, NEW n \in Names, NEW new \in Packages, NEW path \in Paths,
           NEW keep \in BOOLEAN, Begin(step, n, new, path, keep), ~HasDependents(n),
           step \notin {"disfigure", "commit"} => selected[n].prerequisites = {},
           step = "configure" => selected[n].state = "unpacked",
           MayCommit(n, new)
    PROVE  IndInv'
<1>1. selected' = selected
  BY DEF Begin
<1>2. cmd' = [step |-> step, name |-> n, p |-> selected[n], new |-> new, path |-> path,
              arm |-> {}, keep |-> keep]
  BY DEF Begin
<1>3. ShapeInv'
  BY <1>1, <1>2 DEF IndInv, ShapeInv, Commands
<1>4. RecordsInv' /\ PrerequisitesConfigured'
  BY <1>1 DEF IndInv, RecordsInv, PrerequisitesConfigured, Satisfied, Versioned, Built
<1>5. CommandInv'
  <2>1. cmd'.name = n /\ cmd'.p = selected[n] /\ cmd'.new = new /\ cmd'.step = step
    BY <1>2
  <2>2. ~HasDependents(cmd.name)'
    BY <1>1, <2>1 DEF HasDependents
  <2>3. MayCommit(cmd.name, cmd.new)'
    BY <1>1, <2>1 DEF MayCommit, Versioned, Built, Satisfied
  <2>4. Versioned(cmd.p)'
    BY <2>1 DEF IndInv, RecordsInv, Versioned
  <2> QED
    BY <2>1, <2>2, <2>3, <2>4 DEF CommandInv
<1> QED
  BY <1>3, <1>4, <1>5 DEF IndInv

\* A step of a command that leaves the database alone and what is to be
\* committed.
LEMMA StepPreserves ==
    ASSUME IndInv, cmd \in Commands, cmd' \in Commands, selected' = selected,
           cmd'.name = cmd.name, MayCommit(cmd.name, cmd'.new), Versioned(cmd'.p),
           cmd'.step \notin {"disfigure", "commit"} => cmd'.p.prerequisites = {},
           cmd'.step # "configure"
    PROVE  IndInv'
<1>1. ShapeInv'
  BY DEF IndInv, ShapeInv
<1>2. RecordsInv' /\ PrerequisitesConfigured'
  BY DEF IndInv, RecordsInv, PrerequisitesConfigured, Satisfied, Versioned, Built
<1>3. ~HasDependents(cmd.name)'
  BY CommandNotIdle DEF IndInv, CommandInv, HasDependents
<1>4. MayCommit(cmd.name, cmd.new)'
  BY DEF MayCommit, Versioned, Built, Satisfied
<1>5. CommandInv'
  BY <1>3, <1>4 DEF CommandInv, Versioned
<1> QED
  BY <1>1, <1>2, <1>5 DEF IndInv

\* The database is left alone and no command is in progress any more.
LEMMA IdlePreserves ==
    ASSUME IndInv, selected' = selected, cmd' = Idle
    PROVE  IndInv'
BY DEF IndInv, ShapeInv, RecordsInv, PrerequisitesConfigured, CommandInv, Satisfied, Versioned, Built

\* The end of a command: its package gets a new record, which is as it should be.
LEMMA RecordPreserves ==
    ASSUME IndInv, cmd \in Commands, NEW q \in Packages, MayCommit(cmd.name, q),
           selected' = [selected EXCEPT ![cmd.name] = q], cmd' = Idle
    PROVE  IndInv'
<1> DEFINE n == cmd.name
<1>1. n \in Names /\ ~HasDependents(n) /\ selected \in [Names -> Packages]
  BY CommandNotIdle DEF IndInv, CommandInv, Commands, ShapeInv
<1>2. /\ selected' \in [Names -> Packages] /\ selected'[n] = q
      /\ \A m \in Names \ {n} : selected'[m] = selected[m]
  BY <1>1
<1>3. ShapeInv' /\ CommandInv'
  BY <1>2 DEF ShapeInv, CommandInv
<1>4. RecordsInv'
  BY <1>1, <1>2 DEF IndInv, RecordsInv, MayCommit, Versioned, Built
<1>5. PrerequisitesConfigured'
  <2> SUFFICES ASSUME NEW m \in Names, Built(selected'[m])
               PROVE  /\ \A d \in Depends[<<m, selected'[m].version>>] :
                            selected'[d[1]].state = "configured" /\ selected'[d[1]].version \in d[2]
                      /\ selected'[m].prerequisites = {d[1] : d \in Depends[<<m, selected'[m].version>>]}
    BY DEF PrerequisitesConfigured, Satisfied, Built
  <2>1. CASE m = n
    <3>1. /\ selected[n].state # "configured" /\ Satisfied(n, q.version)
          /\ q.prerequisites = {d[1] : d \in Depends[<<n, q.version>>]}
      BY <1>2, <2>1 DEF MayCommit
    <3>2. ASSUME NEW d \in Depends[<<n, q.version>>]
          PROVE  selected'[d[1]].state = "configured" /\ selected'[d[1]].version \in d[2]
      <4>1. selected[d[1]].state = "configured" /\ selected[d[1]].version \in d[2]
        BY <3>1 DEF Satisfied
      <4>2. d[1] \in Names
        <5>1. q.version \in Versions
          BY <1>2, <2>1 DEF MayCommit, Versioned, Built
        <5> QED
          BY <5>1, <1>1, PackageAssumption
      <4>3. d[1] # n
        BY <4>1, <3>1
      <4> QED
        BY <1>2, <4>1, <4>2, <4>3
    <3> QED
      BY <1>2, <2>1, <3>1, <3>2
  <2>2. CASE m # n
    <3>1. /\ selected'[m] = selected[m] /\ Satisfied(m, selected[m].version)
          /\ selected[m].prerequisites = {d[1] : d \in Depends[<<m, selected[m].version>>]}
          /\ selected[m].version \in Versions
      BY <1>2, <2>2 DEF IndInv, PrerequisitesConfigured, RecordsInv, Versioned, Built
    <3>2. ASSUME NEW d \in Depends[<<m, selected[m].version>>]
          PROVE  selected'[d[1]].state = "configured" /\ selected'[d[1]].version \in d[2]
      <4>1. selected[d[1]].state = "configured" /\ selected[d[1]].version \in d[2]
        BY <3>1 DEF Satisfied
      <4>2. d[1] \in Names
        BY <3>1, PackageAssumption
      <4>3. d[1] # n
        BY <3>1, <1>1 DEF HasDependents
      <4> QED
        BY <1>2, <4>1, <4>2, <4>3
    <3> QED
      BY <3>1, <3>2
  <2> QED
    BY <2>1, <2>2
<1> QED
  BY <1>3, <1>4, <1>5 DEF IndInv

-----------------------------------------------------------------------------
LEMMA IndInvInit == Init => IndInv
<1> SUFFICES ASSUME Init PROVE IndInv
  OBVIOUS
<1>1. ShapeInv
  BY TransientType DEF Init, ShapeInv
<1>2. RecordsInv /\ PrerequisitesConfigured /\ CommandInv
  BY DEF Init, RecordsInv, PrerequisitesConfigured, CommandInv, Transient, Versioned, Built
<1> QED
  BY <1>1, <1>2 DEF IndInv

\* The commands.
LEMMA CommandPreserves ==
    ASSUME IndInv, NEW n \in Names, Command(n)
    PROVE  IndInv'
<1>1. selected[n] \in Packages /\ Versioned(selected[n]) /\ (~Built(selected[n]) => selected[n].prerequisites = {})
  BY DEF IndInv, ShapeInv, RecordsInv
<1>2. selected[n].state # "configured" => ~HasDependents(n) /\ selected[n].prerequisites = {}
  BY <1>1, DependentsNeedConfigured DEF Built
<1>3. ASSUME NEW v \in Versions, Fetch(n, v) PROVE IndInv'
  <2> DEFINE new == [Transient EXCEPT !.state = "fetched", !.version = v,
                        !.archive = Archive(n, v), !.purge_archive = TRUE]
  <2>1. new \in Packages /\ Archive(n, v) \in Paths
    BY PathTypes, TransientType DEF Packages
  <2>2. MayCommit(n, new)
    BY DEF MayCommit, Versioned, Built, Transient
  <2>3. Begin("create", n, new, Archive(n, v), FALSE) /\ MayReplace(n)
    BY <1>3 DEF Fetch
  <2> HIDE DEF new
  <2> QED
    BY <1>2, <2>1, <2>2, <2>3, BeginPreserves DEF MayReplace, Steps
<1>4. ASSUME NEW v \in Versions, NEW purge \in BOOLEAN, FetchExisting(n, v, UserArchive(n, v), purge)
      PROVE  IndInv'
  <2> DEFINE new == [Transient EXCEPT !.state = "fetched", !.version = v,
                        !.archive = UserArchive(n, v), !.purge_archive = purge]
  <2>1. new \in Packages /\ None \in Paths
    BY PathTypes, TransientType DEF Packages
  <2>2. MayCommit(n, new)
    BY DEF MayCommit, Versioned, Built, Transient
  <2>3. Begin("purge_src", n, new, None, FALSE) /\ MayReplace(n)
    BY <1>4 DEF FetchExisting
  <2> HIDE DEF new
  <2> QED
    BY <1>2, <2>1, <2>2, <2>3, BeginPreserves DEF MayReplace, Steps
<1>5. ASSUME Unpack(n) PROVE IndInv'
  <2> DEFINE v == selected[n].version
             new == [selected[n] EXCEPT !.state = "unpacked", !.src_root = SrcDir(n, v), !.purge_src = TRUE]
  <2>1. selected[n].state = "fetched" /\ Begin("create", n, new, SrcDir(n, v), TRUE)
    BY <1>5 DEF Unpack
  <2>2. v \in Versions
    BY <1>1, <2>1 DEF Versioned
  <2>3. new \in Packages /\ SrcDir(n, v) \in Paths
    BY <1>1, <2>2, PathTypes DEF Packages
  <2>4. MayCommit(n, new)
    BY <1>1, <1>2, <2>1, <2>2 DEF MayCommit, Versioned, Built, Packages
  <2> HIDE DEF new
  <2> QED
    BY <1>2, <2>1, <2>3, <2>4, BeginPreserves DEF Steps
<1>6. ASSUME NEW v \in Versions, NEW purge \in BOOLEAN, UnpackExisting(n, v, UserDir(n, v), purge)
      PROVE  IndInv'
  <2> DEFINE new == [Transient EXCEPT !.state = "unpacked", !.version = v, !.external = TRUE,
                        !.src_root = UserDir(n, v), !.purge_src = purge]
  <2>1. new \in Packages /\ None \in Paths
    BY PathTypes, TransientType DEF Packages
  <2>2. MayCommit(n, new)
    BY DEF MayCommit, Versioned, Built, Transient
  <2>3. Begin("purge_src", n, new, None, FALSE) /\ MayReplace(n)
    BY <1>6 DEF UnpackExisting
  <2> HIDE DEF new
  <2> QED
    BY <1>2, <2>1, <2>2, <2>3, BeginPreserves DEF MayReplace, Steps
<1>7. ASSUME NEW v \in Versions, Checkout(n, v) PROVE IndInv'
  <2> DEFINE new == [Transient EXCEPT !.state = "unpacked", !.version = v,
                        !.src_root = SrcDir(n, v), !.purge_src = TRUE]
  <2>1. new \in Packages /\ SrcDir(n, v) \in Paths
    BY PathTypes, TransientType DEF Packages
  <2>2. MayCommit(n, new)
    BY DEF MayCommit, Versioned, Built, Transient
  <2>3. Begin("checkout", n, new, SrcDir(n, v), FALSE) /\ MayReplace(n)
    BY <1>7 DEF Checkout
  <2> HIDE DEF new
  <2> QED
    BY <1>2, <2>1, <2>2, <2>3, BeginPreserves DEF MayReplace, Steps
<1>8. ASSUME Configure(n) PROVE IndInv'
  <2> DEFINE v == selected[n].version
             names == {d[1] : d \in Depends[<<n, v>>]}
             new == [selected[n] EXCEPT !.state = "configured", !.out_root = OutRoot(n, selected[n]),
                        !.prerequisites = names]
  <2>1. /\ selected[n].state = "unpacked" /\ Satisfied(n, v)
        /\ Begin("configure", n, new, None, TRUE)
    BY <1>8 DEF Configure, MayConfigure
  <2>2. v \in Versions
    BY <1>1, <2>1 DEF Versioned
  <2>3. names \subseteq Names
    BY <2>2, PackageAssumption
  <2>4. OutRoot(n, selected[n]) \in Paths /\ None \in Paths
    BY <2>2, PathTypes DEF OutRoot
  <2>5. new \in Packages
    BY <1>1, <2>3, <2>4 DEF Packages
  <2>6. new.version = v /\ new.state = "configured" /\ new.prerequisites = names
    BY <1>1 DEF Packages
  <2>7. MayCommit(n, new)
    <3>1. new.system => new.prerequisites = {}
      BY <1>1, <2>1 DEF Versioned, Packages
    <3> QED
      BY <2>1, <2>2, <2>6, <3>1 DEF MayCommit, Versioned, Built
  <2> HIDE DEF new
  <2> QED
    BY <1>2, <2>1, <2>4, <2>5, <2>7, BeginPreserves DEF Steps
<1>9. ASSUME NEW v \in Versions, ConfigureSystem(n, v) PROVE IndInv'
  <2> DEFINE new == [Transient EXCEPT !.state = "configured", !.version = v, !.system = TRUE]
  <2>1. new \in Packages /\ None \in Paths
    BY PathTypes, TransientType DEF Packages
  <2>2. MayCommit(n, new)
    BY DEF MayCommit, Versioned, Built, Transient
  <2>3. Begin("commit", n, new, None, TRUE) /\ selected[n] = Transient
    BY <1>9 DEF ConfigureSystem
  <2>4. selected[n].state # "configured"
    BY <2>3 DEF Transient
  <2> HIDE DEF new
  <2> QED
    BY <1>2, <2>1, <2>2, <2>3, <2>4, BeginPreserves DEF Steps
<1>10. ASSUME NEW clean \in BOOLEAN, Disfigure(n, clean) PROVE IndInv'
  <2> DEFINE new == [selected[n] EXCEPT !.state = "unpacked", !.out_root = None, !.prerequisites = {}]
  <2>1. selected[n].state = "configured" /\ ~HasDependents(n)
    BY <1>10 DEF Disfigure
  <2>2. None \in Paths
    BY DEF Paths
  <2>3. CASE selected[n].system
    <3>1. Begin("commit", n, Transient, None, TRUE)
      BY <1>10, <2>3 DEF Disfigure
    <3>2. MayCommit(n, Transient)
      BY DEF MayCommit, Versioned, Built, Transient
    <3> QED
      BY <2>1, <2>2, <3>1, <3>2, TransientType, BeginPreserves DEF Steps
  <2>4. CASE ~selected[n].system
    <3>1. Begin("disfigure", n, new, None, ~clean)
      BY <1>10, <2>4 DEF Disfigure
    <3>2. new \in Packages
      BY <1>1, <2>2 DEF Packages
    <3>3. MayCommit(n, new)
      BY <1>1, <2>1, <2>4 DEF MayCommit, Versioned, Built, Packages
    <3> HIDE DEF new
    <3>4. (~clean) \in BOOLEAN
      OBVIOUS
    <3> QED
      BY <2>1, <2>2, <3>1, <3>2, <3>3, <3>4, BeginPreserves DEF Steps
  <2> QED
    BY <2>3, <2>4
<1>11. ASSUME NEW keep \in BOOLEAN, Purge(n, keep) PROVE IndInv'
  <2> DEFINE kept == [selected[n] EXCEPT !.state = "fetched", !.src_root = None, !.purge_src = FALSE]
             new == IF keep THEN kept ELSE Transient
  <2>1. selected[n].state \in {"fetched", "unpacked"} /\ Begin("purge_src", n, new, None, keep)
    BY <1>11 DEF Purge
  <2>2. None \in Paths
    BY DEF Paths
  <2>3. new \in Packages
    BY <1>1, <2>2, TransientType DEF Packages
  <2>4. MayCommit(n, kept)
    BY <1>1, <1>2, <2>1 DEF MayCommit, Versioned, Built, Packages
  <2>5. MayCommit(n, Transient)
    BY DEF MayCommit, Versioned, Built, Transient
  <2>6. MayCommit(n, new)
    BY <2>4, <2>5
  <2> HIDE DEF new
  <2> QED
    BY <1>2, <2>1, <2>2, <2>3, <2>6, BeginPreserves DEF Steps
<1>12. ASSUME PurgeBroken(n) PROVE IndInv'
  <2>1. selected[n].state # "configured" /\ Begin("commit", n, Transient, None, TRUE)
    BY <1>12 DEF PurgeBroken
  <2>2. MayCommit(n, Transient) /\ None \in Paths
    BY DEF MayCommit, Versioned, Built, Transient, Paths
  <2> QED
    BY <1>2, <2>1, <2>2, TransientType, BeginPreserves DEF Steps
<1> QED
  BY <1>3, <1>4, <1>5, <1>6, <1>7, <1>8, <1>9, <1>10, <1>11, <1>12 DEF Command

-----------------------------------------------------------------------------
\* A broken package needs nothing.
LEMMA BrokenPreserves ==
    ASSUME IndInv, cmd \in Commands, NEW p \in Packages, p.prerequisites = {}, Broken(p)
    PROVE  IndInv'
<1> DEFINE q == [p EXCEPT !.state = "broken"]
<1>1. q \in Packages /\ MayCommit(cmd.name, q)
  BY DEF Packages, MayCommit, Versioned, Built
<1>2. selected' = [selected EXCEPT ![cmd.name] = q] /\ cmd' = Idle
  BY DEF Broken
<1> HIDE DEF q
<1> QED
  BY <1>1, <1>2, RecordPreserves

\* The steps of a command.
LEMMA CommandStepPreserves == ASSUME IndInv, Step PROVE IndInv'
<1>1. cmd \in Commands
  BY DEF IndInv, ShapeInv, Step, Create, CreateFails, CheckoutMove, CheckoutDistribute, CheckoutFails,
         PurgeSrc, PurgeSrcFails, PurgeArchive, PurgeArchiveFails, RunConfigure, RunConfigureFails,
         RunDisfigure, RunDisfigureFails, Commit, At, Idle
<1>2. /\ Versioned(cmd.p) /\ MayCommit(cmd.name, cmd.new)
      /\ cmd.step \notin {"disfigure", "commit"} => cmd.p.prerequisites = {}
      /\ cmd.step = "configure" => cmd.p.state = "unpacked"
  BY <1>1, CommandNotIdle DEF IndInv, CommandInv
<1>3. None \in Paths
  BY DEF Paths
<1>4. ASSUME NEW step \in Steps \ {"configure"}, NEW arm \in SUBSET Paths, selected' = selected,
             cmd' = [cmd EXCEPT !.step = step, !.arm = arm] \/ cmd' = [cmd EXCEPT !.step = step],
             cmd.step \notin {"disfigure", "commit"} \/ step = "commit"
      PROVE  IndInv'
  <2>1. cmd' \in Commands /\ cmd'.step = step /\ cmd'.p = cmd.p /\ cmd'.new = cmd.new /\ cmd'.name = cmd.name
    BY <1>1, <1>4 DEF Commands
  <2> QED
    BY <1>1, <1>2, <1>4, <2>1, StepPreserves
<1>5. CASE Create
  <2> DEFINE step == IF cmd.keep THEN "commit" ELSE "purge_src"
  <2>1. cmd' = [cmd EXCEPT !.step = step, !.arm = {cmd.path}] /\ selected' = selected
    BY <1>5 DEF Create
  <2>2. cmd.step = "create" /\ {cmd.path} \in SUBSET Paths /\ step \in Steps \ {"configure"}
    BY <1>1, <1>5 DEF Create, At, Commands, Steps
  <2> HIDE DEF step
  <2> QED
    BY <1>4, <2>1, <2>2
<1>6. CASE CreateFails \/ CheckoutFails
  BY <1>6, IdlePreserves DEF CreateFails, CheckoutFails
<1>7. CASE CheckoutMove
  BY <1>1, <1>4, <1>7 DEF CheckoutMove, At, GoTo, Steps, Commands
<1>8. CASE CheckoutDistribute
  <2>1. cmd' = [cmd EXCEPT !.step = "purge_src", !.arm = {cmd.path}] /\ selected' = selected
    BY <1>8 DEF CheckoutDistribute
  <2>2. /\ cmd.step = "distribute" /\ {cmd.path} \in SUBSET Paths
        /\ "purge_src" \in Steps \ {"configure"}
    BY <1>1, <1>8 DEF CheckoutDistribute, At, Commands, Steps
  <2> QED
    BY <1>4, <2>1, <2>2
<1>9. CASE PurgeSrc
  <2> DEFINE step == IF cmd.keep THEN "commit" ELSE "purge_archive"
             c == [cmd EXCEPT !.step = step, !.p.src_root = None, !.p.purge_src = FALSE]
  <2>1. cmd.step = "purge_src" /\ cmd' = c /\ selected' = selected
    BY <1>9 DEF PurgeSrc, At
  <2>2. /\ c \in Commands /\ c.name = cmd.name /\ c.new = cmd.new /\ c.step # "configure"
        /\ c.p.prerequisites = cmd.p.prerequisites /\ c.p.state = cmd.p.state
        /\ c.p.version = cmd.p.version /\ c.p.system = cmd.p.system
    BY <1>1, <1>3 DEF Commands, Packages, Steps
  <2>3. Versioned(c.p)
    BY <1>2, <2>2 DEF Versioned
  <2> HIDE DEF c
  <2> QED
    BY <1>1, <1>2, <2>1, <2>2, <2>3, StepPreserves
<1>10. CASE PurgeSrcFails
  <2>1. cmd.p \in Packages /\ cmd.p.prerequisites = {} /\ Broken(cmd.p)
    BY <1>1, <1>2, <1>10 DEF PurgeSrcFails, AfterSrcFail, At, Commands
  <2> QED
    BY <1>1, <2>1, BrokenPreserves
<1>11. CASE PurgeArchive
  BY <1>1, <1>4, <1>11 DEF PurgeArchive, At, GoTo, Steps, Commands
<1>12. CASE PurgeArchiveFails
  <2>1. cmd.p \in Packages /\ cmd.p.prerequisites = {} /\ Broken(cmd.p)
    BY <1>1, <1>2, <1>12 DEF PurgeArchiveFails, At, Commands
  <2> QED
    BY <1>1, <2>1, BrokenPreserves
<1>13. CASE RunConfigure
  BY <1>1, <1>4, <1>13 DEF RunConfigure, At, GoTo, Steps, Commands
<1>14. CASE RunConfigureFails
  <2> DEFINE c == [cmd EXCEPT !.step = "disfigure", !.p.out_root = cmd.new.out_root,
                              !.new = cmd.p, !.keep = FALSE]
  <2>1. cmd.step = "configure" /\ cmd' = c /\ selected' = selected
    BY <1>14 DEF RunConfigureFails, AfterConfigureFail, At
  <2>2. /\ c \in Commands /\ c.name = cmd.name /\ c.new = cmd.p /\ c.step = "disfigure"
        /\ c.p.state = cmd.p.state /\ c.p.version = cmd.p.version /\ c.p.system = cmd.p.system
    BY <1>1 DEF Commands, Packages, Steps
  <2>3. Versioned(c.p)
    BY <1>2, <2>2 DEF Versioned
  <2>4. MayCommit(cmd.name, cmd.p)
    BY <1>2, <2>1 DEF MayCommit, Built
  <2> HIDE DEF c
  <2> QED
    BY <1>1, <2>1, <2>2, <2>3, <2>4, StepPreserves
<1>15. CASE RunDisfigure
  BY <1>1, <1>4, <1>15 DEF RunDisfigure, At, GoTo, Steps, Commands
<1>16. CASE RunDisfigureFails
  <2> DEFINE p == [cmd.p EXCEPT !.prerequisites = {}]
  <2>1. p \in Packages /\ p.prerequisites = {}
    BY <1>1 DEF Commands, Packages
  <2>2. Broken(p)
    BY <1>16 DEF RunDisfigureFails
  <2> HIDE DEF p
  <2> QED
    BY <1>1, <2>1, <2>2, BrokenPreserves
<1>17. CASE Commit
  <2>1. cmd.new \in Packages /\ selected' = [selected EXCEPT ![cmd.name] = cmd.new] /\ cmd' = Idle
    BY <1>1, <1>17 DEF Commit, Commands
  <2> QED
    BY <1>1, <1>2, <2>1, RecordPreserves
<1> QED
  BY <1>5, <1>6, <1>7, <1>8, <1>9, <1>10, <1>11, <1>12, <1>13, <1>14, <1>15, <1>16, <1>17 DEF Step

LEMMA IndInvNext == IndInv /\ [Next]_vars => IndInv'
<1> SUFFICES ASSUME IndInv, [Next]_vars PROVE IndInv'
  OBVIOUS
<1>1. CASE \E n \in Names : Command(n)
  BY <1>1, CommandPreserves
<1>2. CASE Step
  BY <1>2, CommandStepPreserves
<1>3. CASE Kill
  BY <1>3, IdlePreserves DEF Kill
<1>4. CASE RepFetch \/ (\E n \in Names : UserRemove(n)) \/ UNCHANGED vars
  <2>1. selected' = selected /\ cmd' = cmd
    BY <1>4 DEF RepFetch, UserRemove, vars
  <2> QED
    BY <2>1 DEF IndInv, ShapeInv, RecordsInv, PrerequisitesConfigured, CommandInv, HasDependents,
                MayCommit, Satisfied, Versioned, Built
<1> QED
  BY <1>1, <1>2, <1>3, <1>4 DEF Next

-----------------------------------------------------------------------------
\* For any packages, versions and dependencies between them: the prerequisites
\* of a configured package are configured with versions that suit it, whichever
\* step of pkg-fetch, pkg-checkout, pkg-unpack, pkg-configure, pkg-disfigure or
\* pkg-purge fails and whenever bpkg is killed.
THEOREM PrerequisitesConfiguredCorrect == Spec => []PrerequisitesConfigured
<1>1. IndInv => PrerequisitesConfigured
  BY DEF IndInv
<1> QED
  BY <1>1, IndInvInit, IndInvNext, PTL DEF Spec

\* A package that others depend on is configured, so that no command other than
\* pkg-disfigure, which refuses, begins on it.
THEOREM DependentsOnConfigured ==
    Spec => [](\A n \in Names : HasDependents(n) => selected[n].state = "configured")
<1>1. IndInv => \A n \in Names : HasDependents(n) => selected[n].state = "configured"
  BY DependentsNeedConfigured
<1> QED
  BY <1>1, IndInvInit, IndInvNext, PTL DEF Spec

-----------------------------------------------------------------------------
(***************************************************************************)
(* The second argument: the file system agrees with the records.  The      *)
(* paths of one package are none of another's.                             *)
(***************************************************************************)
OwnPath(n, x) ==
    x = OutDir(n) \/ \E v \in Versions : x \in {Archive(n, v), SrcDir(n, v), UserArchive(n, v), UserDir(n, v)}

\* What an object may have as paths at any time.
PathShape(n, p) ==
    /\ p.archive = None \/ \E v \in Versions : p.archive \in {Archive(n, v), UserArchive(n, v)}
    /\ p.src_root = None \/ \E v \in Versions : p.src_root \in {SrcDir(n, v), UserDir(n, v)}
    /\ p.out_root = None \/ p.out_root = OutDir(n) \/ \E v \in Versions : p.out_root = SrcDir(n, v)
    /\ p.purge_archive => p.archive # None
    /\ p.purge_src => p.src_root # None

\* And what one that is, or is to be, in the database has in each state.
StateShape(n, p) ==
    /\ p.state = "transient" => p = Transient
    /\ p.state = "fetched" => p.archive # None /\ p.src_root = None /\ ~p.purge_src /\ ~p.external
    /\ p.state \in {"fetched", "unpacked"} => p.out_root = None
    /\ p.state \in {"unpacked", "configured"} /\ ~p.system =>
          IF p.external THEN p.archive = None /\ \E v \in Versions : p.src_root = UserDir(n, v)
                        ELSE p.src_root = SrcDir(n, p.version) /\ p.purge_src
    /\ p.state = "configured" /\ ~p.system => p.out_root = OutRoot(n, p)
    /\ p.state = "configured" /\ p.system =>
          /\ p.archive = None /\ p.src_root = None /\ p.out_root = None
          /\ ~p.purge_src /\ ~p.purge_archive

\* With the files F, of which C are configured, record p of package n has what
\* it needs ...
Backed(n, p, F, C) ==
    /\ p.state \in {"fetched", "unpacked", "configured"} /\ p.archive # None => p.archive \in F
    /\ p.state = "unpacked" => p.src_root \in F /\ OutRoot(n, p) \notin C
    /\ p.state = "configured" /\ ~p.system => p.src_root \in F /\ p.out_root \in C

\* ... and there is nothing that it does not account for.
Clean(n, p, F, C) ==
    /\ OutDir(n) \in C => p.out_root = OutDir(n)
    /\ \A v \in Versions :
         /\ Archive(n, v) \in F => p.archive = Archive(n, v) /\ p.purge_archive
         /\ SrcDir(n, v) \in F => p.src_root = SrcDir(n, v) /\ p.purge_src

Good(n, p, F, C) == Backed(n, p, F, C) /\ Clean(n, p, F, C)

\* What pkg_purge_fs() removes.
DoomedSrc(p) == IF p.purge_src THEN {p.src_root} ELSE {}
DoomedArchive(p) == IF p.purge_archive THEN {p.archive} ELSE {}

Creating == {"create", "checkout", "distribute"}

\* The objects and the path of command c.
CommandShape(c) ==
    /\ PathShape(c.name, c.p)
    /\ PathShape(c.name, c.new) /\ StateShape(c.name, c.new)
    /\ c.step \in Creating => OwnPath(c.name, c.path)
    /\ c.step \in {"checkout", "distribute"} => ~c.keep
    /\ c.step \in {"configure", "disfigure"} => c.arm = {}
    /\ c.arm \subseteq {c.path} /\ (c.arm # {} => OwnPath(c.name, c.path))
    /\ c.step = "configure" => c.new.out_root = OutRoot(c.name, c.p)

\* What command c is going to leave, and what it leaves if it fails.
Outcome(c, F, C) ==
    LET n == c.name
        p == c.p
        src == DoomedSrc(p)
        both == DoomedSrc(p) \cup DoomedArchive(p)
    IN  /\ c.step \in Creating =>
             /\ Good(n, p, F, C)
             /\ IF c.keep THEN Good(n, c.new, F \cup {c.path}, C)
                          ELSE Good(n, c.new, (F \cup {c.path}) \ both, C \ both)
        /\ c.step = "purge_src" =>
             /\ Clean(n, p, F \ c.arm, C)
             /\ IF c.keep THEN Good(n, c.new, F \ src, C \ src)
                          ELSE Good(n, c.new, F \ both, C \ both)
        /\ c.step = "purge_archive" =>
             /\ Clean(n, p, F \ c.arm, C)
             /\ Good(n, c.new, F \ DoomedArchive(p), C \ DoomedArchive(p))
        /\ c.step = "configure" =>
             /\ Good(n, p, F, C)
             /\ Good(n, c.new, F \cup {c.new.out_root}, C \cup {c.new.out_root})
        /\ c.step = "disfigure" =>
             /\ Clean(n, p, F, C)
             /\ Good(n, c.new, F, C \ {p.out_root})
             /\ p.external => Good(n, c.new, F \ {p.out_root}, C \ {p.out_root})
        /\ c.step = "commit" => Good(n, c.new, F, C)

\* The objects of the database and of the command.
ObjectsInv ==
    /\ \A n \in Names : PathShape(n, selected[n]) /\ StateShape(n, selected[n])
    /\ cmd # Idle =>
         /\ CommandShape(cmd)
         /\ cmd.step \in Creating \cup {"configure", "purge_src"} => cmd.p = selected[cmd.name]
         /\ cmd.step \in Creating => cmd.path \notin fs

\* A directory that is configured exists.
ConfiguredInv ==
    configured \subseteq fs \ {Repository} /\ (cmd # Idle => cmd.arm \cap configured = {})

\* All is well with the packages that no command is about.
OthersInv ==
    \A n \in Names \ killed : cmd = Idle \/ cmd.name # n => Good(n, selected[n], fs, configured)

OutcomeInv == cmd # Idle /\ cmd.name \notin killed => Outcome(cmd, fs, configured)

FileInv == ObjectsInv /\ ConfiguredInv /\ OthersInv /\ OutcomeInv

-----------------------------------------------------------------------------
LEMMA PathKinds ==
    ASSUME NEW n \in Names, NEW v \in Versions
    PROVE  /\ None # OutDir(n) /\ None # Archive(n, v) /\ None # SrcDir(n, v)
           /\ None # UserArchive(n, v) /\ None # UserDir(n, v)
           /\ Repository # OutDir(n) /\ Repository # Archive(n, v) /\ Repository # SrcDir(n, v)
           /\ Repository # UserArchive(n, v) /\ Repository # UserDir(n, v)
BY DEF None, Repository, OutDir, Archive, SrcDir, UserArchive, UserDir

LEMMA PathsApart ==
    ASSUME NEW n \in Names, NEW v \in Versions, NEW m \in Names, NEW w \in Versions
    PROVE  /\ OutDir(n) # Archive(m, w) /\ OutDir(n) # SrcDir(m, w) /\ OutDir(n) # UserArchive(m, w)
           /\ OutDir(n) # UserDir(m, w)
           /\ Archive(n, v) # SrcDir(m, w) /\ Archive(n, v) # UserArchive(m, w) /\ Archive(n, v) # UserDir(m, w)
           /\ SrcDir(n, v) # UserArchive(m, w) /\ SrcDir(n, v) # UserDir(m, w)
           /\ UserArchive(n, v) # UserDir(m, w)
BY DEF OutDir, Archive, SrcDir, UserArchive, UserDir

LEMMA PathsNamed ==
    ASSUME NEW n \in Names, NEW v \in Versions, NEW m \in Names, NEW w \in Versions
    PROVE  /\ OutDir(n) = OutDir(m) => n = m
           /\ Archive(n, v) = Archive(m, w) => n = m
           /\ SrcDir(n, v) = SrcDir(m, w) => n = m
           /\ UserArchive(n, v) = UserArchive(m, w) => n = m
           /\ UserDir(n, v) = UserDir(m, w) => n = m
BY DEF OutDir, Archive, SrcDir, UserArchive, UserDir

\* A path belongs to one package at most, and the repository to none.
LEMMA OwnPathsApart ==
    ASSUME NEW n \in Names, NEW m \in Names, NEW x, OwnPath(n, x)
    PROVE  (OwnPath(m, x) => n = m) /\ x # None /\ x # Repository
<1>1. x # None /\ x # Repository
  <2>1. Versions # {} => x # None /\ x # Repository
    BY PathKinds DEF OwnPath
  <2>2. OutDir(n) # None /\ OutDir(n) # Repository
    BY DEF OutDir, None, Repository
  <2> QED
    BY <2>1, <2>2 DEF OwnPath
<1>2. ASSUME OwnPath(m, x) PROVE n = m
  <2>1. CASE x = OutDir(n) /\ x = OutDir(m)
    BY <2>1 DEF OutDir
  <2>2. CASE x # OutDir(n) \/ x # OutDir(m)
    BY <1>2, <2>2, PathsApart, PathsNamed DEF OwnPath
  <2> QED
    BY <2>1, <2>2
<1> QED
  BY <1>1, <1>2

\* Only the paths of n, and the repository, are touched.
Local(n) ==
    \A x : ~OwnPath(n, x) /\ x \notin {Repository, None} =>
        (x \in fs' <=> x \in fs) /\ (x \in configured' <=> x \in configured)

\* It is only for its own paths that a record is or is not all right.
LEMMA GoodAgree ==
    ASSUME NEW n \in Names, NEW p, Versioned(p), PathShape(n, p), StateShape(n, p),
           NEW F, NEW C, NEW F2, NEW C2, Good(n, p, F, C),
           \A x : OwnPath(n, x) => (x \in F2 <=> x \in F) /\ (x \in C2 <=> x \in C)
    PROVE  Good(n, p, F2, C2)
<1>1. p.archive # None => OwnPath(n, p.archive)
  BY DEF PathShape, OwnPath
<1>2. p.state \in {"unpacked", "configured"} /\ ~p.system => OwnPath(n, p.src_root) /\ OwnPath(n, OutRoot(n, p))
  BY DEF StateShape, OwnPath, Versioned, OutRoot
<1>3. Backed(n, p, F2, C2)
  BY <1>1, <1>2 DEF Good, Backed, StateShape, Versioned
<1>4. OwnPath(n, OutDir(n)) /\ \A v \in Versions : OwnPath(n, Archive(n, v)) /\ OwnPath(n, SrcDir(n, v))
  BY DEF OwnPath
<1>5. Clean(n, p, F2, C2)
  BY <1>4 DEF Good, Clean
<1> QED
  BY <1>3, <1>5 DEF Good

\* A package for which all is well does not mind what happens to others' paths.
LEMMA GoodForeign ==
    ASSUME NEW m \in Names, NEW n \in Names, m # n, Local(m), NEW p, Versioned(p),
           PathShape(n, p), StateShape(n, p), Good(n, p, fs, configured)
    PROVE  Good(n, p, fs', configured')
<1>1. ASSUME NEW x, OwnPath(n, x)
      PROVE  (x \in fs' <=> x \in fs) /\ (x \in configured' <=> x \in configured)
  BY <1>1, OwnPathsApart DEF Local
<1> QED
  BY <1>1, GoodAgree

\* The packages that the command is not about, after any of its steps.
LEMMA OthersStay ==
    ASSUME IndInv, FileInv, NEW m \in Names, cmd = Idle \/ cmd.name = m, Local(m), killed' = killed,
           \A n \in Names \ {m} : selected'[n] = selected[n]
    PROVE  \A n \in Names \ killed' : n # m => Good(n, selected'[n], fs', configured')
<1> SUFFICES ASSUME NEW n \in Names, n \notin killed, n # m PROVE Good(n, selected[n], fs', configured')
  OBVIOUS
<1>1. Good(n, selected[n], fs, configured)
  BY DEF FileInv, OthersInv
<1>2. PathShape(n, selected[n]) /\ StateShape(n, selected[n]) /\ Versioned(selected[n])
  BY DEF FileInv, ObjectsInv, IndInv, RecordsInv
<1> QED
  BY <1>1, <1>2, GoodForeign

\* A step of a command on its way.
LEMMA StepFiles ==
    ASSUME IndInv, FileInv, cmd \in Commands, cmd' \in Commands, cmd'.name = cmd.name,
           selected' = selected, killed' = killed, Local(cmd.name), CommandShape(cmd'),
           cmd'.step \in Creating \cup {"configure", "purge_src"} => cmd'.p = selected[cmd.name],
           cmd'.step \in Creating => cmd'.path \notin fs',
           configured' \subseteq fs' \ {Repository}, cmd'.arm \cap configured' = {},
           cmd.name \notin killed => Outcome(cmd', fs', configured')
    PROVE  FileInv'
<1>1. cmd.name \in Names /\ cmd' # Idle
  BY CommandNotIdle DEF Commands
<1>2. ObjectsInv'
  BY DEF FileInv, ObjectsInv
<1>3. ConfiguredInv' /\ OutcomeInv'
  BY DEF ConfiguredInv, OutcomeInv
<1>4. OthersInv'
  BY <1>1, OthersStay DEF OthersInv
<1> QED
  BY <1>2, <1>3, <1>4 DEF FileInv

\* The beginning of a command.
LEMMA BeginFiles ==
    ASSUME IndInv, FileInv, cmd = Idle, NEW n \in Names, cmd' \in Commands, cmd'.name = n,
           selected' = selected, killed' = killed, fs' = fs, configured' = configured, cmd'.arm = {},
           cmd'.p = selected[n], PathShape(n, cmd'.new), StateShape(n, cmd'.new),
           cmd'.step \in Creating => OwnPath(n, cmd'.path) /\ cmd'.path \notin fs,
           cmd'.step \in {"checkout", "distribute"} => ~cmd'.keep,
           cmd'.step = "configure" => cmd'.new.out_root = OutRoot(n, selected[n]),
           Good(n, selected[n], fs, configured) => Outcome(cmd', fs, configured)
    PROVE  FileInv'
<1>1. cmd' # Idle
  BY CommandNotIdle
<1>2. PathShape(n, selected[n]) /\ (n \notin killed => Good(n, selected[n], fs, configured))
  BY DEF FileInv, ObjectsInv, OthersInv
<1>3. CommandShape(cmd')
  BY <1>2 DEF CommandShape
<1>4. ObjectsInv'
  BY <1>3 DEF FileInv, ObjectsInv
<1>5. ConfiguredInv' /\ OutcomeInv'
  BY <1>2 DEF FileInv, ConfiguredInv, OutcomeInv
<1>6. OthersInv'
  BY <1>1 DEF FileInv, OthersInv
<1> QED
  BY <1>4, <1>5, <1>6 DEF FileInv

\* The end of a command, successful or not.
LEMMA EndFiles ==
    ASSUME IndInv, FileInv, cmd \in Commands, cmd' = Idle, killed' = killed, Local(cmd.name),
           \A n \in Names \ {cmd.name} : selected'[n] = selected[n],
           PathShape(cmd.name, selected'[cmd.name]), StateShape(cmd.name, selected'[cmd.name]),
           configured' \subseteq fs' \ {Repository},
           cmd.name \notin killed => Good(cmd.name, selected'[cmd.name], fs', configured')
    PROVE  FileInv'
<1>1. cmd.name \in Names
  BY DEF Commands
<1>2. ObjectsInv'
  BY DEF FileInv, ObjectsInv
<1>3. ConfiguredInv' /\ OutcomeInv'
  BY DEF ConfiguredInv, OutcomeInv
<1>4. OthersInv'
  BY <1>1, OthersStay DEF OthersInv
<1> QED
  BY <1>2, <1>3, <1>4 DEF FileInv

LEMMA FileInvInit == ASSUME Init PROVE FileInv
<1>1. \A n \in Names : PathShape(n, Transient) /\ StateShape(n, Transient)
  BY DEF PathShape, StateShape, Transient
<1>2. ASSUME NEW n \in Names PROVE Good(n, Transient, fs, configured)
  <2>1. Backed(n, Transient, fs, configured)
    BY DEF Backed, Transient
  <2>2. ASSUME NEW v \in Versions PROVE Archive(n, v) \notin fs /\ SrcDir(n, v) \notin fs
    <3>1. ASSUME NEW e \in Existing PROVE e[1] \in Names /\ e[2] \in Versions
      BY PackageAssumption
    <3> QED
      BY <3>1, PathsApart, PathKinds DEF Init
  <2> QED
    BY <2>1, <2>2 DEF Good, Clean, Init
<1> QED
  BY <1>1, <1>2 DEF Init, FileInv, ObjectsInv, ConfiguredInv, OthersInv, OutcomeInv

-----------------------------------------------------------------------------
\* A package that may be replaced owns all that there is of it, and all that it
\* owns is there.
LEMMA Replaced ==
    ASSUME NEW n \in Names, NEW p, PathShape(n, p), StateShape(n, p), Versioned(p),
           NEW F, NEW C, Good(n, p, F, C), p.state \in {"transient", "fetched", "unpacked"}
    PROVE  /\ OutDir(n) \notin C /\ p.out_root = None
           /\ \A v \in Versions : /\ Archive(n, v) \in F => Archive(n, v) \in DoomedArchive(p)
                                  /\ SrcDir(n, v) \in F => SrcDir(n, v) \in DoomedSrc(p)
           /\ DoomedSrc(p) \subseteq F /\ DoomedArchive(p) \subseteq F
           /\ \A x \in DoomedSrc(p) : \E v \in Versions : x \in {SrcDir(n, v), UserDir(n, v)}
           /\ \A x \in DoomedArchive(p) : \E v \in Versions : x \in {Archive(n, v), UserArchive(n, v)}
<1>1. p.out_root = None
  BY DEF StateShape, Transient
<1>2. None # OutDir(n)
  BY DEF None, OutDir
<1>3. OutDir(n) \notin C
  BY <1>1, <1>2 DEF Good, Clean
<1>4. \A v \in Versions : /\ Archive(n, v) \in F => Archive(n, v) \in DoomedArchive(p)
                          /\ SrcDir(n, v) \in F => SrcDir(n, v) \in DoomedSrc(p)
  BY DEF Good, Clean, DoomedArchive, DoomedSrc
<1>5. p.purge_src => p.state = "unpacked"
  BY DEF StateShape, Transient
<1>6. p.purge_archive => p.state \in {"fetched", "unpacked"} /\ p.archive # None
  BY DEF StateShape, PathShape, Transient
<1>7. DoomedSrc(p) \subseteq F /\ DoomedArchive(p) \subseteq F
  BY <1>5, <1>6 DEF DoomedSrc, DoomedArchive, Good, Backed
<1>8. /\ \A x \in DoomedSrc(p) : \E v \in Versions : x \in {SrcDir(n, v), UserDir(n, v)}
      /\ \A x \in DoomedArchive(p) : \E v \in Versions : x \in {Archive(n, v), UserArchive(n, v)}
  BY DEF DoomedSrc, DoomedArchive, PathShape
<1> QED
  BY <1>1, <1>3, <1>4, <1>7, <1>8

LEMMA CommandFiles ==
    ASSUME IndInv, IndInv', FileInv, ~SelfReplace, NEW n \in Names, Command(n)
    PROVE  FileInv'
<1> DEFINE p == selected[n]
           both == DoomedSrc(p) \cup DoomedArchive(p)
<1>1. p \in Packages /\ Versioned(p) /\ PathShape(n, p) /\ StateShape(n, p)
  BY DEF IndInv, ShapeInv, RecordsInv, FileInv, ObjectsInv
<1>2. ASSUME NEW step \in Steps, NEW new, NEW path, NEW keep, Begin(step, n, new, path, keep),
             PathShape(n, new), StateShape(n, new),
             step \in Creating => OwnPath(n, path) /\ path \notin fs,
             step \in {"checkout", "distribute"} => ~keep,
             step = "configure" => new.out_root = OutRoot(n, p),
             Good(n, p, fs, configured) =>
                Outcome([step |-> step, name |-> n, p |-> p, new |-> new, path |-> path, arm |-> {}, keep |-> keep],
                        fs, configured)
      PROVE  FileInv'
  <2> DEFINE c == [step |-> step, name |-> n, p |-> p, new |-> new, path |-> path, arm |-> {}, keep |-> keep]
  <2>1. /\ cmd' = c /\ cmd.step = "idle" /\ selected' = selected /\ fs' = fs /\ configured' = configured
        /\ killed' = killed
    BY <1>2 DEF Begin, At
  <2>2. cmd = Idle
    BY <2>1, CommandNotIdle DEF IndInv, ShapeInv
  <2>3. /\ c.step = step /\ c.name = n /\ c.p = p /\ c.new = new /\ c.path = path /\ c.arm = {}
        /\ c.keep = keep
    OBVIOUS
  <2>4. c # Idle
    BY <1>2, <2>3 DEF Idle, Steps
  <2> HIDE DEF c
  <2>5. cmd' \in Commands
    BY <2>1, <2>4 DEF IndInv, ShapeInv
  <2> QED
    BY <1>2, <2>1, <2>2, <2>3, <2>5, BeginFiles DEF c
<1>3. MayReplace(n) /\ Good(n, p, fs, configured) =>
        /\ OutDir(n) \notin configured /\ p.out_root = None
        /\ \A v \in Versions : /\ Archive(n, v) \in fs => Archive(n, v) \in DoomedArchive(p)
                               /\ SrcDir(n, v) \in fs => SrcDir(n, v) \in DoomedSrc(p)
        /\ DoomedSrc(p) \subseteq fs /\ DoomedArchive(p) \subseteq fs
        /\ \A x \in DoomedSrc(p) : \E v \in Versions : x \in {SrcDir(n, v), UserDir(n, v)}
        /\ \A x \in DoomedArchive(p) : \E v \in Versions : x \in {Archive(n, v), UserArchive(n, v)}
  BY <1>1, Replaced DEF MayReplace
<1> HIDE DEF p
<1>4. ASSUME NEW v \in Versions, Fetch(n, v) PROVE FileInv'
  <2> DEFINE new == [Transient EXCEPT !.state = "fetched", !.version = v,
                        !.archive = Archive(n, v), !.purge_archive = TRUE]
             c == [step |-> "create", name |-> n, p |-> p, new |-> new, path |-> Archive(n, v),
                   arm |-> {}, keep |-> FALSE]
  <2>1. MayReplace(n) /\ Archive(n, v) \notin fs /\ Begin("create", n, new, Archive(n, v), FALSE)
    BY <1>4 DEF Fetch
  <2>2. /\ new.state = "fetched" /\ new.version = v /\ new.archive = Archive(n, v) /\ new.purge_archive
        /\ new.src_root = None /\ ~new.purge_src /\ new.out_root = None /\ ~new.external /\ ~new.system
    BY DEF Transient
  <2> HIDE DEF new
  <2>3. PathShape(n, new) /\ StateShape(n, new)
    BY <2>2, PathKinds DEF PathShape, StateShape
  <2>4. ASSUME Good(n, p, fs, configured) PROVE Outcome(c, fs, configured)
    <3>1. Archive(n, v) \notin both
      BY <1>3, <2>1, <2>4
    <3>2. Backed(n, new, (fs \cup {Archive(n, v)}) \ both, configured \ both)
      BY <2>2, <3>1 DEF Backed
    <3>3. Clean(n, new, (fs \cup {Archive(n, v)}) \ both, configured \ both)
      BY <1>3, <2>1, <2>2, <2>4, PathsApart DEF Clean
    <3> QED
      BY <2>4, <3>2, <3>3 DEF Outcome, Good, Creating
  <2>5. OwnPath(n, Archive(n, v))
    BY DEF OwnPath
  <2> QED
    BY <1>2, <2>1, <2>3, <2>4, <2>5 DEF Steps
<1>5. ASSUME NEW v \in Versions, NEW purge \in BOOLEAN, FetchExisting(n, v, UserArchive(n, v), purge)
      PROVE  FileInv'
  <2> DEFINE a == UserArchive(n, v)
             new == [Transient EXCEPT !.state = "fetched", !.version = v,
                        !.archive = a, !.purge_archive = purge]
             c == [step |-> "purge_src", name |-> n, p |-> p, new |-> new, path |-> None,
                   arm |-> {}, keep |-> FALSE]
  <2>1. /\ MayReplace(n) /\ a \in fs /\ Begin("purge_src", n, new, None, FALSE)
        /\ a \notin DoomedArchive(p)
    BY <1>5 DEF FetchExisting, DoomedArchive, p
  <2>2. /\ new.state = "fetched" /\ new.archive = a
        /\ new.src_root = None /\ ~new.purge_src /\ new.out_root = None /\ ~new.external /\ ~new.system
    BY DEF Transient
  <2> HIDE DEF new
  <2>3. PathShape(n, new) /\ StateShape(n, new)
    BY <2>2, PathKinds DEF PathShape, StateShape
  <2>4. ASSUME Good(n, p, fs, configured) PROVE Outcome(c, fs, configured)
    <3>1. a \notin both
      BY <1>3, <2>1, <2>4, PathsApart
    <3>2. Backed(n, new, fs \ both, configured \ both)
      BY <2>1, <2>2, <3>1 DEF Backed
    <3>3. Clean(n, new, fs \ both, configured \ both)
      BY <1>3, <2>1, <2>2, <2>4 DEF Clean
    <3>4. Clean(n, p, fs \ {}, configured)
      BY <2>4 DEF Good, Clean
    <3> QED
      BY <2>4, <3>2, <3>3, <3>4 DEF Outcome, Good, Creating
  <2> QED
    BY <1>2, <2>1, <2>3, <2>4 DEF Steps, Creating
<1>6. ASSUME Unpack(n) PROVE FileInv'
  <2> DEFINE d == SrcDir(n, p.version)
             new == [p EXCEPT !.state = "unpacked", !.src_root = d, !.purge_src = TRUE]
             c == [step |-> "create", name |-> n, p |-> p, new |-> new, path |-> d, arm |-> {}, keep |-> TRUE]
  <2>1. p.state = "fetched" /\ d \notin fs /\ Begin("create", n, new, d, TRUE) /\ MayReplace(n)
    BY <1>6 DEF Unpack, MayReplace, p
  <2>2. /\ new.state = "unpacked" /\ new.version = p.version /\ new.archive = p.archive
        /\ new.purge_archive = p.purge_archive /\ new.src_root = d /\ new.purge_src
        /\ new.out_root = p.out_root /\ new.external = p.external /\ new.system = p.system
    BY <1>1 DEF Packages
  <2>3. p.version \in Versions /\ ~p.system /\ ~p.external /\ p.out_root = None
    BY <1>1, <2>1 DEF Versioned, StateShape
  <2> HIDE DEF new
  <2>4. PathShape(n, new) /\ StateShape(n, new)
    BY <1>1, <2>2, <2>3, PathKinds DEF PathShape, StateShape
  <2>5. ASSUME Good(n, p, fs, configured) PROVE Outcome(c, fs, configured)
    <3>1. d \notin configured
      BY <2>1 DEF FileInv, ConfiguredInv
    <3>2. Backed(n, new, fs \cup {d}, configured)
      BY <2>1, <2>2, <2>3, <2>5, <3>1 DEF Backed, Good, OutRoot
    <3>3. Clean(n, new, fs \cup {d}, configured)
      <4>1. \A w \in Versions : SrcDir(n, w) \notin fs
        BY <1>3, <1>1, <2>1, <2>5 DEF DoomedSrc, StateShape
      <4> QED
        BY <2>2, <2>3, <2>5, <4>1, PathsApart DEF Good, Clean
    <3> QED
      BY <2>5, <3>2, <3>3 DEF Outcome, Good, Creating
  <2>6. OwnPath(n, d)
    BY <2>3 DEF OwnPath
  <2> QED
    BY <1>2, <2>1, <2>4, <2>5, <2>6 DEF Steps
<1>7. ASSUME NEW v \in Versions, NEW purge \in BOOLEAN, UnpackExisting(n, v, UserDir(n, v), purge)
      PROVE  FileInv'
  <2> DEFINE d == UserDir(n, v)
             new == [Transient EXCEPT !.state = "unpacked", !.version = v, !.external = TRUE,
                        !.src_root = d, !.purge_src = purge]
             c == [step |-> "purge_src", name |-> n, p |-> p, new |-> new, path |-> None,
                   arm |-> {}, keep |-> FALSE]
  <2>1. /\ MayReplace(n) /\ d \in fs /\ Begin("purge_src", n, new, None, FALSE)
        /\ d \notin DoomedSrc(p)
    BY <1>7 DEF UnpackExisting, DoomedSrc, p
  <2>2. /\ new.state = "unpacked" /\ new.archive = None /\ ~new.purge_archive
        /\ new.src_root = d /\ new.out_root = None /\ new.external /\ ~new.system
    BY DEF Transient
  <2> HIDE DEF new
  <2>3. PathShape(n, new) /\ StateShape(n, new)
    BY <2>2, PathKinds DEF PathShape, StateShape
  <2>4. ASSUME Good(n, p, fs, configured) PROVE Outcome(c, fs, configured)
    <3>1. d \notin both
      BY <1>3, <2>1, <2>4, PathsApart
    <3>2. Backed(n, new, fs \ both, configured \ both)
      BY <1>3, <2>1, <2>2, <2>4, <3>1 DEF Backed, OutRoot
    <3>3. Clean(n, new, fs \ both, configured \ both)
      BY <1>3, <2>1, <2>2, <2>4 DEF Clean
    <3>4. Clean(n, p, fs \ {}, configured)
      BY <2>4 DEF Good, Clean
    <3> QED
      BY <2>4, <3>2, <3>3, <3>4 DEF Outcome, Good, Creating
  <2> QED
    BY <1>2, <2>1, <2>3, <2>4 DEF Steps, Creating
<1>8. ASSUME NEW v \in Versions, Checkout(n, v) PROVE FileInv'
  <2> DEFINE d == SrcDir(n, v)
             new == [Transient EXCEPT !.state = "unpacked", !.version = v, !.src_root = d, !.purge_src = TRUE]
             c == [step |-> "checkout", name |-> n, p |-> p, new |-> new, path |-> d, arm |-> {}, keep |-> FALSE]
  <2>1. MayReplace(n) /\ d \notin fs /\ Begin("checkout", n, new, d, FALSE)
    BY <1>8 DEF Checkout
  <2>2. /\ new.state = "unpacked" /\ new.version = v /\ new.archive = None /\ ~new.purge_archive
        /\ new.src_root = d /\ new.purge_src /\ new.out_root = None /\ ~new.external /\ ~new.system
    BY DEF Transient
  <2> HIDE DEF new
  <2>3. PathShape(n, new) /\ StateShape(n, new)
    BY <2>2, PathKinds DEF PathShape, StateShape
  <2>4. ASSUME Good(n, p, fs, configured) PROVE Outcome(c, fs, configured)
    <3>1. d \notin both /\ d \notin configured
      BY <1>3, <2>1, <2>4 DEF FileInv, ConfiguredInv
    <3>2. Backed(n, new, (fs \cup {d}) \ both, configured \ both)
      BY <2>2, <3>1 DEF Backed, OutRoot
    <3>3. Clean(n, new, (fs \cup {d}) \ both, configured \ both)
      BY <1>3, <2>1, <2>2, <2>4, PathsApart DEF Clean
    <3> QED
      BY <2>4, <3>2, <3>3 DEF Outcome, Good, Creating
  <2>5. OwnPath(n, d)
    BY DEF OwnPath
  <2> QED
    BY <1>2, <2>1, <2>3, <2>4, <2>5 DEF Steps
<1>9. ASSUME Configure(n) PROVE FileInv'
  <2> DEFINE names == {d[1] : d \in Depends[<<n, p.version>>]}
             o == OutRoot(n, p)
             new == [p EXCEPT !.state = "configured", !.out_root = o, !.prerequisites = names]
             c == [step |-> "configure", name |-> n, p |-> p, new |-> new, path |-> None, arm |-> {}, keep |-> TRUE]
  <2>1. p.state = "unpacked" /\ Begin("configure", n, new, None, TRUE)
    BY <1>9 DEF Configure, MayConfigure, p
  <2> HIDE DEF names
  <2>2. /\ new.state = "configured" /\ new.version = p.version /\ new.archive = p.archive
        /\ new.purge_archive = p.purge_archive /\ new.src_root = p.src_root /\ new.purge_src = p.purge_src
        /\ new.out_root = o /\ new.external = p.external /\ new.system = p.system
    BY <1>1 DEF Packages
  <2>3. p.version \in Versions /\ ~p.system
    BY <1>1, <2>1 DEF Versioned
  <2>4. /\ o = (IF p.external THEN OutDir(n) ELSE SrcDir(n, p.version))
        /\ OutRoot(n, new) = o
    BY <2>2 DEF OutRoot
  <2> HIDE DEF new, o
  <2>5. PathShape(n, new) /\ StateShape(n, new)
    BY <1>1, <2>1, <2>2, <2>3, <2>4 DEF PathShape, StateShape
  <2>6. ASSUME Good(n, p, fs, configured) PROVE Outcome(c, fs, configured)
    <3>1. Backed(n, new, fs \cup {o}, configured \cup {o})
      BY <2>1, <2>2, <2>6 DEF Backed, Good
    <3>2. Clean(n, new, fs \cup {o}, configured \cup {o})
      <4>1. CASE p.external
        <5>1. o = OutDir(n)
          BY <2>4, <4>1
        <5> QED
          BY <2>2, <2>3, <2>6, <5>1, PathsApart DEF Good, Clean
      <4>2. CASE ~p.external
        <5>1. o = SrcDir(n, p.version) /\ p.src_root = o /\ p.purge_src /\ OutDir(n) \notin configured
          BY <1>1, <1>3, <2>1, <2>3, <2>4, <2>6, <4>2 DEF StateShape, MayReplace, p
        <5> QED
          BY <2>2, <2>3, <2>6, <5>1, PathsApart DEF Good, Clean
      <4> QED
        BY <4>1, <4>2
    <3> QED
      BY <2>2, <2>6, <3>1, <3>2 DEF Outcome, Good, Creating
  <2> QED
    BY <1>2, <2>1, <2>2, <2>5, <2>6 DEF Steps, Creating, o
<1>10. ASSUME NEW v \in Versions, ConfigureSystem(n, v) PROVE FileInv'
  <2> DEFINE new == [Transient EXCEPT !.state = "configured", !.version = v, !.system = TRUE]
             c == [step |-> "commit", name |-> n, p |-> p, new |-> new, path |-> None, arm |-> {}, keep |-> TRUE]
  <2>1. p = Transient /\ Begin("commit", n, new, None, TRUE)
    BY <1>10 DEF ConfigureSystem, p
  <2>2. /\ new.state = "configured" /\ new.system
        /\ new.archive = None /\ new.src_root = None /\ new.out_root = None
        /\ ~new.purge_src /\ ~new.purge_archive
    BY DEF Transient
  <2>3. /\ p.archive = None /\ p.src_root = None /\ p.out_root = None
        /\ ~p.purge_src /\ ~p.purge_archive
    BY <2>1 DEF Transient
  <2> HIDE DEF new
  <2>4. PathShape(n, new) /\ StateShape(n, new)
    BY <2>2 DEF PathShape, StateShape
  <2>5. ASSUME Good(n, p, fs, configured) PROVE Outcome(c, fs, configured)
    <3>1. Good(n, new, fs, configured)
      BY <2>2, <2>3, <2>5 DEF Good, Backed, Clean
    <3> QED
      BY <3>1 DEF Outcome, Creating
  <2> QED
    BY <1>2, <2>1, <2>4, <2>5 DEF Steps, Creating
<1>11. PathShape(n, Transient) /\ StateShape(n, Transient)
  BY DEF PathShape, StateShape, Transient
<1>12. ASSUME NEW keep \in BOOLEAN, p.state = "configured", p.system, Begin("commit", n, Transient, None, keep)
       PROVE  FileInv'
  <2> DEFINE c == [step |-> "commit", name |-> n, p |-> p, new |-> Transient, path |-> None, arm |-> {}, keep |-> keep]
  <2>1. ASSUME Good(n, p, fs, configured) PROVE Outcome(c, fs, configured)
    <3>1. Good(n, Transient, fs, configured)
      BY <1>1, <1>12, <2>1 DEF Good, Backed, Clean, StateShape, Transient
    <3> QED
      BY <3>1 DEF Outcome, Creating
  <2> QED
    BY <1>2, <1>11, <1>12, <2>1 DEF Steps, Creating
<1>13. ASSUME NEW clean \in BOOLEAN, Disfigure(n, clean) PROVE FileInv'
  <2>1. CASE p.system
    BY <1>12, <1>13, <2>1 DEF Disfigure, p
  <2>2. CASE ~p.system
    <3> DEFINE new == [p EXCEPT !.state = "unpacked", !.out_root = None, !.prerequisites = {}]
               c == [step |-> "disfigure", name |-> n, p |-> p, new |-> new, path |-> None, arm |-> {},
                     keep |-> ~clean]
               o == p.out_root
    <3>1. p.state = "configured" /\ Begin("disfigure", n, new, None, ~clean)
      BY <1>13, <2>2 DEF Disfigure, p
    <3>2. /\ new.state = "unpacked" /\ new.version = p.version /\ new.archive = p.archive
          /\ new.purge_archive = p.purge_archive /\ new.src_root = p.src_root /\ new.purge_src = p.purge_src
          /\ new.out_root = None /\ new.external = p.external /\ new.system = p.system
      BY <1>1 DEF Packages
    <3>3. p.version \in Versions /\ OutRoot(n, new) = o
          /\ o = (IF p.external THEN OutDir(n) ELSE SrcDir(n, p.version))
      BY <1>1, <2>2, <3>1, <3>2 DEF Versioned, StateShape, OutRoot
    <3> HIDE DEF new, o
    <3>4. PathShape(n, new) /\ StateShape(n, new)
      BY <1>1, <2>2, <3>1, <3>2 DEF PathShape, StateShape
    <3>5. ASSUME Good(n, p, fs, configured) PROVE Outcome(c, fs, configured)
      <4>1. Clean(n, new, fs, configured \ {o})
        <5>1. OutDir(n) \notin configured \ {o}
          BY <3>5 DEF Good, Clean, o
        <5> QED
          BY <3>2, <3>5, <5>1 DEF Good, Clean
      <4>2. Backed(n, new, fs, configured \ {o})
        BY <2>2, <3>1, <3>2, <3>3, <3>5 DEF Good, Backed
      <4>3. p.external => Good(n, new, fs \ {o}, configured \ {o})
        <5> SUFFICES ASSUME p.external PROVE Good(n, new, fs \ {o}, configured \ {o})
          OBVIOUS
        <5>1. o = OutDir(n) /\ p.archive = None /\ \E w \in Versions : p.src_root = UserDir(n, w)
          BY <1>1, <2>2, <3>1, <3>3 DEF StateShape
        <5>2. p.src_root # o
          BY <5>1, PathsApart
        <5> QED
          BY <3>2, <4>1, <4>2, <5>1, <5>2 DEF Good, Clean, Backed
      <4> QED
        BY <3>5, <4>1, <4>2, <4>3 DEF Outcome, Good, Creating, o
    <3>6. (~clean) \in BOOLEAN
      OBVIOUS
    <3> QED
      BY <1>2, <3>1, <3>4, <3>5, <3>6 DEF Steps, Creating
  <2> QED
    BY <2>1, <2>2
<1>14. ASSUME NEW keep \in BOOLEAN, Purge(n, keep) PROVE FileInv'
  <2>1. p.state \in {"fetched", "unpacked"} /\ MayReplace(n) /\ (keep => p.archive # None)
    BY <1>14 DEF Purge, MayReplace, p
  <2>2. ASSUME Good(n, p, fs, configured) PROVE Clean(n, p, fs \ {}, configured)
    BY <2>2 DEF Good, Clean
  <2>3. CASE keep
    <3> DEFINE new == [p EXCEPT !.state = "fetched", !.src_root = None, !.purge_src = FALSE]
               c == [step |-> "purge_src", name |-> n, p |-> p, new |-> new, path |-> None, arm |-> {},
                     keep |-> keep]
               src == DoomedSrc(p)
    <3>1. Begin("purge_src", n, new, None, keep)
      BY <1>14, <2>3 DEF Purge, p
    <3>2. /\ new.state = "fetched" /\ new.version = p.version /\ new.archive = p.archive
          /\ new.purge_archive = p.purge_archive /\ new.src_root = None /\ ~new.purge_src
          /\ new.out_root = p.out_root /\ new.external = p.external /\ new.system = p.system
      BY <1>1 DEF Packages
    <3>3. ~p.external /\ p.out_root = None /\ p.archive # None
      BY <1>1, <2>1, <2>3 DEF StateShape, Versioned
    <3> HIDE DEF new
    <3>4. PathShape(n, new) /\ StateShape(n, new)
      BY <1>1, <3>2, <3>3 DEF PathShape, StateShape
    <3>5. ASSUME Good(n, p, fs, configured) PROVE Outcome(c, fs, configured)
      <4>1. PICK w \in Versions : p.archive \in {Archive(n, w), UserArchive(n, w)}
        BY <1>1, <3>3 DEF PathShape
      <4>2. p.archive \notin src
        BY <1>3, <2>1, <3>5, <4>1, PathsApart
      <4>3. Backed(n, new, fs \ src, configured \ src)
        BY <2>1, <3>2, <3>3, <3>5, <4>2 DEF Good, Backed
      <4>4. Clean(n, new, fs \ src, configured \ src)
        BY <1>3, <2>1, <3>2, <3>5 DEF Good, Clean
      <4> QED
        BY <2>2, <2>3, <3>5, <4>3, <4>4 DEF Outcome, Good, Creating
    <3> QED
      BY <1>2, <3>1, <3>4, <3>5 DEF Steps, Creating
  <2>4. CASE ~keep
    <3> DEFINE c == [step |-> "purge_src", name |-> n, p |-> p, new |-> Transient, path |-> None, arm |-> {},
                     keep |-> keep]
    <3>1. Begin("purge_src", n, Transient, None, keep)
      BY <1>14, <2>4 DEF Purge
    <3>2. ASSUME Good(n, p, fs, configured) PROVE Outcome(c, fs, configured)
      <4>1. Good(n, Transient, fs \ both, configured \ both)
        BY <1>3, <2>1, <3>2 DEF Good, Backed, Clean, Transient
      <4> QED
        BY <2>2, <2>4, <3>2, <4>1 DEF Outcome, Creating
    <3> QED
      BY <1>2, <1>11, <3>1, <3>2 DEF Steps, Creating
  <2> QED
    BY <2>3, <2>4
<1>15. ASSUME PurgeBroken(n) PROVE FileInv'
  <2> DEFINE c == [step |-> "commit", name |-> n, p |-> p, new |-> Transient, path |-> None, arm |-> {}, keep |-> TRUE]
  <2>1. /\ p.out_root = None \/ p.out_root \notin fs
        /\ ~p.purge_src \/ p.src_root \notin fs
        /\ ~p.purge_archive \/ p.archive \notin fs
        /\ Begin("commit", n, Transient, None, TRUE)
    BY <1>15 DEF PurgeBroken, p
  <2>2. ASSUME Good(n, p, fs, configured) PROVE Outcome(c, fs, configured)
    <3>1. OutDir(n) \notin configured
      <4>1. OutDir(n) # None /\ configured \subseteq fs
        BY DEF OutDir, None, FileInv, ConfiguredInv
      <4> QED
        BY <2>1, <2>2, <4>1 DEF Good, Clean
    <3>2. \A v \in Versions : Archive(n, v) \notin fs /\ SrcDir(n, v) \notin fs
      BY <2>1, <2>2 DEF Good, Clean
    <3>3. Good(n, Transient, fs, configured)
      BY <3>1, <3>2 DEF Good, Backed, Clean, Transient
    <3> QED
      BY <3>3 DEF Outcome, Creating
  <2> QED
    BY <1>2, <1>11, <2>1, <2>2 DEF Steps, Creating
<1> QED
  BY <1>4, <1>5, <1>6, <1>7, <1>8, <1>9, <1>10, <1>13, <1>14, <1>15 DEF Command

-----------------------------------------------------------------------------
\* What is removed or created for a package is its own.
LEMMA OwnPaths ==
    ASSUME NEW n \in Names, NEW p, PathShape(n, p)
    PROVE  /\ p.archive # None => OwnPath(n, p.archive)
           /\ p.src_root # None => OwnPath(n, p.src_root)
           /\ p.out_root # None => OwnPath(n, p.out_root)
           /\ \A x \in DoomedSrc(p) \cup DoomedArchive(p) : OwnPath(n, x)
BY DEF PathShape, OwnPath, DoomedSrc, DoomedArchive

LEMMA CommandStepFiles == ASSUME IndInv, IndInv', FileInv, Step PROVE FileInv'
<1> DEFINE n == cmd.name
           p == cmd.p
           new == cmd.new
           both == DoomedSrc(p) \cup DoomedArchive(p)
<1>1. cmd \in Commands
  BY DEF IndInv, ShapeInv, Step, Create, CreateFails, CheckoutMove, CheckoutDistribute, CheckoutFails,
         PurgeSrc, PurgeSrcFails, PurgeArchive, PurgeArchiveFails, RunConfigure, RunConfigureFails,
         RunDisfigure, RunDisfigureFails, Commit, At, Idle
<1>2. cmd # Idle /\ n \in Names /\ p \in Packages /\ new \in Packages /\ cmd.path \in Paths
  BY <1>1, CommandNotIdle DEF Commands
<1>3. /\ CommandShape(cmd)
      /\ cmd.step \in Creating \cup {"configure", "purge_src"} => p = selected[n]
      /\ cmd.step \in Creating => cmd.path \notin fs
      /\ configured \subseteq fs \ {Repository} /\ cmd.arm \cap configured = {}
      /\ n \notin killed => Outcome(cmd, fs, configured)
      /\ PathShape(n, selected[n]) /\ StateShape(n, selected[n])
      /\ selected \in [Names -> Packages]
  BY <1>2 DEF FileInv, ObjectsInv, ConfiguredInv, OutcomeInv, IndInv, ShapeInv
<1>4. PathShape(n, p) /\ PathShape(n, new) /\ StateShape(n, new)
      /\ cmd.arm \subseteq {cmd.path} /\ (cmd.arm # {} => OwnPath(n, cmd.path))
      /\ \A x \in both : OwnPath(n, x)
  BY <1>2, <1>3, OwnPaths DEF CommandShape
<1>5. /\ Versioned(p) /\ Versioned(new)
       /\ \A x : OwnPath(n, x) => x # None /\ x # Repository
  BY <1>2, OwnPathsApart DEF IndInv, CommandInv, MayCommit
<1>6. CASE Create
  <2> DEFINE step == IF cmd.keep THEN "commit" ELSE "purge_src"
             c == [cmd EXCEPT !.step = step, !.arm = {cmd.path}]
  <2>1. /\ cmd.step = "create" /\ fs' = fs \cup {cmd.path} /\ cmd' = c
        /\ UNCHANGED <<selected, configured, killed>>
    BY <1>6 DEF Create, At
  <2>2. /\ c.step = step /\ c.arm = {cmd.path} /\ c.name = n /\ c.p = p /\ c.new = new /\ c.path = cmd.path
        /\ c.keep = cmd.keep /\ c \in Commands
    BY <1>1, <1>2 DEF Commands, Steps
  <2> HIDE DEF c
  <2>3. OwnPath(n, cmd.path) /\ cmd.path \notin fs /\ p = selected[n]
    BY <1>3, <2>1 DEF CommandShape, Creating
  <2>4. Local(n)
    BY <2>1, <2>3 DEF Local
  <2>5. CommandShape(c)
    BY <1>3, <1>4, <2>1, <2>2, <2>3 DEF CommandShape, Creating
  <2>6. n \notin killed => Outcome(c, fs', configured')
    <3> SUFFICES ASSUME n \notin killed PROVE Outcome(c, fs \cup {cmd.path}, configured)
      BY <2>1
    <3>1. /\ Good(n, p, fs, configured)
          /\ IF cmd.keep THEN Good(n, new, fs \cup {cmd.path}, configured)
                         ELSE Good(n, new, (fs \cup {cmd.path}) \ both, configured \ both)
      BY <1>3, <2>1 DEF Outcome, Creating
    <3>2. (fs \cup {cmd.path}) \ {cmd.path} = fs
      BY <2>3
    <3> QED
      BY <2>2, <3>1, <3>2 DEF Outcome, Creating, Good
  <2> QED
    BY <1>1, <1>3, <2>1, <2>2, <2>3, <2>4, <2>5, <2>6, StepFiles DEF Creating
<1>7. CASE CreateFails \/ CheckoutFails
  <2>1. /\ cmd.step \in Creating /\ cmd' = Idle /\ fs' \in {fs, fs \cup {Repository}}
        /\ UNCHANGED <<selected, configured, killed>>
    BY <1>7 DEF CreateFails, CheckoutFails, Leftover, At, Creating
  <2>2. Local(n)
    BY <2>1 DEF Local
  <2>3. n \notin killed => Good(n, selected[n], fs, configured)
    BY <1>3, <2>1 DEF Outcome
  <2>4. n \notin killed => Good(n, selected[n], fs', configured)
    <3>1. CASE fs' = fs
      BY <2>3, <3>1
    <3>2. CASE fs' = fs \cup {Repository}
      <4>1. \A v \in Versions : Repository # Archive(n, v) /\ Repository # SrcDir(n, v)
        BY <1>2, PathKinds
      <4> QED
        BY <2>3, <3>2, <4>1 DEF Good, Backed, Clean
    <3> QED
      BY <2>1, <3>1, <3>2
  <2> QED
    BY <1>1, <1>3, <2>1, <2>2, <2>4, EndFiles
<1>8. CASE CheckoutMove
  <2> DEFINE c == [cmd EXCEPT !.step = "distribute"]
  <2>1. /\ cmd.step = "checkout" /\ fs' = fs \ {Repository} /\ cmd' = c
        /\ UNCHANGED <<selected, configured, killed>>
    BY <1>8 DEF CheckoutMove, At, GoTo
  <2>2. /\ c.step = "distribute" /\ c.arm = cmd.arm /\ c.name = n /\ c.p = p /\ c.new = new /\ c.path = cmd.path
        /\ c.keep = cmd.keep /\ c \in Commands
    BY <1>1, <1>2 DEF Commands, Steps
  <2> HIDE DEF c
  <2>3. OwnPath(n, cmd.path) /\ cmd.path \notin fs /\ p = selected[n]
    BY <1>3, <2>1 DEF CommandShape, Creating
  <2>4. Local(n)
    BY <2>1 DEF Local
  <2>5. CommandShape(c)
    BY <1>3, <1>4, <2>1, <2>2, <2>3 DEF CommandShape, Creating
  <2>6. n \notin killed => Outcome(c, fs', configured')
    <3> SUFFICES ASSUME n \notin killed PROVE Outcome(c, fs \ {Repository}, configured)
      BY <2>1
    <3>1. /\ Good(n, p, fs, configured)
          /\ IF cmd.keep THEN Good(n, new, fs \cup {cmd.path}, configured)
                         ELSE Good(n, new, (fs \cup {cmd.path}) \ both, configured \ both)
      BY <1>3, <2>1 DEF Outcome, Creating
    <3>2. StateShape(n, p)
      BY <1>3, <2>3
    <3>3. Good(n, p, fs \ {Repository}, configured)
      BY <1>2, <1>4, <1>5, <3>1, <3>2, GoodAgree
    <3>4. CASE cmd.keep
      <4>1. Good(n, new, (fs \ {Repository}) \cup {cmd.path}, configured)
        BY <1>2, <1>4, <1>5, <3>1, <3>4, GoodAgree
      <4> QED
        BY <2>2, <3>3, <3>4, <4>1 DEF Outcome, Creating
    <3>5. CASE ~cmd.keep
      <4>1. Good(n, new, ((fs \ {Repository}) \cup {cmd.path}) \ both, configured \ both)
        BY <1>2, <1>4, <1>5, <3>1, <3>5, GoodAgree
      <4> QED
        BY <2>2, <3>3, <3>5, <4>1 DEF Outcome, Creating
    <3> QED
      BY <3>4, <3>5
  <2> QED
    BY <1>1, <1>3, <2>1, <2>2, <2>3, <2>4, <2>5, <2>6, StepFiles DEF Creating
<1>9. CASE CheckoutDistribute
  <2> DEFINE c == [cmd EXCEPT !.step = "purge_src", !.arm = {cmd.path}]
  <2>1. /\ cmd.step = "distribute" /\ fs' = fs \cup {Repository, cmd.path} /\ cmd' = c
        /\ UNCHANGED <<selected, configured, killed>>
    BY <1>9 DEF CheckoutDistribute, At
  <2>2. /\ c.step = "purge_src" /\ c.arm = {cmd.path} /\ c.name = n /\ c.p = p /\ c.new = new
        /\ c.path = cmd.path /\ c.keep = cmd.keep /\ c \in Commands
    BY <1>1, <1>2 DEF Commands, Steps
  <2> HIDE DEF c
  <2>3. OwnPath(n, cmd.path) /\ cmd.path \notin fs /\ p = selected[n] /\ ~cmd.keep
    BY <1>3, <2>1 DEF CommandShape, Creating
  <2>4. Local(n)
    BY <2>1, <2>3 DEF Local
  <2>5. CommandShape(c)
    BY <1>3, <1>4, <2>1, <2>2, <2>3 DEF CommandShape, Creating
  <2>6. n \notin killed => Outcome(c, fs', configured')
    <3> SUFFICES ASSUME n \notin killed PROVE Outcome(c, fs \cup {Repository, cmd.path}, configured)
      BY <2>1
    <3>1. Good(n, p, fs, configured) /\ Good(n, new, (fs \cup {cmd.path}) \ both, configured \ both)
      BY <1>3, <2>1, <2>3 DEF Outcome, Creating
    <3>2. StateShape(n, p)
      BY <1>3, <2>3
    <3>3. Good(n, p, (fs \cup {Repository, cmd.path}) \ {cmd.path}, configured)
      BY <1>2, <1>4, <1>5, <2>3, <3>1, <3>2, GoodAgree
    <3>4. Good(n, new, (fs \cup {Repository, cmd.path}) \ both, configured \ both)
      BY <1>2, <1>4, <1>5, <3>1, GoodAgree
    <3> QED
      BY <2>2, <2>3, <3>3, <3>4 DEF Outcome, Creating, Good
  <2> QED
    BY <1>1, <1>3, <2>1, <2>2, <2>3, <2>4, <2>5, <2>6, StepFiles DEF Creating
<1>10. CASE PurgeSrc
  <2> DEFINE step == IF cmd.keep THEN "commit" ELSE "purge_archive"
             src == DoomedSrc(p)
             q == [p EXCEPT !.src_root = None, !.purge_src = FALSE]
             c == [cmd EXCEPT !.step = step, !.p = q]
  <2>1. cmd.step = "purge_src" /\ Remove(src) /\ UNCHANGED <<selected, killed>>
    BY <1>10 DEF PurgeSrc, At, DoomedSrc
  <2>2. cmd' = [cmd EXCEPT !.step = step, !.p.src_root = None, !.p.purge_src = FALSE]
    BY <1>10 DEF PurgeSrc
  <2>3. cmd' = c
    BY <1>1, <1>2, <2>2 DEF Commands, Packages
  <2>4. /\ q.archive = p.archive /\ q.purge_archive = p.purge_archive /\ q.src_root = None /\ ~q.purge_src
        /\ q.out_root = p.out_root /\ q.external = p.external /\ q \in Packages
    <3>1. None \in Paths
      BY DEF Paths
    <3> QED
      BY <1>2, <3>1 DEF Packages
  <2> HIDE DEF q
  <2>5. /\ c.step = step /\ c.arm = cmd.arm /\ c.name = n /\ c.p = q /\ c.new = new
        /\ c.path = cmd.path /\ c.keep = cmd.keep /\ c \in Commands
    BY <1>1, <1>2, <2>4 DEF Commands, Steps
  <2> HIDE DEF c
  <2>6. PathShape(n, q) /\ DoomedArchive(q) = DoomedArchive(p)
    BY <1>4, <2>4 DEF PathShape, DoomedArchive
  <2>7. CommandShape(c)
    BY <1>3, <1>4, <2>1, <2>5, <2>6 DEF CommandShape, Creating
  <2>8. fs' = fs \ src /\ configured' = configured \ src
    BY <2>1 DEF Remove
  <2> HIDE DEF src
  <2>9. Local(n)
    BY <1>4, <2>8 DEF Local, src
  <2>10. n \notin killed => Outcome(c, fs', configured')
    <3> SUFFICES ASSUME n \notin killed PROVE Outcome(c, fs \ src, configured \ src)
      BY <2>8
    <3>1. Outcome(cmd, fs, configured)
      BY <1>3
    <3>2. CASE cmd.keep
      <4>1. Good(n, new, fs \ src, configured \ src)
        BY <2>1, <3>1, <3>2 DEF Outcome, src
      <4> QED
        BY <2>5, <3>2, <4>1 DEF Outcome, Creating
    <3>3. CASE ~cmd.keep
      <4>1. Clean(n, p, fs \ cmd.arm, configured) /\ Good(n, new, fs \ both, configured \ both)
        BY <2>1, <3>1, <3>3 DEF Outcome
      <4>2. fs \ both = (fs \ src) \ DoomedArchive(q) /\ configured \ both = (configured \ src) \ DoomedArchive(q)
        BY <2>6 DEF src
      <4>3. Clean(n, q, (fs \ src) \ cmd.arm, configured \ src)
        BY <2>4, <4>1 DEF Clean, src, DoomedSrc
      <4> QED
        BY <2>5, <3>3, <4>1, <4>2, <4>3 DEF Outcome, Creating
    <3> QED
      BY <3>2, <3>3
  <2> QED
    BY <1>1, <1>3, <2>1, <2>3, <2>5, <2>7, <2>8, <2>9, <2>10, StepFiles DEF Creating
<1>11. ASSUME NEW q \in Packages, Broken(q), cmd.step \in {"purge_src", "purge_archive", "disfigure"},
              q.archive = p.archive, q.purge_archive = p.purge_archive, q.src_root = p.src_root,
              q.purge_src = p.purge_src, q.out_root = p.out_root, configured' \subseteq configured,
              configured' = configured \/ configured' = configured \ {p.out_root}
       PROVE  FileInv'
  <2> DEFINE r == [q EXCEPT !.state = "broken"]
  <2>1. /\ selected' = [selected EXCEPT ![n] = r] /\ fs' = fs \ cmd.arm /\ cmd' = Idle /\ killed' = killed
    BY <1>11 DEF Broken
  <2>2. /\ r.state = "broken" /\ r.archive = p.archive /\ r.purge_archive = p.purge_archive
        /\ r.src_root = p.src_root /\ r.purge_src = p.purge_src /\ r.out_root = p.out_root
    BY <1>11 DEF Packages
  <2> HIDE DEF r
  <2>3. selected'[n] = r /\ \A m \in Names \ {n} : selected'[m] = selected[m]
    BY <1>2, <1>3, <2>1
  <2>4. PathShape(n, r) /\ StateShape(n, r)
    BY <1>4, <2>2 DEF PathShape, StateShape
  <2>5. Local(n)
    <3>1. p.out_root = None \/ OwnPath(n, p.out_root)
      BY <1>2, <1>4, OwnPaths
    <3> QED
      BY <1>4, <1>11, <2>1, <3>1 DEF Local
  <2>6. ASSUME n \notin killed PROVE Good(n, r, fs', configured')
    <3>1. Clean(n, p, fs \ cmd.arm, configured)
      BY <1>3, <1>11, <2>6 DEF Outcome, CommandShape
    <3> QED
      BY <1>11, <2>1, <2>2, <3>1 DEF Good, Backed, Clean
  <2>7. configured' \subseteq fs' \ {Repository}
    BY <1>3, <1>11, <2>1
  <2> QED
    BY <1>1, <2>1, <2>3, <2>4, <2>5, <2>6, <2>7, EndFiles
<1>12. CASE PurgeSrcFails \/ PurgeArchiveFails
  <2>1. Broken(p) /\ cmd.step \in {"purge_src", "purge_archive"} /\ configured' = configured
    BY <1>12 DEF PurgeSrcFails, PurgeArchiveFails, AfterSrcFail, At
  <2> QED
    BY <1>2, <1>11, <2>1
<1>13. CASE RunDisfigureFails
  <2> DEFINE q == [p EXCEPT !.prerequisites = {}]
  <2>1. /\ cmd.step = "disfigure" /\ Broken(q)
        /\ configured' = configured \/ configured' = configured \ {p.out_root}
    BY <1>13 DEF RunDisfigureFails, At
  <2>2. /\ q \in Packages /\ q.archive = p.archive /\ q.purge_archive = p.purge_archive
        /\ q.src_root = p.src_root /\ q.purge_src = p.purge_src /\ q.out_root = p.out_root
    BY <1>2 DEF Packages
  <2> HIDE DEF q
  <2> QED
    BY <1>11, <2>1, <2>2
<1>14. CASE PurgeArchive
  <2> DEFINE arc == DoomedArchive(p)
             c == [cmd EXCEPT !.step = "commit"]
  <2>1. /\ cmd.step = "purge_archive" /\ fs' = fs \ arc /\ configured' = configured \ arc /\ cmd' = c
        /\ UNCHANGED <<selected, killed>>
    BY <1>14 DEF PurgeArchive, At, Remove, GoTo, DoomedArchive
  <2>2. /\ c.step = "commit" /\ c.arm = cmd.arm /\ c.name = n /\ c.p = p /\ c.new = new
        /\ c.path = cmd.path /\ c.keep = cmd.keep /\ c \in Commands
    BY <1>1, <1>2 DEF Commands, Steps
  <2> HIDE DEF c
  <2>3. Local(n)
    BY <1>4, <2>1 DEF Local
  <2>4. CommandShape(c)
    BY <1>3, <1>4, <2>2 DEF CommandShape, Creating
  <2>5. n \notin killed => Outcome(c, fs', configured')
    <3> SUFFICES ASSUME n \notin killed PROVE Outcome(c, fs \ arc, configured \ arc)
      BY <2>1
    <3>1. Good(n, new, fs \ arc, configured \ arc)
      BY <1>3, <2>1 DEF Outcome
    <3> QED
      BY <2>2, <3>1 DEF Outcome, Creating
  <2> QED
    BY <1>1, <1>3, <2>1, <2>2, <2>3, <2>4, <2>5, StepFiles DEF Creating
<1>15. ASSUME cmd.step = "configure"
       PROVE  /\ p.state = "unpacked" /\ p = selected[n] /\ StateShape(n, p) /\ p.version \in Versions /\ ~p.system
              /\ new.out_root = OutRoot(n, p) /\ cmd.arm = {} /\ OwnPath(n, new.out_root)
  <2>1. p.state = "unpacked" /\ p = selected[n] /\ new.out_root = OutRoot(n, p) /\ cmd.arm = {}
    BY <1>2, <1>3, <1>15 DEF IndInv, CommandInv, CommandShape
  <2>2. p.version \in Versions /\ ~p.system
    BY <1>5, <2>1 DEF Versioned
  <2>3. OwnPath(n, OutRoot(n, p))
    BY <2>2 DEF OwnPath, OutRoot
  <2> QED
    BY <1>3, <2>1, <2>2, <2>3
<1>16. CASE RunConfigure
  <2> DEFINE o == new.out_root
             c == [cmd EXCEPT !.step = "commit"]
  <2>1. /\ cmd.step = "configure" /\ fs' = fs \cup {o} /\ configured' = configured \cup {o} /\ cmd' = c
        /\ UNCHANGED <<selected, killed>>
    BY <1>16 DEF RunConfigure, At, GoTo
  <2>2. /\ c.step = "commit" /\ c.arm = cmd.arm /\ c.name = n /\ c.p = p /\ c.new = new
        /\ c.path = cmd.path /\ c.keep = cmd.keep /\ c \in Commands
    BY <1>1, <1>2 DEF Commands, Steps
  <2> HIDE DEF c
  <2>3. OwnPath(n, o) /\ o # Repository /\ cmd.arm = {}
    BY <1>15, <1>5, <2>1
  <2> HIDE DEF o
  <2>4. Local(n)
    BY <2>1, <2>3 DEF Local
  <2>5. CommandShape(c)
    BY <1>3, <1>4, <2>2 DEF CommandShape, Creating
  <2>6. n \notin killed => Outcome(c, fs', configured')
    <3> SUFFICES ASSUME n \notin killed PROVE Outcome(c, fs \cup {o}, configured \cup {o})
      BY <2>1
    <3>1. Good(n, new, fs \cup {o}, configured \cup {o})
      BY <1>3, <2>1 DEF Outcome, o
    <3> QED
      BY <2>2, <3>1 DEF Outcome, Creating
  <2>7. configured' \subseteq fs' \ {Repository}
    BY <1>3, <2>1, <2>3
  <2> QED
    BY <1>1, <2>1, <2>2, <2>3, <2>4, <2>5, <2>6, <2>7, StepFiles DEF Creating
<1>17. CASE RunConfigureFails
  <2> DEFINE o == new.out_root
             q == [p EXCEPT !.out_root = o]
             c == [cmd EXCEPT !.step = "disfigure", !.p = q, !.new = p, !.keep = FALSE]
  <2>1. /\ cmd.step = "configure"
        /\ \/ fs' = fs /\ configured' = configured
           \/ fs' = fs \cup {o} /\ configured' = configured \cup {o}
        /\ UNCHANGED <<selected, killed>>
    BY <1>17 DEF RunConfigureFails, At
  <2>2. cmd' = [cmd EXCEPT !.step = "disfigure", !.p.out_root = o, !.new = cmd.p, !.keep = FALSE]
    BY <1>17 DEF RunConfigureFails, AfterConfigureFail
  <2>3. cmd' = c
    BY <1>1, <1>2, <2>2 DEF Commands, Packages
  <2>4. o \in Paths
    BY <1>2 DEF Packages
  <2>5. /\ q.archive = p.archive /\ q.purge_archive = p.purge_archive /\ q.src_root = p.src_root
        /\ q.purge_src = p.purge_src /\ q.out_root = o /\ q.external = p.external /\ q \in Packages
    BY <1>2, <2>4 DEF Packages
  <2> HIDE DEF q
  <2>6. /\ c.step = "disfigure" /\ c.arm = cmd.arm /\ c.name = n /\ c.p = q /\ c.new = p
        /\ c.path = cmd.path /\ c.keep = FALSE /\ c \in Commands
    BY <1>1, <1>2, <2>5 DEF Commands, Steps
  <2> HIDE DEF c
  <2>7. /\ OwnPath(n, o) /\ o # Repository /\ cmd.arm = {} /\ o = OutRoot(n, p) /\ p = selected[n]
        /\ p.state = "unpacked" /\ StateShape(n, p) /\ p.version \in Versions /\ ~p.system
    BY <1>15, <1>5, <2>1
  <2> HIDE DEF o
  <2>8. Local(n)
    BY <2>1, <2>7 DEF Local
  <2>9. PathShape(n, q)
    BY <1>4, <2>5, <2>7 DEF PathShape, OutRoot
  <2>10. CommandShape(c)
    BY <1>4, <2>6, <2>7, <2>9 DEF CommandShape, Creating
  <2>11. n \notin killed => Outcome(c, fs', configured')
    <3> SUFFICES ASSUME n \notin killed PROVE Outcome(c, fs', configured')
      OBVIOUS
    <3>1. Good(n, p, fs, configured)
      BY <1>3, <2>1 DEF Outcome
    <3>2. OutDir(n) \notin configured /\ p.out_root = None
      BY <1>2, <1>4, <1>5, <2>7, <3>1, Replaced
    <3>3. /\ p.external => o = OutDir(n) /\ p.archive = None /\ \E v \in Versions : p.src_root = UserDir(n, v)
          /\ ~p.external => o = SrcDir(n, p.version) /\ p.src_root = o /\ p.purge_src
      BY <2>7 DEF StateShape, OutRoot
    <3>4. \A v \in Versions : o # Archive(n, v) /\ (o = SrcDir(n, v) => p.src_root = o /\ p.purge_src)
      BY <1>2, <2>7, <3>3, PathsApart
    <3>5. p.external => o # p.src_root
      BY <1>2, <3>3, PathsApart
    <3>6. /\ \A v \in Versions : /\ Archive(n, v) \in fs => p.archive = Archive(n, v) /\ p.purge_archive
                                 /\ SrcDir(n, v) \in fs => p.src_root = SrcDir(n, v) /\ p.purge_src
          /\ p.archive # None => p.archive \in fs
          /\ p.src_root \in fs /\ OutRoot(n, p) \notin configured
      BY <2>7, <3>1 DEF Good, Backed, Clean
    <3>7. Clean(n, q, fs', configured')
      BY <2>1, <2>5, <3>2, <3>4, <3>6 DEF Clean
    <3>8. Clean(n, p, fs', configured' \ {o})
      BY <2>1, <3>2, <3>4, <3>6 DEF Clean
    <3>9. Good(n, p, fs', configured' \ {o})
      BY <2>1, <2>7, <3>6, <3>8 DEF Good, Backed
    <3>10. p.external => Good(n, p, fs' \ {o}, configured' \ {o})
      BY <2>1, <2>7, <3>3, <3>5, <3>6, <3>8 DEF Good, Backed, Clean
    <3> QED
      BY <2>5, <2>6, <3>7, <3>9, <3>10 DEF Outcome, Creating
  <2>12. configured' \subseteq fs' \ {Repository}
    BY <1>3, <2>1, <2>7
  <2> QED
    BY <1>1, <2>1, <2>3, <2>6, <2>7, <2>8, <2>10, <2>11, <2>12, StepFiles DEF Creating
<1>18. CASE RunDisfigure
  <2> DEFINE o == p.out_root
             c == [cmd EXCEPT !.step = "commit"]
  <2>1. /\ cmd.step = "disfigure" /\ cmd' = c /\ UNCHANGED <<selected, killed>> /\ configured' = configured \ {o}
        /\ \/ p.external /\ fs' = fs \ {o}
           \/ fs' = fs
    BY <1>18 DEF RunDisfigure, At, GoTo, Remove
  <2>2. /\ c.step = "commit" /\ c.arm = cmd.arm /\ c.name = n /\ c.p = p /\ c.new = new
        /\ c.path = cmd.path /\ c.keep = cmd.keep /\ c \in Commands
    BY <1>1, <1>2 DEF Commands, Steps
  <2> HIDE DEF c
  <2>3. o = None \/ OwnPath(n, o)
    BY <1>2, <1>4, OwnPaths
  <2>4. Local(n)
    BY <2>1, <2>3 DEF Local
  <2>5. CommandShape(c)
    BY <1>3, <1>4, <2>2 DEF CommandShape, Creating
  <2>6. n \notin killed => Outcome(c, fs', configured')
    <3> SUFFICES ASSUME n \notin killed PROVE Outcome(c, fs', configured')
      OBVIOUS
    <3>1. Good(n, new, fs', configured')
      BY <1>3, <2>1 DEF Outcome
    <3> QED
      BY <2>2, <3>1 DEF Outcome, Creating
  <2>7. configured' \subseteq fs' \ {Repository} /\ cmd.arm \cap configured' = {}
    BY <1>3, <2>1
  <2> QED
    BY <1>1, <2>1, <2>2, <2>4, <2>5, <2>6, <2>7, StepFiles DEF Creating
<1>19. CASE Commit
  <2>1. /\ cmd.step = "commit" /\ selected' = [selected EXCEPT ![n] = new] /\ cmd' = Idle
        /\ UNCHANGED <<fs, configured, killed>>
    BY <1>19 DEF Commit, At
  <2>2. selected'[n] = new /\ \A m \in Names \ {n} : selected'[m] = selected[m]
    BY <1>2, <1>3, <2>1
  <2>3. n \notin killed => Good(n, new, fs, configured)
    BY <1>3, <2>1 DEF Outcome
  <2>4. Local(n)
    BY <2>1 DEF Local
  <2> QED
    BY <1>1, <1>3, <1>4, <2>1, <2>2, <2>3, <2>4, EndFiles
<1> QED
  BY <1>6, <1>7, <1>8, <1>9, <1>10, <1>12, <1>13, <1>14, <1>16, <1>17, <1>18, <1>19 DEF Step

LEMMA FileInvNext == ASSUME IndInv, IndInv', FileInv, ~SelfReplace, [Next]_vars PROVE FileInv'
<1>1. CASE \E n \in Names : Command(n)
  BY <1>1, CommandFiles
<1>2. CASE Step
  BY <1>2, CommandStepFiles
<1>3. CASE Kill
  <2>1. /\ cmd' = Idle /\ killed' = killed \cup {cmd.name} /\ UNCHANGED <<selected, fs, configured>>
    BY <1>3 DEF Kill
  <2>2. ObjectsInv' /\ ConfiguredInv' /\ OutcomeInv'
    BY <2>1 DEF FileInv, ObjectsInv, ConfiguredInv, OutcomeInv
  <2>3. OthersInv'
    BY <2>1 DEF FileInv, OthersInv
  <2> QED
    BY <2>2, <2>3 DEF FileInv
<1>4. ASSUME NEW n \in Names, UserRemove(n) PROVE FileInv'
  <2> DEFINE p == selected[n]
  <2>1. PICK x \in fs \cap {p.out_root, p.src_root, p.archive} : Remove({x})
    BY <1>4 DEF UserRemove
  <2>2. /\ p.state = "broken" /\ cmd.step = "idle" /\ UNCHANGED <<selected, cmd, killed>>
        /\ fs' = fs \ {x} /\ configured' = configured \ {x}
    BY <1>4, <2>1 DEF UserRemove, At, Remove
  <2>3. cmd = Idle
    BY <2>2, CommandNotIdle DEF IndInv, ShapeInv
  <2>4. PathShape(n, p)
    BY DEF FileInv, ObjectsInv
  <2>5. x = None \/ OwnPath(n, x)
    BY <2>1, <2>4, OwnPaths
  <2>6. Local(n)
    BY <2>2, <2>5 DEF Local
  <2>7. n \notin killed => Good(n, p, fs', configured')
    <3>1. n \notin killed => Good(n, p, fs, configured)
      BY <2>3 DEF FileInv, OthersInv
    <3> QED
      BY <2>2, <3>1 DEF Good, Backed, Clean
  <2>8. ObjectsInv' /\ ConfiguredInv' /\ OutcomeInv'
    BY <2>2, <2>3 DEF FileInv, ObjectsInv, ConfiguredInv, OutcomeInv
  <2>9. OthersInv'
    BY <2>2, <2>3, <2>6, <2>7, OthersStay DEF OthersInv
  <2> QED
    BY <2>8, <2>9 DEF FileInv
<1>5. CASE RepFetch
  <2>1. cmd.step = "idle" /\ fs' = fs \cup {Repository} /\ UNCHANGED <<selected, configured, cmd, killed>>
    BY <1>5 DEF RepFetch, At
  <2>2. cmd = Idle
    BY <2>1, CommandNotIdle DEF IndInv, ShapeInv
  <2>3. ObjectsInv' /\ ConfiguredInv' /\ OutcomeInv'
    BY <2>1, <2>2 DEF FileInv, ObjectsInv, ConfiguredInv, OutcomeInv
  <2>4. OthersInv'
    <3> SUFFICES ASSUME NEW n \in Names, n \notin killed PROVE Good(n, selected[n], fs', configured')
      BY <2>1 DEF OthersInv
    <3>1. Good(n, selected[n], fs, configured)
      BY <2>2 DEF FileInv, OthersInv
    <3>2. PathShape(n, selected[n]) /\ StateShape(n, selected[n]) /\ Versioned(selected[n])
      BY DEF FileInv, ObjectsInv, IndInv, RecordsInv
    <3>3. \A x : OwnPath(n, x) => x # Repository
      BY OwnPathsApart
    <3> QED
      BY <2>1, <3>1, <3>2, <3>3, GoodAgree
  <2> QED
    BY <2>3, <2>4 DEF FileInv
<1>6. CASE UNCHANGED vars
  <2>1. /\ selected' = selected /\ fs' = fs /\ configured' = configured /\ cmd' = cmd /\ killed' = killed
    BY <1>6 DEF vars
  <2> QED
    BY <2>1 DEF FileInv, ObjectsInv, ConfiguredInv, OthersInv, OutcomeInv
<1> QED
  BY <1>1, <1>2, <1>3, <1>4, <1>5, <1>6 DEF Next

\* Between commands no command is in progress.
LEMMA AtIdle == ASSUME IndInv, At("idle") PROVE cmd = Idle
BY CommandNotIdle DEF IndInv, ShapeInv, At

LEMMA FileInvAlways == ASSUME ~SelfReplace PROVE Spec => [](IndInv /\ FileInv)
<1>1. Init => IndInv /\ FileInv
  BY IndInvInit, FileInvInit
<1>2. IndInv /\ FileInv /\ [Next]_vars => (IndInv /\ FileInv)'
  BY IndInvNext, FileInvNext
<1> QED
  BY <1>1, <1>2, PTL DEF Spec

-----------------------------------------------------------------------------
\* For any packages, versions and dependencies: whichever step of a pkg-*
\* command has failed, a package that is not recorded as broken has on disk
\* what its record says, and an unpacked one is not half configured, unless
\* bpkg was killed on that package.  It is assumed that no package is replaced
\* by the archive or the directory that it owns itself: pkg-fetch and
\* pkg-unpack, which do not refuse that, purge it and then record it.
THEOREM RecordBackedCorrect == ASSUME ~SelfReplace PROVE Spec => []RecordBacked
<1>1. ASSUME IndInv, FileInv PROVE RecordBacked
  <2> SUFFICES ASSUME At("idle"), NEW n \in Names \ killed
               PROVE  LET p == selected[n]
                      IN  /\ p.state = "fetched" => p.archive \in fs
                          /\ p.state = "unpacked" => p.src_root \in fs /\ OutRoot(n, p) \notin configured
                          /\ p.state = "configured" /\ ~p.system =>
                                p.src_root \in fs /\ p.out_root \in configured
    BY DEF RecordBacked
  <2>1. cmd = Idle
    BY <1>1, AtIdle
  <2>2. Backed(n, selected[n], fs, configured) /\ StateShape(n, selected[n])
    BY <1>1, <2>1 DEF FileInv, OthersInv, ObjectsInv, Good
  <2> QED
    BY <2>2 DEF Backed, StateShape
<1> QED
  BY <1>1, FileInvAlways, PTL

\* And, under the same assumption: every archive and source directory that
\* bpkg has put into the configuration belongs to a record that will have it
\* removed, and no output directory is left configured without one, so that
\* nothing stands in the way of the next command.
THEOREM NoLitterCorrect == ASSUME ~SelfReplace PROVE Spec => []NoLitter
<1>1. ASSUME IndInv, FileInv PROVE NoLitter
  <2> SUFFICES ASSUME At("idle"), NEW n \in Names \ killed PROVE Clean(n, selected[n], fs, configured)
    BY DEF NoLitter, Clean
  <2>1. cmd = Idle
    BY <1>1, AtIdle
  <2> QED
    BY <1>1, <2>1 DEF FileInv, OthersInv, Good
<1> QED
  BY <1>1, FileInvAlways, PTL

=============================================================================
