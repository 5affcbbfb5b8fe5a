------------------------------- MODULE Depdb -------------------------------
(***************************************************************************)
(* The auxiliary dependency database of a target (libbuild2/depdb.cxx) and *)
(* the three ways in which rules use it to decide whether the target is up *)
(* to date: the ad hoc buildscript recipe (and the link rule, which does   *)
(* the same), the in rule and the compile rule.                            *)
(*                                                                         *)
(* The file is a sequence of symbols: a line is its text followed by "nl", *)
(* and a properly closed database ends with "end".  What is written stays  *)
(* in the buffer of the stream until it is closed.  A build may be         *)
(* interrupted at any point, with any part of the buffer written.  Every   *)
(* modification of a file gets a timestamp of its own, later than all the  *)
(* previous ones.  External programs (compiler, script) replace the target *)
(* in one step.                                                            *)
(***************************************************************************)
EXTENDS Naturals, Sequences

CONSTANTS
    Rules,      \* the rules to look at: "script", "in", "compile"
    Texts,      \* values of the options and variables
    Sources,    \* contents of the source file
    NumVars,    \* the number of variables that a source substitutes (in rule)
    MaxBuilds,  \* bound on the builds
    MaxEdits    \* bound on what the user does between them

Version == "1"
Control == {"nl", "end"}

ASSUME DepdbAssumption ==
    /\ Rules \subseteq {"script", "in", "compile"}
    /\ NumVars \in [Sources -> Nat]
    /\ ({Version} \cup Texts \cup Sources) \cap Control = {}
    /\ MaxBuilds \in Nat /\ MaxEdits \in Nat

VARIABLES
    rule,       \* the rule of the target
    clock,      \* the last timestamp given out
    option,     \* the options of the rule
    value,      \* the value of the variables
    source,     \* the source: its content and mtime
    file,       \* the contents of the database
    file_mtime, \* its mtime, 0 if it does not exist
    target,     \* the target: the lines it was made from and its mtime, 0 if none
    db,         \* depdb: its state_, the position and the mtime member
    pending,    \* the buffer of os_
    build,      \* the update of the target in progress
    builds, edits,
    recorded,   \* the contents that close() has left last
    settled     \* nothing has happened since the last successful update

inputs == <<rule, option, value, source>>
bounds == <<builds, edits>>
vars == <<inputs, clock, file, file_mtime, target, db, pending, build, bounds, recorded, settled>>

\* The lines of the database, and all that the target depends on.
Lines ==
    <<Version, option>> \o
       CASE rule = "script" -> <<value>>
         [] rule = "in" -> [i \in 1 .. NumVars[source.content] |-> value]
         [] rule = "compile" -> <<source.content, source.content>>  \* headers, checksum

\* How many of them are looked at before it is decided whether to update.
Decided == IF rule = "script" THEN 3 ELSE 2

Idle == [step |-> "idle", line |-> 1, update |-> FALSE, mt |-> 0, dry_run |-> FALSE, touch |-> FALSE]
Closed == [state |-> "closed", pos |-> 1, mtime |-> 0]

Init ==
    /\ rule \in Rules
    /\ clock = 1
    /\ option \in Texts /\ value \in Texts
    /\ \E s \in Sources : source = [content |-> s, mtime |-> 1]
    /\ file = <<>> /\ file_mtime = 0
    /\ target = [content |-> <<>>, mtime |-> 0]
    /\ db = Closed /\ pending = <<>> /\ build = Idle
    /\ builds = 0 /\ edits = 0
    /\ recorded = <<>> /\ settled = FALSE

Now == clock + 1
At(step) == build.step = step
GoTo(step) == build' = [build EXCEPT !.step = step]

\* The file with data written at position p.
Put(p, data) == SubSeq(file, 1, p - 1) \o data \o SubSeq(file, p + Len(data), Len(file))

\* The file system is left alone.
Untouched == UNCHANGED <<clock, file, file_mtime, target>>
Other == UNCHANGED <<inputs, bounds, recorded, settled>>

-----------------------------------------------------------------------------
(***************************************************************************)
(* depdb.                                                                  *)
(***************************************************************************)
Reading == db.state \in {"read", "read_eof"}
Writing == db.state = "write"

\* read(): is there a next line?  It must end with a newline and there must
\* be something after it.
HasLine == db.state = "read" /\ db.pos + 2 <= Len(file) /\ file[db.pos + 1] = "nl"

NextIs(v) == HasLine /\ file[db.pos] = v

\* It is accepted.
Accepted ==
    [db EXCEPT !.pos = @ + 2,
               !.state = IF file[db.pos + 2] = "end" THEN "read_eof" ELSE "read"]

\* Mutant: the old content is not invalidated.
TruncatedNot == file

\* change(): what is left of the file.
Truncated == SubSeq(file, 1, db.pos - 1)

\* change(): the line at the current position and all the rest go.
Change ==
    /\ file' = Truncated /\ file_mtime' = Now /\ clock' = Now
    /\ db' = [db EXCEPT !.state = "write", !.mtime = 0]

\* Nothing is read or written any more; the file is as the database is.
Unchanged == UNCHANGED <<clock, file, file_mtime>>

\* The next line is read and accepted.
Accept == db' = Accepted /\ Unchanged /\ UNCHANGED pending

\* expect(v).
Expect(v) ==
    \/ /\ NextIs(v)
       /\ Accept
    \/ /\ Reading /\ ~NextIs(v)
       /\ Change
       /\ pending' = <<v, "nl">>
    \/ /\ Writing
       /\ pending' = pending \o <<v, "nl">>
       /\ Unchanged /\ UNCHANGED db

\* The depdb constructor, without the version.  A new file is created.
Open ==
    /\ db' = IF file_mtime = 0 THEN [state |-> "write", pos |-> 1, mtime |-> 0]
                               ELSE [state |-> "read", pos |-> 1, mtime |-> file_mtime]
    /\ pending' = <<>>
    /\ IF file_mtime = 0 THEN file_mtime' = Now /\ clock' = Now ELSE UNCHANGED <<clock, file_mtime>>
    /\ UNCHANGED file

\* close(touch): nothing to do, or the rest is chopped off and the end marker
\* (over)written.
Close(touch) ==
    /\ IF db.state = "read_eof" /\ ~touch
         THEN Unchanged
         ELSE /\ file' = IF db.state = "read" THEN Truncated \o <<"end">>
                         ELSE Put(db.pos, pending \o <<"end">>)
              /\ file_mtime' = Now /\ clock' = Now
    /\ recorded' = file'
    /\ db' = Closed /\ pending' = <<>>

-----------------------------------------------------------------------------
(***************************************************************************)
(* What the rules have in common.                                          *)
(***************************************************************************)
Start(dry_run) ==
    /\ At("idle") /\ builds < MaxBuilds
    /\ Open
    /\ build' = [Idle EXCEPT !.step = "expect", !.mt = target.mtime, !.dry_run = dry_run]
    /\ builds' = builds + 1
    /\ UNCHANGED <<inputs, edits, target, recorded, settled>>

ExpectLine ==
    /\ At("expect") /\ build.line <= Decided
    /\ Expect(Lines[build.line])
    /\ build' = [build EXCEPT !.line = @ + 1]
    /\ Other /\ UNCHANGED target

\* Mutant: timestamps of the database and the target are not compared.
InterruptedNot == FALSE

\* An earlier update was interrupted after the database had been closed.
Interrupted == db.mtime > build.mt

\* A mismatch, an interrupted update or a newer source.
Decide ==
    /\ At("expect") /\ build.line > Decided
    /\ LET forced == Writing \/ Interrupted
       IN  build' = [build EXCEPT
               !.update = forced \/ source.mtime > build.mt,
               !.mt = IF forced THEN 0 ELSE @,
               !.step = CASE rule = "script" -> "close"
                          [] rule = "in" -> "compare"
                          [] rule = "compile" -> "headers"]
    /\ Other /\ Untouched /\ UNCHANGED <<db, pending>>

\* The update is over.
Finished(done) ==
    /\ build' = Idle
    /\ settled' = (settled \/ done)

\* The external program makes the target.
Run ==
    /\ At("run")
    /\ target' = [content |-> Lines, mtime |-> Now] /\ clock' = Now
    /\ Finished(TRUE)
    /\ UNCHANGED <<inputs, bounds, file, file_mtime, db, pending, recorded>>

-----------------------------------------------------------------------------
(***************************************************************************)
(* perform_update() of adhoc_buildscript_rule and of link_rule.             *)
(***************************************************************************)
CloseScript ==
    /\ At("close") /\ rule = "script"
    /\ Close(FALSE)
    /\ IF build.update /\ ~build.dry_run THEN GoTo("run") /\ UNCHANGED settled
                                         ELSE Finished(~build.update)
    /\ UNCHANGED <<inputs, bounds, target>>

-----------------------------------------------------------------------------
(***************************************************************************)
(* in::rule::perform_update().                                             *)
(***************************************************************************)

\* The source has changed or the like: all the variables are overwritten.
OverwriteAll ==
    /\ At("compare") /\ build.update
    /\ IF Reading THEN Change ELSE Unchanged /\ UNCHANGED db
    /\ GoTo("substitute")
    /\ Other /\ UNCHANGED <<target, pending>>

\* The next variable has the same value.
CompareGood ==
    /\ At("compare") /\ ~build.update
    /\ NextIs(value)
    /\ Accept
    /\ build' = [build EXCEPT !.line = @ + 1]
    /\ Other /\ UNCHANGED target

\* It does not: this line and the rest are overwritten.
CompareBad ==
    /\ At("compare") /\ ~build.update
    /\ db.state = "read" /\ ~NextIs(value)
    /\ Change
    /\ build' = [build EXCEPT !.step = "substitute", !.update = TRUE]
    /\ Other /\ UNCHANGED <<target, pending>>

\* Nothing has changed.
CompareDone ==
    /\ At("compare") /\ ~build.update /\ db.state = "read_eof"
    /\ Close(FALSE)
    /\ Finished(TRUE)
    /\ UNCHANGED <<inputs, bounds, target>>

\* Mutant: the database is closed after the output file.
OutputOrderSwapped == <<"output", "close">>

\* "Close depdb before closing the output file so its mtime is not newer
\* than of the output."
OutputOrder == <<"close", "output">>

\* The target is replaced and some of it written, and the variables are
\* recorded on the way, the good ones excepted.
Substitute ==
    /\ At("substitute")
    /\ target' = [content |-> <<"partial">>, mtime |-> Now] /\ clock' = Now
    /\ pending' = pending \o
         [i \in 1 .. 2 * (Len(Lines) + 1 - build.line) |->
             IF i % 2 = 1 THEN Lines[build.line + i \div 2] ELSE "nl"]
    /\ GoTo(OutputOrder[1])
    /\ Other /\ UNCHANGED <<file, file_mtime, db>>

\* The step after step s of the output.
AfterOutput(s) ==
    IF OutputOrder[1] = s THEN GoTo(OutputOrder[2]) /\ UNCHANGED settled ELSE Finished(TRUE)

CloseIn ==
    /\ At("close") /\ rule = "in"
    /\ Close(FALSE)
    /\ AfterOutput("close")
    /\ UNCHANGED <<inputs, bounds, target>>

\* The last of the target is written.
Output ==
    /\ At("output")
    /\ target' = [content |-> Lines, mtime |-> Now] /\ clock' = Now
    /\ AfterOutput("output")
    /\ UNCHANGED <<inputs, bounds, file, file_mtime, db, pending, recorded>>

-----------------------------------------------------------------------------
(***************************************************************************)
(* compile_rule::apply() and perform_update().                             *)
(***************************************************************************)

\* extract_headers(): from the database if all is well so far, otherwise from
\* the compiler.
Headers ==
    /\ At("headers")
    /\ IF ~build.update /\ HasLine THEN Accept ELSE Expect(Lines[3])
    /\ GoTo("checksum")
    /\ Other /\ UNCHANGED target

\* An unchanged checksum may be relied upon if there is a usable target.
MayIgnore == build.mt # 0

\* The checksum of the translation unit: as recorded if there is no reason to
\* update, otherwise the unit is parsed and its changes may prove ignorable.
Checksum ==
    /\ At("checksum")
    /\ \/ /\ ~build.update /\ HasLine
          /\ Accept
          /\ GoTo("close")
       \/ /\ build.update /\ NextIs(Lines[4])
          /\ Accept
          /\ build' = [build EXCEPT !.step = "close", !.update = ~MayIgnore, !.touch = MayIgnore]
       \/ /\ (build.update \/ ~HasLine) /\ ~NextIs(Lines[4])
          /\ Expect(Lines[4])
          /\ build' = [build EXCEPT !.step = "close", !.update = TRUE]
    /\ Other /\ UNCHANGED target

CloseCompile ==
    /\ At("close") /\ rule = "compile"
    /\ Close(build.update /\ Reading /\ ~build.dry_run)
    /\ GoTo("perform")
    /\ UNCHANGED <<inputs, bounds, target, settled>>

\* perform_update() without an update; the target may have to be touched.
PerformNothing ==
    /\ At("perform") /\ (~build.update \/ build.dry_run)
    /\ IF build.touch /\ ~build.dry_run
         THEN target' = [target EXCEPT !.mtime = Now] /\ clock' = Now
         ELSE UNCHANGED <<target, clock>>
    /\ Finished(~build.dry_run)
    /\ UNCHANGED <<inputs, bounds, file, file_mtime, db, pending, recorded>>

\* The database is touched before the compiler is run.
Perform ==
    /\ At("perform") /\ build.update /\ ~build.dry_run
    /\ file_mtime' = Now /\ clock' = Now
    /\ GoTo("run")
    /\ Other /\ UNCHANGED <<file, target, db, pending>>

-----------------------------------------------------------------------------
(***************************************************************************)
(* The environment.                                                        *)
(***************************************************************************)

\* The build is killed or the rule fails: the database is not closed, some of
\* the buffer is written, and the target may be removed.
Interrupt ==
    /\ ~At("idle")
    /\ \E n \in 0 .. Len(pending) :
          IF n = 0 THEN UNCHANGED <<file, file_mtime, clock>>
          ELSE /\ file' = Put(db.pos, SubSeq(pending, 1, n))
               /\ file_mtime' = Now /\ clock' = Now
    /\ \/ UNCHANGED target
       \/ target.mtime # 0 /\ target' = [content |-> <<>>, mtime |-> 0]
    /\ db' = Closed /\ pending' = <<>> /\ build' = Idle
    /\ settled' = FALSE
    /\ UNCHANGED <<inputs, bounds, recorded>>

Edit ==
    /\ At("idle") /\ edits < MaxEdits
    /\ edits' = edits + 1
    /\ settled' = FALSE
    /\ UNCHANGED <<rule, builds, db, pending, build, recorded>>

ChangeOption ==
    /\ Edit
    /\ option' \in Texts \ {option}
    /\ UNCHANGED <<value, source>> /\ Untouched

ChangeValue ==
    /\ Edit
    /\ value' \in Texts \ {value}
    /\ UNCHANGED <<option, source>> /\ Untouched

\* Possibly only what is not part of the content (whitespace, comments).
EditSource ==
    /\ Edit
    /\ \E s \in Sources : source' = [content |-> s, mtime |-> Now]
    /\ clock' = Now
    /\ UNCHANGED <<option, value, file, file_mtime, target>>

RemoveTarget ==
    /\ Edit
    /\ target' = [content |-> <<>>, mtime |-> 0]
    /\ UNCHANGED <<option, value, source, clock, file, file_mtime>>

RemoveDatabase ==
    /\ Edit
    /\ file' = <<>> /\ file_mtime' = 0
    /\ UNCHANGED <<option, value, source, clock, target>>

\* There is no more to do.
Stop == At("idle") /\ builds = MaxBuilds /\ UNCHANGED vars

Next ==
    \/ Start(FALSE) \/ (rule # "in" /\ Start(TRUE))
    \/ ExpectLine \/ Decide \/ CloseScript \/ Run
    \/ OverwriteAll \/ CompareGood \/ CompareBad \/ CompareDone \/ Substitute \/ CloseIn \/ Output
    \/ Headers \/ Checksum \/ CloseCompile \/ PerformNothing \/ Perform
    \/ Interrupt
    \/ ChangeOption \/ ChangeValue \/ EditSource \/ RemoveTarget \/ RemoveDatabase
    \/ Stop

Spec == Init /\ [][Next]_vars

-----------------------------------------------------------------------------
(***************************************************************************)
(* Properties.                                                             *)
(***************************************************************************)

\* Types of the variables.
TypeOK ==
    /\ rule \in Rules /\ clock \in Nat
    /\ option \in Texts /\ value \in Texts
    /\ source \in [content : Sources, mtime : Nat]
    /\ file \in Seq({Version} \cup Texts \cup Sources \cup Control) /\ file_mtime \in Nat
    /\ target.mtime \in Nat
    /\ db \in [state : {"closed", "read", "read_eof", "write"}, pos : Nat, mtime : Nat]
    /\ builds \in 0 .. MaxBuilds /\ edits \in 0 .. MaxEdits /\ settled \in BOOLEAN

\* A successful update leaves a target made from what its lines say now: an
\* update that was interrupted, at whatever point and however often, or only
\* a dry run, is never taken for a complete one.
UpToDate == settled => target.mtime # 0 /\ target.content = Lines

\* "It can never combine with (partial) new content to form a valid line"
\* (depdb.cxx): a database with the end marker has exactly the contents that
\* some close() has left, whatever part of a buffer was written later.
DatabaseHonest ==
    file # <<>> /\ file[Len(file)] = "end" => file = recorded

\* An update with nothing new since a successful one leaves the target and
\* the database alone, timestamps included: no target is updated over and
\* over again.
NothingToDo ==
    [][settled /\ settled' => UNCHANGED <<file, file_mtime, target>>]_vars
=============================================================================
