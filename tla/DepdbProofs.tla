---------------------------- MODULE DepdbProofs ----------------------------
(***************************************************************************)
(* Proofs about module Depdb, for any options, values, sources and numbers *)
(* of variables, and any number of builds, edits and interruptions.        *)
(*                                                                         *)
(* Two things carry the argument.  What has been looked at or written so   *)
(* far in this build is always the beginning of what the lines say now     *)
(* (Progress), however it got there.  And a database that is not newer     *)
(* than the target says what the target was made from (Trusted), which an  *)
(* update relies upon when it does not look at everything.                 *)
(***************************************************************************)
EXTENDS Depdb, TLAPS

Symbols == {Version} \cup Texts \cup Sources \cup Control
Plain == Symbols \ {"end"}

\* Line i, and the number of lines.
LineAt ==
    [i \in Nat |-> IF i = 1 THEN Version
                   ELSE IF i = 2 THEN option
                   ELSE IF rule = "compile" THEN source.content ELSE value]
Count == IF rule = "script" THEN 3 ELSE IF rule = "in" THEN 2 + NumVars[source.content] ELSE 4

\* s begins with the first n lines of l; it is just these; it is a complete
\* database of the lines L.
Begins(s, n, l) == \A i \in 1 .. n : s[2 * i - 1] = l[i] /\ s[2 * i] = "nl"
Encodes(s, n, l) == Len(s) = 2 * n /\ Begins(s, n, l)
Complete(f) == f # <<>> /\ f[Len(f)] = "end"
Says(f, L) == Len(f) = 2 * Len(L) + 1 /\ f[Len(f)] = "end" /\ Begins(f, Len(L), L)

\* What has been accepted or written so far.
Written == IF Writing THEN file \o pending ELSE SubSeq(file, 1, db.pos - 1)

(***************************************************************************)
(* The inductive invariant.                                                *)
(***************************************************************************)
BuildSteps == {"idle", "expect", "close", "run", "compare", "substitute", "output",
               "headers", "checksum", "perform"}
BuildType ==
    [step : BuildSteps, line : Nat, update : BOOLEAN, mt : Nat, dry_run : BOOLEAN, touch : BOOLEAN]
TargetType == [content : Seq(Symbols \cup {"partial"}), mtime : Nat]

\* Types; the database is open during some of the steps of a build.
Shapes ==
    /\ TypeOK
    /\ pending \in Seq(Plain) /\ target \in TargetType /\ build \in BuildType
    /\ db.state = "closed" <=> build.step \in {"idle", "run", "output", "perform"}
    /\ file_mtime <= clock /\ target.mtime <= clock /\ source.mtime <= clock

\* The end marker is the last symbol; the rest of the file is there while it is
\* being read and gone while it is being written.
FileInv ==
    /\ \A i \in 1 .. Len(file) : file[i] = "end" => i = Len(file)
    /\ file_mtime = 0 => file = <<>>
    /\ ~Writing => pending = <<>>
    /\ Reading =>
         /\ file_mtime # 0 /\ db.mtime = file_mtime
         /\ db.pos >= 1 /\ (db.pos = 1 \/ db.pos <= Len(file))
         /\ db.pos > 1 /\ db.state = "read" => file[db.pos] # "end"
    /\ db.state = "read_eof" => db.pos = Len(file) /\ Complete(file)
    /\ Writing => db.pos = Len(file) + 1 /\ ~Complete(file) /\ file_mtime # 0

\* The number of lines that have been looked at.
Seen ==
    CASE build.step = "headers" -> 2
      [] build.step = "checksum" -> 3
      [] build.step = "close" -> Count
      [] OTHER -> build.line - 1

Progress ==
    /\ db.state # "closed" => Encodes(Written, Seen, LineAt)
    /\ At("expect") => build.line \in 1 .. Decided + 1
    /\ At("compare") => rule = "in" /\ build.line >= 3 /\ (build.update => build.line = 3)
    /\ At("substitute") => rule = "in" /\ build.line \in 3 .. Count + 1 /\ Writing /\ build.update
    /\ At("close") /\ rule = "in" => Writing
    /\ build.step \in {"headers", "checksum", "perform"} => rule = "compile"
    /\ At("output") => rule = "in"
    /\ build.step \in {"run", "output", "perform"} => Says(file, Lines)

\* A database that is not newer than the target says what it was made from.
Trusted ==
    file_mtime # 0 /\ file_mtime <= target.mtime =>
        /\ rule # "in" => Complete(file)
        /\ Complete(file) => Says(file, target.content)
        /\ rule # "in" \/ source.mtime <= target.mtime =>
              Len(file) <= 2 * Count + 1 /\ (Complete(file) => Len(file) = 2 * Count + 1)
        /\ rule = "compile" /\ source.mtime <= target.mtime =>
              file[5] = source.content /\ file[7] = source.content

\* What has been decided.
Decisions ==
    /\ At("expect") => build.mt = target.mtime /\ ~build.update
    /\ build.step \in {"headers", "checksum", "compare", "close", "perform"} /\ ~build.update =>
         /\ db.state # "closed" => Reading
         /\ file_mtime <= target.mtime /\ build.mt = target.mtime
         /\ build.touch \/ source.mtime <= target.mtime
    /\ build.step \in {"headers", "checksum"} /\ build.update /\ build.mt # 0 /\ Reading =>
         file_mtime <= target.mtime /\ build.mt = target.mtime
    /\ build.touch => build.step \in {"close", "perform"} /\ rule = "compile" /\ ~build.update
    /\ At("perform") /\ ~build.update => target.content = Lines

\* After a successful update nothing but looking happens.
SettledInv ==
    settled =>
        /\ Says(file, Lines) /\ target.content = Lines
        /\ file_mtime <= target.mtime /\ source.mtime <= target.mtime
        /\ ~build.update /\ ~build.touch
        /\ build.step \in {"idle", "expect", "headers", "checksum", "compare", "close", "perform"}
        /\ db.state # "closed" => Reading

IndInv == Shapes /\ FileInv /\ DatabaseHonest /\ Progress /\ Trusted /\ Decisions /\ SettledInv

-----------------------------------------------------------------------------
(***************************************************************************)
(* Lines as symbols.                                                       *)
(***************************************************************************)

\* One more line, and all the others.
LEMMA EncodesMore ==
    ASSUME NEW S, "nl" \in S, NEW s \in Seq(S), NEW n \in Nat, NEW l, Encodes(s, n, l), NEW v \in S, v = l[n + 1]
    PROVE  Encodes(s \o <<v, "nl">>, n + 1, l)
BY DEF Encodes, Begins

LEMMA CatLen ==
    ASSUME NEW S, NEW s \in Seq(S), NEW u \in Seq(S)
    PROVE  Len(s \o u) = Len(s) + Len(u)
OBVIOUS

LEMMA CatAssociative ==
    ASSUME NEW S, NEW s \in Seq(S), NEW t \in Seq(S), NEW u \in Seq(S)
    PROVE  s \o (t \o u) = (s \o t) \o u
OBVIOUS

LEMMA EncodesRest ==
    ASSUME NEW S, "nl" \in S, NEW s \in Seq(S), NEW n \in Nat, NEW l, Encodes(s, n, l),
           NEW L \in Seq(S), n <= Len(L), \A i \in 1 .. Len(L) : l[i] = L[i]
    PROVE  LET rest == [i \in 1 .. 2 * (Len(L) + 1 - (n + 1)) |->
                          IF i % 2 = 1 THEN L[(n + 1) + i \div 2] ELSE "nl"]
           IN  rest \in Seq(S) /\ Encodes(s \o rest, Len(L), l)
<1> DEFINE m == 2 * (Len(L) + 1 - (n + 1))
           rest == [i \in 1 .. m |-> IF i % 2 = 1 THEN L[(n + 1) + i \div 2] ELSE "nl"]
<1>1. m \in Nat /\ Len(L) \in Nat /\ 2 * n + m = 2 * Len(L)
  OBVIOUS
<1>2. ASSUME NEW i \in 1 .. m
      PROVE  rest[i] \in S
  <2>1. CASE i % 2 = 1
    <3>1. (n + 1) + i \div 2 \in 1 .. Len(L)
      BY <2>1, <1>1
    <3> QED
      BY <3>1, <2>1
  <2> QED
    BY <2>1
<1>3. rest \in Seq(S) /\ Len(rest) = m
  BY <1>1, <1>2
<1>4. ASSUME NEW j \in 1 .. Len(L) - n
      PROVE  rest[2 * j - 1] = l[n + j] /\ rest[2 * j] = "nl"
  <2>1. 2 * j - 1 \in 1 .. m /\ 2 * j \in 1 .. m
    BY <1>1
  <2>2. (2 * j - 1) % 2 = 1 /\ (2 * j - 1) \div 2 = j - 1 /\ (2 * j) % 2 = 0
    OBVIOUS
  <2>3. rest[2 * j - 1] = L[(n + 1) + (j - 1)] /\ rest[2 * j] = "nl"
    BY <2>1, <2>2
  <2>4. (n + 1) + (j - 1) = n + j /\ n + j \in 1 .. Len(L)
    BY <1>1
  <2> QED
    BY <2>3, <2>4
<1> HIDE DEF rest, m
<1>5. Len(s) = 2 * n /\ Len(s \o rest) = 2 * Len(L)
  <2>1. Len(s) = 2 * n
    BY DEF Encodes
  <2>2. Len(s \o rest) = Len(s) + Len(rest)
    BY <1>3, CatLen, Zenon
  <2> QED
    BY <2>1, <2>2, <1>1, <1>3
<1>6. ASSUME NEW i \in 1 .. Len(L)
      PROVE  (s \o rest)[2 * i - 1] = l[i] /\ (s \o rest)[2 * i] = "nl"
  <2>1. CASE i <= n
    <3>1. (s \o rest)[2 * i - 1] = s[2 * i - 1] /\ (s \o rest)[2 * i] = s[2 * i]
      BY <2>1, <1>3, <1>5
    <3> QED
      BY <3>1, <2>1 DEF Encodes, Begins
  <2>2. CASE i > n
    <3>1. PICK j \in 1 .. Len(L) - n : i = n + j
      BY <2>2, <1>1
    <3>2. 2 * j - 1 \in 1 .. m /\ 2 * j \in 1 .. m
      BY <1>1
    <3>3. 2 * i - 1 = Len(s) + (2 * j - 1) /\ 2 * i = Len(s) + 2 * j
      BY <3>1, <1>5
    <3>4. (s \o rest)[2 * i - 1] = rest[2 * j - 1] /\ (s \o rest)[2 * i] = rest[2 * j]
      <4>1. (s \o rest)[Len(s) + (2 * j - 1)] = rest[2 * j - 1]
        BY <3>2, <1>3
      <4>2. (s \o rest)[Len(s) + 2 * j] = rest[2 * j]
        BY <3>2, <1>3
      <4> QED
        BY <4>1, <4>2, <3>3, Zenon
    <3> QED
      BY <3>4, <3>1, <1>4
  <2>3. i <= n \/ i > n
    BY <1>1
  <2> QED
    BY <2>1, <2>2, <2>3, Zenon
<1>7. Encodes(s \o rest, Len(L), l)
  BY <1>5, <1>6 DEF Encodes, Begins
<1> QED
  BY <1>3, <1>7 DEF rest, m

\* The end.
LEMMA EncodesEnd ==
    ASSUME NEW S, "end" \in S, NEW T, NEW s \in Seq(S), NEW l, NEW L \in Seq(T), Encodes(s, Len(L), l),
           \A i \in 1 .. Len(L) : l[i] = L[i]
    PROVE  Says(s \o <<"end">>, L)
<1>1. PICK n \in Nat : n = Len(L)
  OBVIOUS
<1>2. Len(s) = 2 * n
  BY <1>1 DEF Encodes
<1>3. Len(s \o <<"end">>) = 2 * n + 1 /\ (s \o <<"end">>)[2 * n + 1] = "end"
  BY <1>2
<1>4. ASSUME NEW i \in 1 .. n
      PROVE  (s \o <<"end">>)[2 * i - 1] = L[i] /\ (s \o <<"end">>)[2 * i] = "nl"
  <2>1. (s \o <<"end">>)[2 * i - 1] = s[2 * i - 1] /\ (s \o <<"end">>)[2 * i] = s[2 * i]
    BY <1>2
  <2> QED
    BY <2>1, <1>1 DEF Encodes, Begins
<1> QED
  BY <1>1, <1>3, <1>4 DEF Says, Begins

\* A database says one thing.
LEMMA SaysUnique ==
    ASSUME NEW S, NEW f, NEW L \in Seq(S), NEW M \in Seq(S), Says(f, L), Says(f, M)
    PROVE  L = M
<1>1. Len(L) \in Nat /\ Len(M) \in Nat /\ Len(L) = Len(M)
  BY DEF Says
<1>2. \A i \in 1 .. Len(L) : L[i] = M[i]
  BY <1>1 DEF Says, Begins
<1> QED
  BY <1>1, <1>2

\* The next two symbols of a file, the last one, and what is put at its end.
LEMMA NextTwo ==
    ASSUME NEW S, NEW f \in Seq(S), NEW p \in Nat, p >= 1, p + 1 <= Len(f)
    PROVE  SubSeq(f, 1, p + 1) = SubSeq(f, 1, p - 1) \o <<f[p], f[p + 1]>>
OBVIOUS

LEMMA Beginning ==
    ASSUME NEW S, NEW f \in Seq(S), NEW p \in Nat, p <= Len(f)
    PROVE  SubSeq(f, 1, p) \in Seq(S) /\ Len(SubSeq(f, 1, p)) = p
<1>1. CASE p = 0
  BY <1>1
<1>2. CASE p > 0
  BY <1>2
<1> QED
  BY <1>1, <1>2

LEMMA LastOne ==
    ASSUME NEW S, NEW f \in Seq(S), f # <<>>
    PROVE  f = SubSeq(f, 1, Len(f) - 1) \o <<f[Len(f)]>>
OBVIOUS

LEMMA PutAtEnd ==
    ASSUME NEW S, file \in Seq(S), NEW data \in Seq(S)
    PROVE  Put(Len(file) + 1, data) = file \o data
<1>1. SubSeq(file, 1, (Len(file) + 1) - 1) = file
  OBVIOUS
<1>2. SubSeq(file, (Len(file) + 1) + Len(data), Len(file)) = <<>>
  OBVIOUS
<1>3. (file \o data) \o <<>> = file \o data
  OBVIOUS
<1> QED
  BY <1>1, <1>2, <1>3 DEF Put

-----------------------------------------------------------------------------
(***************************************************************************)
(* The functions of depdb.                                                 *)
(***************************************************************************)
FileTypes ==
    /\ file \in Seq(Symbols) /\ pending \in Seq(Plain)
    /\ file_mtime \in Nat /\ clock \in Nat
    /\ db \in [state : {"closed", "read", "read_eof", "write"}, pos : Nat, mtime : Nat]

FileOK == FileTypes /\ FileInv /\ DatabaseHonest

LEMMA SymbolFacts == /\ "nl" \in Plain /\ "end" \in Symbols /\ "end" \notin Plain /\ Plain \subseteq Symbols
                     /\ \A s \in Seq(Plain) : s \in Seq(Symbols)
BY DEF Symbols, Plain, Control

\* There is no end marker in what has been accepted or written so far.
LEMMA WrittenPlain ==
    ASSUME FileOK, db.state # "closed"
    PROVE  Written \in Seq(Plain)
<1>1. CASE Writing
  <2>1. ASSUME NEW i \in 1 .. Len(file) PROVE file[i] \in Plain
    BY <1>1, <2>1 DEF FileOK, FileTypes, FileInv, Complete, Plain
  <2>2. file \in Seq(Plain)
    BY <2>1 DEF FileOK, FileTypes
  <2> QED
    BY <2>2, <1>1 DEF Written, FileOK, FileTypes
<1>2. CASE Reading
  <2>1. ~Writing
    BY <1>2 DEF Writing, Reading
  <2>2. PICK p \in Nat : p = db.pos - 1 /\ (p = 0 \/ p < Len(file))
    BY <1>2 DEF FileOK, FileTypes, FileInv
  <2>3. ASSUME NEW i \in 1 .. p PROVE file[i] \in Plain
    BY <2>2, <2>3 DEF FileOK, FileTypes, FileInv, Plain
  <2>4. SubSeq(file, 1, p) \in Seq(Plain)
    BY <2>2, <2>3 DEF FileOK, FileTypes
  <2> QED
    BY <2>1, <2>2, <2>4 DEF Written
<1> QED
  BY <1>1, <1>2 DEF FileOK, FileTypes, Writing, Reading

\* A file without an end marker.
LEMMA OpenFileOK ==
    ASSUME FileTypes', file' \in Seq(Plain), Writing', db'.pos = Len(file') + 1, file_mtime' # 0
    PROVE  FileOK'
<1>1. \A i \in 1 .. Len(file') : file'[i] # "end"
  BY SymbolFacts
<1>2. ~Complete(file)'
  BY <1>1 DEF Complete
<1>3. ~Reading'
  BY DEF Writing, Reading
<1> QED
  BY <1>1, <1>2, <1>3 DEF FileOK, FileInv, DatabaseHonest, Complete, Writing, Reading

\* change(), with what is written then.
LEMMA ChangeFile ==
    ASSUME FileOK, Reading, Change, pending' \in Seq(Plain)
    PROVE  /\ FileOK' /\ Writing' /\ Written' = Written \o pending'
           /\ file_mtime' = clock + 1 /\ clock' = clock + 1
<1>1. file' = Written /\ ~Writing
  BY DEF Change, Truncated, Written, Reading, Writing
<1>2. file' \in Seq(Plain)
  BY <1>1, WrittenPlain DEF Reading
<1>3. file_mtime' = clock + 1 /\ clock' = clock + 1 /\ Writing' /\ db'.pos = db.pos
  BY DEF Change, Now, Writing, FileOK, FileTypes
<1>4. Written' = Written \o pending'
  BY <1>1, <1>3 DEF Written
<1>5. Len(file') + 1 = db.pos
  <2>1. PICK p \in Nat : p = db.pos - 1 /\ p <= Len(file) /\ db.pos = p + 1
    BY DEF FileOK, FileTypes, FileInv
  <2>2. file' = SubSeq(file, 1, p) /\ file \in Seq(Symbols)
    BY <1>1, <2>1 DEF Written, FileOK, FileTypes
  <2>3. Len(SubSeq(file, 1, p)) = p
    BY <2>1, <2>2, Beginning
  <2> QED
    BY <2>1, <2>2, <2>3
<1>6. FileTypes'
  <2>1. db' \in [state : {"closed", "read", "read_eof", "write"}, pos : Nat, mtime : Nat]
    BY DEF FileTypes, FileOK, Change
  <2>2. file' \in Seq(Symbols)
    BY <1>2, SymbolFacts
  <2>3. file_mtime' \in Nat /\ clock' \in Nat
    BY <1>3 DEF FileTypes, FileOK
  <2> QED
    BY <2>1, <2>2, <2>3 DEF FileTypes
<1>7. FileOK'
  BY <1>2, <1>3, <1>5, <1>6, OpenFileOK DEF FileOK, FileTypes
<1> QED
  BY <1>3, <1>4, <1>7

\* read(), for a line that is accepted.
LEMMA AcceptFile ==
    ASSUME FileOK, HasLine, Accept, UNCHANGED recorded
    PROVE  /\ FileOK' /\ Reading' /\ UNCHANGED <<file, file_mtime, clock, pending>>
           /\ file[db.pos] \in Plain
           /\ Written' = Written \o <<file[db.pos], "nl">>
<1>1. UNCHANGED <<file, file_mtime, clock, pending>> /\ db' = Accepted
  BY DEF Accept, Unchanged
<1>2. db.state = "read" /\ db.pos + 2 <= Len(file) /\ file[db.pos + 1] = "nl" /\ db.pos >= 1 /\ ~Writing
  BY DEF HasLine, FileOK, FileInv, Reading, Writing
<1>3. db' \in [state : {"closed", "read", "read_eof", "write"}, pos : Nat, mtime : Nat]
      /\ db'.pos = db.pos + 2 /\ db'.mtime = db.mtime
      /\ db'.state = IF file[db.pos + 2] = "end" THEN "read_eof" ELSE "read"
  <2>1. PICK d \in [state : {"closed", "read", "read_eof", "write"}, pos : Nat, mtime : Nat] : d = db
    BY DEF FileOK, FileTypes
  <2>2. PICK st \in {"read", "read_eof"} : st = IF file[db.pos + 2] = "end" THEN "read_eof" ELSE "read"
    OBVIOUS
  <2>3. db' = [d EXCEPT !.pos = @ + 2, !.state = st]
    BY <1>1, <2>1, <2>2 DEF Accepted
  <2>4. db' = [state |-> st, pos |-> d.pos + 2, mtime |-> d.mtime]
    BY <2>3
  <2>5. db' \in [state : {"closed", "read", "read_eof", "write"}, pos : Nat, mtime : Nat]
    BY <2>4
  <2>6. db'.pos = db.pos + 2 /\ db'.mtime = db.mtime /\ db'.state = st
    BY <2>1, <2>4
  <2> QED
    BY <2>2, <2>5, <2>6, Zenon
<1>4. Reading' /\ ~Writing'
  BY <1>3 DEF Reading, Writing
<1>5. FileTypes'
  BY <1>1, <1>3 DEF FileTypes, FileOK
<1>6. db.pos \in Nat /\ file \in Seq(Symbols)
  BY DEF FileOK, FileTypes
<1>7. file[db.pos] \in Plain
  BY <1>2, <1>6 DEF FileOK, FileInv, Plain
<1>8. file[db.pos + 2] = "end" => db.pos + 2 = Len(file) /\ Complete(file)
  BY <1>2, <1>6 DEF FileOK, FileInv, Complete
<1>9. FileInv'
  <2>1. Reading
    BY <1>2 DEF Reading
  <2>2. pending' = <<>> /\ file_mtime' # 0 /\ db'.mtime = file_mtime'
    BY <2>1, <1>1, <1>2, <1>3 DEF FileOK, FileInv
  <2>3. \A i \in 1 .. Len(file') : file'[i] = "end" => i = Len(file')
    BY <1>1 DEF FileOK, FileInv
  <2>4. db'.pos >= 1 /\ db'.pos <= Len(file') /\ (db'.state = "read" => file'[db'.pos] # "end")
    BY <1>1, <1>2, <1>3, <1>6
  <2>5. db'.state = "read_eof" => db'.pos = Len(file') /\ Complete(file)'
    BY <1>1, <1>3, <1>8 DEF Complete
  <2> QED
    BY <1>4, <2>2, <2>3, <2>4, <2>5 DEF FileInv
<1>10. DatabaseHonest'
  BY <1>1 DEF FileOK, DatabaseHonest
<1>11. Written' = Written \o <<file[db.pos], "nl">>
  <2>1. SubSeq(file, 1, db.pos + 1) = SubSeq(file, 1, db.pos - 1) \o <<file[db.pos], file[db.pos + 1]>>
    BY <1>2, <1>6, NextTwo, db.pos + 1 <= Len(file)
  <2>2. Written' = SubSeq(file, 1, db.pos + 1)
    <3>1. Written' = SubSeq(file', 1, db'.pos - 1)
      BY <1>4 DEF Written
    <3>2. db'.pos - 1 = db.pos + 1
      BY <1>3, <1>6
    <3> QED
      BY <1>1, <3>1, <3>2
  <2> QED
    BY <2>1, <2>2, <1>2 DEF Written
<1> QED
  BY <1>1, <1>4, <1>5, <1>7, <1>9, <1>10, <1>11 DEF FileOK

\* The file as it was, or with a new timestamp.
Same == UNCHANGED <<file, file_mtime, clock>>
Newer == file_mtime' = clock + 1 /\ clock' = clock + 1

\* expect().
LEMMA ExpectFile ==
    ASSUME FileOK, NEW v \in Plain, Expect(v), UNCHANGED recorded
    PROVE  /\ FileOK' /\ Written' = Written \o <<v, "nl">>
           /\ NextIs(v) => Reading' /\ Same
           /\ ~NextIs(v) => Writing'
           /\ Same \/ Newer
<1>0. <<v, "nl">> \in Seq(Plain) /\ ~(Reading /\ Writing)
  BY SymbolFacts DEF Reading, Writing
<1>1. CASE NextIs(v) /\ Accept
  BY <1>1, AcceptFile DEF NextIs, Same
<1>2. CASE Reading /\ ~NextIs(v) /\ Change /\ pending' = <<v, "nl">>
  BY <1>2, <1>0, ChangeFile DEF Newer
<1>3. CASE Writing /\ pending' = pending \o <<v, "nl">> /\ Unchanged /\ UNCHANGED db
  <2>1. Same /\ Writing' /\ ~NextIs(v)
    BY <1>3 DEF Same, Unchanged, Writing, NextIs, HasLine
  <2>2. pending' \in Seq(Plain)
    BY <1>0, <1>3 DEF FileOK, FileTypes
  <2>3. FileTypes'
    BY <1>3, <2>1, <2>2 DEF FileOK, FileTypes, Same
  <2>4. FileInv'
    BY <1>3, <2>1 DEF FileOK, FileInv, Same, Writing, Reading, Complete
  <2>5. DatabaseHonest'
    BY <2>1 DEF FileOK, DatabaseHonest, Same
  <2>6. Written' = Written \o <<v, "nl">>
    <3>1. Written = file \o pending /\ Written' = file \o (pending \o <<v, "nl">>)
      BY <1>3, <2>1 DEF Written, Same
    <3>2. file \in Seq(Symbols) /\ pending \in Seq(Symbols) /\ <<v, "nl">> \in Seq(Symbols)
      BY <1>0, SymbolFacts DEF FileOK, FileTypes
    <3>3. file \o (pending \o <<v, "nl">>) = (file \o pending) \o <<v, "nl">>
      BY <3>2, CatAssociative
    <3> QED
      BY <3>1, <3>3
  <2> QED
    BY <2>1, <2>3, <2>4, <2>5, <2>6 DEF FileOK
<1> QED
  BY <1>1, <1>2, <1>3 DEF Expect

\* close(), whatever has to be done for it.
LEMMA CloseFile ==
    ASSUME FileOK, db.state # "closed", NEW touch \in BOOLEAN, Close(touch)
    PROVE  /\ FileOK' /\ file' = Written \o <<"end">>
           /\ db' = Closed /\ recorded' = file'
           /\ Same \/ Newer
           /\ db.state = "read_eof" /\ ~touch => Same
<1>0. /\ file \in Seq(Symbols) /\ pending \in Seq(Symbols) /\ <<"end">> \in Seq(Symbols)
      /\ Written \in Seq(Plain) /\ Written \in Seq(Symbols)
  BY SymbolFacts, WrittenPlain DEF FileOK, FileTypes
<1>1. db' = Closed /\ pending' = <<>> /\ recorded' = file' /\ db'.state = "closed" /\ ~Reading' /\ ~Writing'
  BY DEF Close, Closed, Reading, Writing
<1>5. file' = Written \o <<"end">> /\ (Same \/ Newer) /\ (db.state = "read_eof" /\ ~touch => Same)
  <2>2. CASE db.state = "read_eof"
    <3>1. ~Writing /\ Reading /\ pending = <<>> /\ db.pos = Len(file) /\ Complete(file)
      BY <2>2 DEF Writing, Reading, FileOK, FileInv
    <3>2. file = Written \o <<"end">>
      BY <3>1, <1>0, LastOne DEF Written, Complete
    <3>3. CASE ~touch
      BY <2>2, <3>2, <3>3 DEF Close, Unchanged, Same
    <3>4. CASE touch
      <4>1. file' = Put(db.pos, pending \o <<"end">>) /\ Newer
        BY <2>2, <3>4 DEF Close, Newer, Now
      <4>2. Put(Len(file), <<"end">>) = SubSeq(file, 1, Len(file) - 1) \o <<"end">>
        <5>1. SubSeq(file, Len(file) + Len(<<"end">>), Len(file)) = <<>>
          BY <1>0
        <5>2. SubSeq(file, 1, Len(file) - 1) \o <<"end">> \in Seq(Symbols)
          BY <3>1, <3>2, <1>0 DEF Written
        <5> QED
          BY <5>1, <5>2 DEF Put
      <4>3. pending \o <<"end">> = <<"end">>
        BY <3>1, <1>0
      <4> QED
        BY <4>1, <4>2, <4>3, <3>1, <3>4 DEF Written
    <3> QED
      BY <3>3, <3>4
  <2>3. CASE db.state = "read"
    <3>1. file' = Truncated \o <<"end">> /\ Newer
      BY <2>3 DEF Close, Newer, Now
    <3> QED
      BY <2>3, <3>1 DEF Truncated, Written, Writing
  <2>4. CASE db.state = "write"
    <3>1. file' = Put(db.pos, pending \o <<"end">>) /\ Newer /\ Written = file \o pending
      BY <2>4 DEF Close, Newer, Now, Written, Writing
    <3>2. db.pos = Len(file) + 1
      BY <2>4 DEF FileOK, FileInv, Writing
    <3>3. pending \o <<"end">> \in Seq(Symbols)
      BY <1>0
    <3>4. Put(Len(file) + 1, pending \o <<"end">>) = file \o (pending \o <<"end">>)
      BY <1>0, <3>3, PutAtEnd
    <3>5. file \o (pending \o <<"end">>) = (file \o pending) \o <<"end">>
      BY <1>0, CatAssociative
    <3> QED
      BY <2>4, <3>1, <3>2, <3>4, <3>5
  <2> QED
    BY <2>2, <2>3, <2>4 DEF FileOK, FileTypes
<1>6. /\ file' \in Seq(Symbols) /\ file' # <<>>
      /\ \A i \in 1 .. Len(file') : file'[i] = "end" => i = Len(file')
  <2>1. PICK w \in Seq(Plain) : w = Written /\ w \in Seq(Symbols)
    BY <1>0
  <2>2. Len(w \o <<"end">>) = Len(w) + 1 /\ w \o <<"end">> \in Seq(Symbols)
    BY <1>0, <2>1
  <2>3. ASSUME NEW i \in 1 .. Len(w) PROVE (w \o <<"end">>)[i] # "end"
    <3>1. (w \o <<"end">>)[i] = w[i]
      BY <1>0, <2>1
    <3>2. w[i] \in Plain
      BY <2>1
    <3> QED
      BY <3>1, <3>2, SymbolFacts
  <2>4. w \o <<"end">> # <<>>
    BY <2>2
  <2> QED
    BY <1>5, <2>1, <2>2, <2>3, <2>4
<1>7. file_mtime' \in Nat /\ clock' \in Nat /\ (file_mtime' = 0 => file' = <<>>)
  BY <1>5, <1>6 DEF Same, Newer, FileOK, FileTypes, FileInv
<1>8. FileTypes'
  BY <1>1, <1>6, <1>7 DEF FileTypes, Closed
<1>9. FileInv'
  BY <1>1, <1>6, <1>7 DEF FileInv
<1>10. DatabaseHonest'
  BY <1>1 DEF DatabaseHonest
<1> QED
  BY <1>1, <1>5, <1>8, <1>9, <1>10 DEF FileOK

\* The constructor.
LEMMA OpenFile ==
    ASSUME FileOK, Open, UNCHANGED recorded
    PROVE  /\ FileOK' /\ UNCHANGED file /\ Encodes(Written', 0, LineAt')
           /\ file_mtime = 0 => Writing' /\ Newer
           /\ file_mtime # 0 => Reading' /\ Same
<1>1. CASE file_mtime = 0
  <2>1. db' = [state |-> "write", pos |-> 1, mtime |-> 0] /\ pending' = <<>> /\ file' = file /\ Newer
    BY <1>1 DEF Open, Now, Newer
  <2>2. file = <<>> /\ Len(<<>>) = 0 /\ <<>> \in Seq(Plain) /\ <<>> \in Seq(Symbols)
    BY <1>1 DEF FileOK, FileInv
  <2>3. FileTypes' /\ file_mtime' # 0
    BY <2>1, <2>2 DEF FileTypes, FileOK, Newer
  <2>4. Writing' /\ db'.pos = 1
    BY <2>1 DEF Writing
  <2>5. FileOK'
    BY <2>1, <2>2, <2>3, <2>4, OpenFileOK
  <2>6. Written' = <<>>
    BY <2>1, <2>2, <2>4 DEF Written
  <2> QED
    BY <1>1, <2>1, <2>4, <2>5, <2>6 DEF Encodes, Begins
<1>2. CASE file_mtime # 0
  <2>1. db' = [state |-> "read", pos |-> 1, mtime |-> file_mtime] /\ pending' = <<>> /\ Same
    BY <1>2 DEF Open, Same
  <2>2. Reading' /\ ~Writing' /\ db'.pos = 1 /\ db'.mtime = file_mtime'
    BY <2>1 DEF Reading, Writing, Same
  <2>3. FileTypes'
    BY <2>1 DEF FileTypes, FileOK, Same
  <2>4. FileInv'
    BY <1>2, <2>1, <2>2 DEF FileInv, FileOK, Same
  <2>5. DatabaseHonest'
    BY <2>1 DEF FileOK, DatabaseHonest, Same
  <2>6. Written' = <<>>
    BY <2>1, <2>2, <2>3 DEF Written, FileTypes
  <2> QED
    BY <1>2, <2>1, <2>2, <2>3, <2>4, <2>5, <2>6 DEF FileOK, Same, Encodes, Begins
<1> QED
  BY <1>1, <1>2

-----------------------------------------------------------------------------
(***************************************************************************)
(* The lines, and what the invariant says about the database.              *)
(***************************************************************************)
LEMMA RuleFacts ==
    ASSUME Shapes
    PROVE  /\ rule \in {"script", "in", "compile"}
           /\ source.content \in Sources /\ NumVars[source.content] \in Nat
           /\ option \in Plain /\ value \in Plain /\ source.content \in Plain /\ Version \in Plain
BY DepdbAssumption DEF Shapes, TypeOK, Plain, Symbols, Control

\* The first two lines, and the rest.
LEMMA TwoAndRest ==
    ASSUME NEW S, NEW a \in S, NEW b \in S, NEW rest \in Seq(S), NEW L, L = <<a, b>> \o rest
    PROVE  /\ L \in Seq(S) /\ Len(L) = 2 + Len(rest) /\ L[1] = a /\ L[2] = b
           /\ \A j \in 1 .. Len(rest) : L[2 + j] = rest[j]
OBVIOUS

LEMMA LinesFacts ==
    ASSUME Shapes
    PROVE  /\ Lines \in Seq(Plain) /\ Count \in Nat /\ Count >= 2 /\ Len(Lines) = Count
           /\ Decided \in {2, 3} /\ Decided <= Count
           /\ \A i \in 1 .. Count : LineAt[i] = Lines[i] /\ Lines[i] \in Plain
<1>0. Version \in Plain /\ option \in Plain /\ value \in Plain /\ source.content \in Plain
  BY RuleFacts
<1>1. PICK r \in Plain : r = IF rule = "compile" THEN source.content ELSE value
  BY <1>0
<1>2. PICK n \in Nat : Count = 2 + n
  BY RuleFacts DEF Count
<1>3. PICK rest : /\ Lines = <<Version, option>> \o rest /\ rest \in Seq(Plain) /\ Len(rest) = n
                  /\ \A j \in 1 .. n : rest[j] = r
  <2>1. CASE rule = "script"
    <3>1. Lines = <<Version, option>> \o <<value>> /\ n = 1 /\ r = value
      BY <2>1, <1>1, <1>2 DEF Lines, Count
    <3>2. <<value>> \in Seq(Plain) /\ Len(<<value>>) = 1 /\ \A j \in 1 .. 1 : <<value>>[j] = value
      BY <1>0
    <3> QED
      BY <3>1, <3>2, Zenon
  <2>2. CASE rule = "compile"
    <3>1. Lines = <<Version, option>> \o <<source.content, source.content>> /\ n = 2 /\ r = source.content
      BY <2>2, <1>1, <1>2 DEF Lines, Count
    <3>2. PICK c \in Plain : c = source.content
      BY <1>0
    <3>3. <<c, c>> \in Seq(Plain) /\ Len(<<c, c>>) = 2 /\ \A j \in 1 .. 2 : <<c, c>>[j] = c
      OBVIOUS
    <3> QED
      BY <3>1, <3>2, <3>3, Zenon
  <2>3. CASE rule = "in"
    <3>1. Lines = <<Version, option>> \o [i \in 1 .. NumVars[source.content] |-> value]
          /\ n = NumVars[source.content] /\ r = value
      BY <2>3, <1>1, <1>2, RuleFacts DEF Lines, Count
    <3>2. [i \in 1 .. n |-> r] \in Seq(Plain) /\ Len([i \in 1 .. n |-> r]) = n
      OBVIOUS
    <3>3. \A j \in 1 .. n : [i \in 1 .. n |-> r][j] = r
      OBVIOUS
    <3> QED
      BY <3>1, <3>2, <3>3, Zenon
  <2> QED
    BY <2>1, <2>2, <2>3, RuleFacts
<1>4. /\ Lines \in Seq(Plain) /\ Len(Lines) = 2 + n /\ Lines[1] = Version /\ Lines[2] = option
      /\ \A j \in 1 .. n : Lines[2 + j] = r
  BY <1>0, <1>3, TwoAndRest
<1>5. Decided \in {2, 3} /\ Decided <= Count
  BY <1>2 DEF Decided, Count
<1>6. ASSUME NEW i \in 1 .. Count
      PROVE  LineAt[i] = Lines[i] /\ Lines[i] \in Plain
  <2>1. CASE i = 1
    BY <2>1, <1>0, <1>4 DEF LineAt
  <2>2. CASE i = 2
    BY <2>2, <1>0, <1>4 DEF LineAt
  <2>3. CASE i > 2
    <3>1. PICK j \in 1 .. n : i = 2 + j
      BY <2>3, <1>2
    <3>2. Lines[i] = r
      BY <3>1, <1>4
    <3>3. LineAt[i] = r
      BY <2>3, <1>1, <1>2 DEF LineAt
    <3> QED
      BY <3>2, <3>3
  <2> QED
    BY <2>1, <2>2, <2>3, <1>2
<1> QED
  BY <1>2, <1>4, <1>5, <1>6

\* The lines stay as they are during a build.
LEMMA LinesKept ==
    ASSUME UNCHANGED inputs
    PROVE  UNCHANGED <<Lines, LineAt, Count, Decided>>
BY DEF inputs, Lines, LineAt, Count, Decided

LEMMA InvFile ==
    ASSUME IndInv
    PROVE  FileOK /\ db.state \in {"closed", "read", "read_eof", "write"}
BY DEF IndInv, FileOK, FileTypes, Shapes, TypeOK, Symbols

\* Where the next line is.
LEMMA Position ==
    ASSUME FileOK, Reading, NEW n \in Nat, NEW l, Encodes(Written, n, l)
    PROVE  db.pos = 2 * n + 1 /\ \A i \in 1 .. n : file[2 * i - 1] = l[i] /\ file[2 * i] = "nl"
<1>1. PICK p \in Nat : p = db.pos - 1 /\ db.pos = p + 1 /\ p <= Len(file)
  BY DEF FileOK, FileTypes, FileInv
<1>2. Written = SubSeq(file, 1, p) /\ file \in Seq(Symbols)
  BY <1>1 DEF Written, Reading, Writing, FileOK, FileTypes
<1>3. Len(SubSeq(file, 1, p)) = p
  BY <1>1, <1>2, Beginning
<1>4. p = 2 * n
  BY <1>2, <1>3 DEF Encodes
<1>5. ASSUME NEW i \in 1 .. n
      PROVE  file[2 * i - 1] = l[i] /\ file[2 * i] = "nl"
  <2>1. 2 * i - 1 \in 1 .. p /\ 2 * i \in 1 .. p
    BY <1>4
  <2>2. SubSeq(file, 1, p)[2 * i - 1] = file[2 * i - 1] /\ SubSeq(file, 1, p)[2 * i] = file[2 * i]
    BY <1>1, <1>2, <2>1
  <2> QED
    BY <2>2, <1>2 DEF Encodes, Begins
<1> QED
  BY <1>1, <1>4, <1>5

\* A complete database has a next line until there are no more.
LEMMA Matching ==
    ASSUME FileOK, Reading, NEW n \in Nat, NEW l, Encodes(Written, n, l),
           NEW T, NEW L \in Seq(T), Says(file, L), n < Len(L)
    PROVE  HasLine /\ file[db.pos] = L[n + 1] /\ db.pos = 2 * n + 1
<1>1. db.pos = 2 * n + 1 /\ Len(L) \in Nat /\ Len(file) = 2 * Len(L) + 1
  BY Position DEF Says
<1>2. file[2 * (n + 1) - 1] = L[n + 1] /\ file[2 * (n + 1)] = "nl"
  BY <1>1 DEF Says, Begins
<1>3. 2 * (n + 1) - 1 = db.pos /\ 2 * (n + 1) = db.pos + 1 /\ db.pos + 2 <= Len(file) /\ db.pos # Len(file)
  BY <1>1
<1>4. db.state = "read"
  BY <1>3 DEF Reading, FileOK, FileInv
<1> QED
  BY <1>1, <1>2, <1>3, <1>4 DEF HasLine

LEMMA AllRead ==
    ASSUME FileOK, Reading, NEW n \in Nat, n > 0, NEW l, Encodes(Written, n, l), Len(file) = 2 * n + 1, Complete(file)
    PROVE  db.state = "read_eof"
<1>1. db.pos = 2 * n + 1
  BY Position
<1>2. db.pos = Len(file) /\ db.pos > 1
  BY <1>1
<1> QED
  BY <1>2 DEF Reading, FileOK, FileInv, Complete

LEMMA SaysComplete ==
    ASSUME file \in Seq(Symbols), NEW T, NEW L \in Seq(T), Says(file, L)
    PROVE  Complete(file) /\ Len(file) = 2 * Len(L) + 1
BY DEF Says, Complete

\* All has been looked at and nothing was found that calls for an update.
LEMMA NoUpdate ==
    ASSUME IndInv, Reading, ~build.update, build.step \in {"compare", "close"},
           Encodes(Written, Count, LineAt), Complete(file), Len(file) = 2 * Count + 1
    PROVE  db.state = "read_eof" /\ Says(file, Lines) /\ target.content = Lines
<1>1. FileOK /\ Shapes
  BY InvFile DEF IndInv
<1>2. Count \in Nat /\ Count > 0 /\ Lines \in Seq(Plain) /\ Len(Lines) = Count
  BY <1>1, LinesFacts
<1>3. db.state = "read_eof"
  BY <1>1, <1>2, AllRead
<1>4. Says(file, Lines)
  <2>1. file[Len(file)] = "end"
    BY DEF Complete
  <2>2. \A i \in 1 .. Count : file[2 * i - 1] = LineAt[i] /\ file[2 * i] = "nl"
    BY <1>1, <1>2, Position
  <2>3. \A i \in 1 .. Count : file[2 * i - 1] = Lines[i] /\ file[2 * i] = "nl"
    BY <2>2, <1>1, LinesFacts
  <2> QED
    BY <2>1, <2>3, <1>2 DEF Says, Begins
<1>5. file_mtime # 0 /\ file_mtime <= target.mtime
  BY <1>1 DEF IndInv, FileOK, FileInv, Decisions, Reading
<1>6. Says(file, target.content)
  BY <1>5 DEF IndInv, Trusted
<1>7. target.content \in Seq(Symbols \cup {"partial"}) /\ Lines \in Seq(Symbols \cup {"partial"})
  BY <1>1, <1>2, SymbolFacts DEF Shapes, TargetType
<1>8. target.content = Lines
  BY <1>4, <1>6, <1>7, SaysUnique
<1> QED
  BY <1>3, <1>4, <1>8

-----------------------------------------------------------------------------
(***************************************************************************)
(* The steps of a build.                                                   *)
(***************************************************************************)
ClosedSteps == {"idle", "run", "output", "perform"}

\* A step that changes only the database and goes on with the build.
LEMMA ShapesKept ==
    ASSUME Shapes, UNCHANGED <<inputs, edits>>, builds' \in 0 .. MaxBuilds, settled' \in BOOLEAN,
           FileTypes', Same \/ Newer, UNCHANGED target, build' \in BuildType,
           db'.state = "closed" <=> build'.step \in ClosedSteps
    PROVE  Shapes'
<1>1. clock \in Nat /\ clock' \in Nat /\ file_mtime' <= clock' /\ clock <= clock'
  BY DEF Shapes, TypeOK, Same, Newer
<1>2. target'.mtime <= clock' /\ source'.mtime <= clock'
  BY <1>1 DEF Shapes, TypeOK, TargetType, inputs
<1>3. TypeOK'
  BY DEF Shapes, TypeOK, FileTypes, inputs, Symbols
<1> QED
  BY <1>1, <1>2, <1>3 DEF Shapes, FileTypes, ClosedSteps

\* The same for Trusted: a database that is written is newer than the target.
LEMMA TrustedKept ==
    ASSUME Shapes, Trusted, UNCHANGED <<inputs, target>>, Same \/ Newer
    PROVE  Trusted'
<1>1. CASE Same
  <2>1. UNCHANGED Count
    BY LinesKept DEF inputs
  <2>2. UNCHANGED <<file, file_mtime, target, rule, source>>
    BY <1>1 DEF Same, inputs
  <2> QED
    BY <2>1, <2>2 DEF Trusted, Complete, Says, Begins
<1>2. CASE Newer
  <2>1. ~(file_mtime' <= target'.mtime)
    BY <1>2 DEF Newer, Shapes, TypeOK, TargetType
  <2> QED
    BY <2>1 DEF Trusted
<1> QED
  BY <1>1, <1>2

LEMMA StartStep ==
    ASSUME IndInv, NEW dry_run \in BOOLEAN, Start(dry_run)
    PROVE  IndInv'
<1>0. Shapes /\ FileOK /\ At("idle")
  BY InvFile DEF IndInv, Start
<1>1. FileOK' /\ UNCHANGED file /\ Encodes(Written', 0, LineAt') /\ (file_mtime = 0 => Writing' /\ Newer)
      /\ (file_mtime # 0 => Reading' /\ Same)
  BY <1>0, OpenFile DEF Start
<1>2. build' = [Idle EXCEPT !.step = "expect", !.mt = target.mtime, !.dry_run = dry_run]
      /\ UNCHANGED <<inputs, edits, target, recorded, settled>> /\ builds' \in 0 .. MaxBuilds
  BY <1>0, DepdbAssumption DEF Start, Shapes, TypeOK
<1>3. /\ build' \in BuildType /\ build'.step = "expect" /\ build'.mt = target.mtime /\ build'.line = 1
      /\ ~build'.update /\ ~build'.touch
  BY <1>0, <1>2 DEF Idle, BuildType, BuildSteps, Shapes, TargetType
<1>4. db'.state # "closed" /\ (Same \/ Newer)
  BY <1>1 DEF Reading, Writing
<1>5. Shapes'
  BY <1>0, <1>1, <1>2, <1>3, <1>4, ShapesKept DEF ClosedSteps, FileOK, Shapes, TypeOK
<1>6. Trusted'
  BY <1>0, <1>2, <1>4, TrustedKept DEF IndInv
<1>7. Progress'
  <2>1. Seen' = 0
    BY <1>3 DEF Seen
  <2>2. build'.line \in 1 .. Decided' + 1
    BY <1>3, <1>5, LinesFacts DEF Decided
  <2> QED
    BY <1>1, <1>3, <2>1, <2>2 DEF Progress, At
<1>8. Decisions'
  BY <1>2, <1>3 DEF Decisions, At
<1>9. SettledInv'
  <2> SUFFICES ASSUME settled' PROVE SettledInv'
    BY DEF SettledInv
  <2>1. settled /\ Says(file, Lines) /\ target.content = Lines
        /\ file_mtime <= target.mtime /\ source.mtime <= target.mtime
    BY <1>2 DEF IndInv, SettledInv
  <2>2. Complete(file)
    BY <1>0, <2>1, SaysComplete, LinesFacts DEF FileOK, FileTypes
  <2>3. file_mtime # 0
    BY <1>0, <2>2 DEF FileOK, FileInv, Complete
  <2>4. Lines' = Lines
    BY <1>2, LinesKept
  <2> QED
    BY <1>1, <1>2, <1>3, <2>1, <2>3, <2>4 DEF SettledInv, Same, inputs, Says, Begins
<1> QED
  BY <1>1, <1>5, <1>6, <1>7, <1>8, <1>9 DEF IndInv, FileOK

\* A step that only looks when there is nothing to do.
LEMMA SettledKept ==
    ASSUME SettledInv, UNCHANGED <<inputs, target, settled>>,
           settled => /\ Same /\ ~build'.update /\ ~build'.touch
                      /\ build'.step \in {"idle", "expect", "headers", "checksum", "compare", "close", "perform"}
                      /\ db'.state # "closed" => Reading'
    PROVE  SettledInv'
<1>1. UNCHANGED <<Lines, source>>
  BY LinesKept DEF inputs
<1> QED
  BY <1>1 DEF SettledInv, Same, Says, Begins

\* With nothing to do the next line is as expected.
LEMMA SettledNext ==
    ASSUME IndInv, settled, db.state # "closed", NEW n \in Nat, n < Count, Encodes(Written, n, LineAt)
    PROVE  HasLine /\ NextIs(Lines[n + 1])
<1>1. FileOK /\ Reading /\ Says(file, Lines) /\ Lines \in Seq(Plain) /\ n < Len(Lines)
  BY InvFile, LinesFacts DEF IndInv, SettledInv
<1> QED
  BY <1>1, Matching DEF NextIs

LEMMA ExpectLineStep ==
    ASSUME IndInv, ExpectLine
    PROVE  IndInv'
<1>0. Shapes /\ FileOK /\ At("expect")
  BY InvFile DEF IndInv, ExpectLine
<1>1. PICK n \in Nat : build.line = n + 1 /\ n < Decided
  <2>1. build.line \in 1 .. Decided + 1 /\ build.line <= Decided /\ Decided \in {2, 3}
    BY <1>0, LinesFacts DEF IndInv, Progress, ExpectLine
  <2>2. build.line - 1 \in Nat /\ build.line = (build.line - 1) + 1 /\ build.line - 1 < Decided
    BY <2>1
  <2> QED
    BY <2>2
<1>2. /\ Count \in Nat /\ Decided <= Count /\ Decided \in {2, 3} /\ n < Count
      /\ Lines[n + 1] \in Plain /\ LineAt[n + 1] = Lines[n + 1]
  BY <1>0, <1>1, LinesFacts
<1>3. db.state # "closed" /\ Seen = n /\ Encodes(Written, n, LineAt)
  BY <1>0, <1>1 DEF Shapes, At, Seen, IndInv, Progress
<1>4. UNCHANGED <<inputs, bounds, recorded, settled, target>> /\ Expect(Lines[n + 1])
      /\ build' = [build EXCEPT !.line = @ + 1]
  BY <1>1 DEF ExpectLine, Other
<1>5. /\ FileOK' /\ Written' = Written \o <<Lines[n + 1], "nl">>
      /\ NextIs(Lines[n + 1]) => Reading' /\ Same
      /\ ~NextIs(Lines[n + 1]) => Writing'
      /\ Same \/ Newer
  BY <1>0, <1>2, <1>4, ExpectFile
<1>6. /\ build' \in BuildType /\ build'.step = "expect" /\ build'.line = n + 2 /\ build'.mt = build.mt
      /\ build'.update = build.update /\ build'.touch = build.touch
  BY <1>0, <1>1, <1>4 DEF Shapes, BuildType, At
<1>7. db'.state # "closed"
  BY <1>5 DEF Reading, Writing
<1>8. Shapes'
  BY <1>0, <1>4, <1>5, <1>6, <1>7, ShapesKept DEF FileOK, ClosedSteps, Shapes, TypeOK, bounds
<1>9. Trusted'
  BY <1>0, <1>4, <1>5, TrustedKept DEF IndInv
<1>10. Progress'
  <2>1. Seen' = n + 1
    BY <1>6 DEF Seen
  <2>2. Written \in Seq(Plain) /\ "nl" \in Plain
    BY <1>0, <1>3, WrittenPlain, SymbolFacts
  <2>3. Encodes(Written', n + 1, LineAt)
    BY <1>2, <1>3, <1>5, <2>2, EncodesMore
  <2>4. UNCHANGED <<LineAt, Decided>>
    BY <1>4, LinesKept
  <2> QED
    BY <1>1, <1>2, <1>6, <2>1, <2>3, <2>4 DEF Progress, At
<1>11. Decisions'
  BY <1>0, <1>4, <1>6 DEF IndInv, Decisions, At
<1>12. SettledInv'
  <2>1. settled => Same /\ Reading' /\ ~build.update /\ ~build.touch
    BY <1>2, <1>3, <1>5, SettledNext DEF IndInv, SettledInv
  <2> QED
    BY <1>4, <1>6, <2>1, SettledKept DEF IndInv
<1> QED
  BY <1>5, <1>8, <1>9, <1>10, <1>11, <1>12 DEF IndInv, FileOK

LEMMA DecideStep ==
    ASSUME IndInv, Decide
    PROVE  IndInv'
<1>0. Shapes /\ FileOK /\ At("expect") /\ rule \in {"script", "in", "compile"} /\ db.state # "closed"
  BY InvFile, RuleFacts DEF IndInv, Decide, Shapes, At
<1>1. build.line = Decided + 1 /\ Count \in Nat /\ Decided <= Count /\ Decided \in {2, 3}
  BY <1>0, LinesFacts DEF IndInv, Progress, Decide, Shapes, BuildType
<1>2. Seen = Decided /\ Encodes(Written, Decided, LineAt)
  BY <1>0, <1>1 DEF At, Seen, IndInv, Progress
<1>3. UNCHANGED <<inputs, bounds, recorded, settled, clock, file, file_mtime, target, db, pending>>
  BY DEF Decide, Other, Untouched
<1>4. PICK forced \in BOOLEAN : forced <=> (Writing \/ Interrupted)
  OBVIOUS
<1>5. PICK step \in {"close", "compare", "headers"} :
         step = CASE rule = "script" -> "close" [] rule = "in" -> "compare" [] rule = "compile" -> "headers"
  BY <1>0
<1>6. PICK u \in BOOLEAN : u <=> (forced \/ source.mtime > build.mt)
  OBVIOUS
<1>7. build' = [build EXCEPT !.update = forced \/ source.mtime > build.mt, !.mt = IF forced THEN 0 ELSE @, !.step = step]
  BY <1>4, <1>5 DEF Decide
<1>8. /\ build' \in BuildType /\ build'.step = step /\ build'.line = Decided + 1
      /\ build'.mt = IF forced THEN 0 ELSE build.mt
      /\ build'.update = u /\ build'.touch = build.touch
  <2>1. PICK m \in Nat : m = IF forced THEN 0 ELSE build.mt
    BY <1>0 DEF Shapes, BuildType
  <2>2. build' = [build EXCEPT !.update = u, !.mt = m, !.step = step]
    BY <1>6, <1>7, <2>1
  <2> QED
    BY <1>0, <1>1, <2>1, <2>2 DEF Shapes, BuildType, BuildSteps
<1>9. Same /\ FileTypes'
  BY <1>0, <1>3 DEF Same, FileOK, FileTypes
<1>10. Shapes'
  BY <1>0, <1>3, <1>8, <1>9, ShapesKept DEF ClosedSteps, Shapes, TypeOK, bounds
<1>11. Trusted'
  BY <1>0, <1>3, <1>9, TrustedKept DEF IndInv
<1>12. FileOK'
  BY <1>0, <1>3, <1>9 DEF FileOK, FileInv, DatabaseHonest, Reading, Writing, Complete
<1>13. build.mt = target.mtime /\ ~build.update /\ ~build.touch /\ build.mt \in Nat /\ source.mtime \in Nat
       /\ db.mtime \in Nat /\ file_mtime \in Nat
  BY <1>0 DEF IndInv, Decisions, At, Shapes, BuildType, TypeOK, FileOK, FileTypes
<1>14. Progress'
  <2>1. UNCHANGED <<LineAt, Count, Decided, Written>>
    BY <1>3, LinesKept DEF Written, Writing
  <2>2. Seen' = Decided
    BY <1>0, <1>1, <1>5, <1>8, <2>1 DEF Seen, Count, Decided
  <2>3. step = "close" => rule = "script"
    BY <1>0, <1>5
  <2>4. step = "compare" => rule = "in" /\ Decided = 2
    BY <1>0, <1>5 DEF Decided
  <2>5. step = "headers" => rule = "compile"
    BY <1>0, <1>5
  <2> QED
    BY <1>2, <1>3, <1>8, <2>1, <2>2, <2>3, <2>4, <2>5 DEF Progress, At, inputs
<1>15. Decisions'
  <2>1. ASSUME ~forced
        PROVE  Reading /\ file_mtime <= target.mtime
    BY <2>1, <1>0, <1>4, <1>13 DEF Interrupted, Reading, Writing, FileOK, FileTypes, FileInv
  <2>2. ASSUME ~u
        PROVE  source.mtime <= target.mtime /\ ~forced
    BY <2>2, <1>6, <1>13
  <2>3. forced => build'.mt = 0
    BY <1>8
  <2>4. ~forced => build'.mt = target.mtime
    BY <1>8, <1>13
  <2>5. Reading' <=> Reading
    BY <1>3 DEF Reading
  <2> QED
    BY <1>3, <1>8, <1>13, <2>1, <2>2, <2>3, <2>4, <2>5 DEF Decisions, At, inputs
<1>16. SettledInv'
  <2>1. ASSUME settled
        PROVE  ~u /\ Reading
    <3>1. Reading /\ file_mtime <= target.mtime /\ source.mtime <= target.mtime
      BY <1>0, <2>1 DEF IndInv, SettledInv
    <3>2. db.mtime = file_mtime /\ ~Writing
      BY <3>1, <1>0 DEF FileOK, FileInv, Reading, Writing
    <3> QED
      BY <3>1, <3>2, <1>4, <1>6, <1>13 DEF Interrupted
  <2>2. Reading' <=> Reading
    BY <1>3 DEF Reading
  <2> QED
    BY <1>3, <1>8, <1>9, <1>13, <2>1, <2>2, SettledKept DEF IndInv
<1> QED
  BY <1>10, <1>11, <1>12, <1>14, <1>15, <1>16 DEF IndInv, FileOK

\* The database that is left when all has been looked at or written.
LEMMA ClosedSays ==
    ASSUME IndInv, db.state # "closed", Encodes(Written, Count, LineAt), file' = Written \o <<"end">>
    PROVE  Says(file', Lines)
<1>1. Shapes /\ FileOK
  BY InvFile DEF IndInv
<1>2. Written \in Seq(Symbols) /\ "end" \in Symbols
  BY <1>1, WrittenPlain, SymbolFacts
<1>3. Lines \in Seq(Plain) /\ Len(Lines) = Count /\ \A i \in 1 .. Len(Lines) : LineAt[i] = Lines[i]
  BY <1>1, LinesFacts
<1>4. Encodes(Written, Len(Lines), LineAt)
  BY <1>3
<1> QED
  BY <1>2, <1>3, <1>4, EncodesEnd

LEMMA IdleFacts ==
    /\ Idle \in BuildType /\ Idle.step = "idle" /\ ~Idle.update /\ ~Idle.touch
    /\ Closed.state = "closed"
BY DEF Idle, BuildType, BuildSteps, Closed

\* Nothing is in progress.
LEMMA IdleStep ==
    ASSUME Shapes', FileOK', Trusted', build' = Idle, db'.state = "closed", SettledInv'
    PROVE  IndInv'
<1>1. Progress'
  BY IdleFacts DEF Progress, At
<1>2. Decisions'
  BY IdleFacts DEF Decisions, At
<1> QED
  BY <1>1, <1>2 DEF IndInv, FileOK

\* The target has been made from what the database says.
LEMMA MadeStep ==
    ASSUME IndInv, Says(file, Lines), build.step \in {"run", "output", "perform"},
           target' = [content |-> Lines, mtime |-> Now], clock' = Now, build' = Idle, settled' \in BOOLEAN,
           UNCHANGED <<inputs, bounds, file, file_mtime, db, pending, recorded>>
    PROVE  IndInv'
<1>0. Shapes /\ FileOK /\ db.state = "closed" /\ db'.state = "closed"
  BY InvFile DEF IndInv, Shapes
<1>1. Lines \in Seq(Plain) /\ Count \in Nat /\ Count >= 2 /\ Len(Lines) = Count /\ UNCHANGED <<Lines, Count>>
  BY <1>0, LinesFacts, LinesKept
<1>2. /\ target' \in TargetType /\ target'.content = Lines /\ target'.mtime = clock + 1
      /\ clock \in Nat /\ clock' = clock + 1
  BY <1>0, <1>1, SymbolFacts DEF TargetType, Now, Shapes, TypeOK
<1>3. file_mtime' <= target'.mtime /\ source'.mtime <= target'.mtime /\ UNCHANGED <<rule, source>>
  BY <1>0, <1>2 DEF Shapes, TypeOK, inputs
<1>4. Shapes'
  <2>1. TypeOK'
    BY <1>0, <1>2 DEF Shapes, TypeOK, inputs, bounds
  <2> QED
    BY <1>0, <1>2, <1>3, <2>1, IdleFacts DEF Shapes
<1>5. FileOK'
  BY <1>0, <1>2 DEF FileOK, FileTypes, FileInv, DatabaseHonest, Reading, Writing
<1>6. Says(file', Lines')
  BY <1>1 DEF Says, Begins
<1>7. Complete(file)' /\ Len(file') = 2 * Count + 1
  BY <1>0, <1>1, SaysComplete DEF FileOK, FileTypes, Complete
<1>8. rule = "compile" => file[5] = source.content /\ file[7] = source.content
  <2>1. ASSUME rule = "compile" PROVE file[2 * 3 - 1] = Lines[3] /\ file[2 * 4 - 1] = Lines[4] /\ Count = 4
    BY <1>1, <2>1 DEF Says, Begins, Count
  <2>2. ASSUME rule = "compile" PROVE Lines[3] = source.content /\ Lines[4] = source.content
    <3>1. Count = 4
      BY <2>2 DEF Count
    <3>2. LineAt[3] = Lines[3] /\ LineAt[4] = Lines[4]
      BY <1>0, <3>1, LinesFacts
    <3>3. LineAt[3] = source.content /\ LineAt[4] = source.content
      BY <2>2 DEF LineAt
    <3> QED
      BY <3>2, <3>3
  <2> QED
    BY <2>1, <2>2
<1>9. Trusted'
  BY <1>1, <1>2, <1>3, <1>6, <1>7, <1>8 DEF Trusted
<1>10. SettledInv'
  BY <1>0, <1>1, <1>2, <1>3, <1>6, IdleFacts DEF SettledInv
<1> QED
  BY <1>0, <1>4, <1>5, <1>9, <1>10, IdleStep

LEMMA RunStep ==
    ASSUME IndInv, Run
    PROVE  IndInv'
<1>1. Says(file, Lines) /\ build.step = "run"
  BY DEF IndInv, Progress, Run, At
<1>2. settled' \in BOOLEAN
  BY DEF Run, Finished, IndInv, Shapes, TypeOK
<1> QED
  BY <1>1, <1>2, MadeStep DEF Run, Finished

LEMMA OutputStep ==
    ASSUME IndInv, Output
    PROVE  IndInv'
<1>1. Says(file, Lines) /\ build.step = "output"
  BY DEF IndInv, Progress, Output, At
<1>2. Finished(TRUE)
  BY DEF Output, AfterOutput, OutputOrder
<1>3. settled' \in BOOLEAN
  BY <1>2 DEF Finished, IndInv, Shapes, TypeOK
<1> QED
  BY <1>1, <1>2, <1>3, MadeStep DEF Output, Finished

LEMMA CloseScriptStep ==
    ASSUME IndInv, CloseScript
    PROVE  IndInv'
<1>0. Shapes /\ FileOK /\ build.step = "close" /\ rule = "script" /\ db.state # "closed"
  BY InvFile DEF IndInv, CloseScript, At, Shapes
<1>1. Encodes(Written, Count, LineAt) /\ Count = 3
  BY <1>0 DEF IndInv, Progress, Seen, Count
<1>2. /\ FileOK' /\ file' = Written \o <<"end">> /\ db' = Closed
      /\ Same \/ Newer
      /\ db.state = "read_eof" => Same
  BY <1>0, CloseFile DEF CloseScript
<1>3. Says(file', Lines) /\ UNCHANGED <<inputs, bounds, target, Lines>>
  BY <1>0, <1>1, <1>2, ClosedSays, LinesKept DEF CloseScript
<1>4. CASE build.update /\ ~build.dry_run
  <2>1. build' = [build EXCEPT !.step = "run"] /\ UNCHANGED settled
    BY <1>4 DEF CloseScript, GoTo
  <2>2. build' \in BuildType /\ build'.step = "run" /\ build'.touch = build.touch /\ ~settled
    BY <1>0, <1>4, <2>1 DEF Shapes, BuildType, BuildSteps, IndInv, SettledInv
  <2>3. Shapes'
    BY <1>0, <1>2, <1>3, <2>1, <2>2, IdleFacts, ShapesKept DEF FileOK, ClosedSteps, Shapes, TypeOK, bounds
  <2>4. Trusted'
    BY <1>0, <1>2, <1>3, TrustedKept DEF IndInv
  <2>5. Progress'
    BY <1>2, <1>3, <2>2, IdleFacts DEF Progress, At
  <2>6. Decisions'
    BY <1>0, <2>2 DEF Decisions, At, IndInv
  <2>7. SettledInv'
    BY <2>1, <2>2 DEF SettledInv
  <2> QED
    BY <1>2, <2>3, <2>4, <2>5, <2>6, <2>7 DEF IndInv, FileOK
<1>5. CASE ~(build.update /\ ~build.dry_run)
  <2>1. build' = Idle /\ settled' = (settled \/ ~build.update)
    BY <1>5 DEF CloseScript, Finished
  <2>2. Shapes'
    <3>1. build.update \in BOOLEAN /\ settled \in BOOLEAN /\ builds \in 0 .. MaxBuilds
      BY <1>0 DEF Shapes, TypeOK, BuildType
    <3>2. settled' \in BOOLEAN /\ builds' \in 0 .. MaxBuilds /\ UNCHANGED edits
      BY <1>3, <2>1, <3>1 DEF bounds
    <3> QED
      BY <1>0, <1>2, <1>3, <2>1, <3>2, IdleFacts, ShapesKept DEF FileOK, ClosedSteps
  <2>3. Trusted'
    BY <1>0, <1>2, <1>3, TrustedKept DEF IndInv
  <2>4. SettledInv'
    <3> SUFFICES ASSUME settled' PROVE SettledInv'
      BY DEF SettledInv
    <3>1. ~build.update /\ ~build.touch
      BY <1>0, <2>1 DEF IndInv, SettledInv, Decisions, Shapes, BuildType
    <3>2. Reading /\ file_mtime <= target.mtime /\ source.mtime <= target.mtime
      BY <1>0, <3>1 DEF IndInv, Decisions
    <3>3. file_mtime # 0
      BY <1>0, <3>2 DEF FileOK, FileInv
    <3>4. Complete(file) /\ Len(file) = 2 * Count + 1
      BY <1>0, <3>2, <3>3 DEF IndInv, Trusted
    <3>5. db.state = "read_eof" /\ target.content = Lines
      BY <1>0, <1>1, <3>1, <3>2, <3>4, NoUpdate
    <3> QED
      BY <1>2, <1>3, <2>1, <3>2, <3>5, IdleFacts DEF SettledInv, Same, inputs, Says, Begins
  <2> QED
    BY <1>2, <2>1, <2>2, <2>3, <2>4, IdleFacts, IdleStep
<1> QED
  BY <1>4, <1>5

\* The rest of the database is going to be overwritten.
LEMMA ToSubstitute ==
    ASSUME IndInv, build.step = "compare", FileOK', Writing', Written' = Written,
           UNCHANGED <<inputs, bounds, recorded, settled, target>>, Same \/ Newer, ~settled,
           build' \in BuildType, build'.step = "substitute", build'.line = build.line,
           build'.touch = build.touch, build'.update, build.line <= Count + 1
    PROVE  IndInv'
<1>0. Shapes /\ db.state # "closed" /\ db'.state # "closed"
  BY DEF IndInv, Shapes, Writing
<1>1. Shapes'
  BY <1>0, ShapesKept DEF FileOK, ClosedSteps, Shapes, TypeOK, bounds
<1>2. Trusted'
  BY <1>0, TrustedKept DEF IndInv
<1>3. Progress'
  <2>1. UNCHANGED <<LineAt, Count>>
    BY LinesKept
  <2>2. Seen = build.line - 1 /\ Seen' = build.line - 1
    BY DEF Seen
  <2>3. rule = "in" /\ build.line >= 3 /\ Encodes(Written, build.line - 1, LineAt)
    BY <1>0, <2>2 DEF IndInv, Progress, At
  <2>4. build'.line \in 3 .. Count' + 1
    BY <1>0, <2>1, <2>3, LinesFacts DEF Shapes, BuildType
  <2> QED
    BY <2>1, <2>2, <2>3, <2>4 DEF Progress, At, inputs
<1>4. Decisions'
  BY DEF Decisions, At, IndInv
<1>5. SettledInv'
  BY DEF SettledInv
<1> QED
  BY <1>1, <1>2, <1>3, <1>4, <1>5 DEF IndInv, FileOK

LEMMA OverwriteAllStep ==
    ASSUME IndInv, OverwriteAll
    PROVE  IndInv'
<1>0. Shapes /\ FileOK /\ build.step = "compare" /\ build.update /\ db.state # "closed" /\ build.line = 3 /\ ~settled
  BY InvFile DEF IndInv, OverwriteAll, At, Shapes, Progress, SettledInv
<1>1. /\ UNCHANGED <<inputs, bounds, recorded, settled, target, pending>>
      /\ build' = [build EXCEPT !.step = "substitute"]
  BY DEF OverwriteAll, Other, GoTo
<1>2. FileOK' /\ Writing' /\ Written' = Written /\ (Same \/ Newer)
  <2>1. CASE Reading
    <3>1. Change /\ pending = <<>> /\ pending' = <<>>
      BY <1>1, <2>1, <1>0 DEF OverwriteAll, FileOK, FileInv, Reading, Writing
    <3>2. FileOK' /\ Writing' /\ Written' = Written \o pending' /\ Newer
      BY <1>0, <2>1, <3>1, ChangeFile DEF Newer
    <3>3. Written \in Seq(Plain)
      BY <1>0, WrittenPlain
    <3> QED
      BY <3>1, <3>2, <3>3
  <2>2. CASE ~Reading
    <3>1. UNCHANGED <<clock, file, file_mtime, db>> /\ Writing
      BY <1>0, <2>2 DEF OverwriteAll, Unchanged, Reading, Writing, FileOK, FileTypes
    <3> QED
      BY <1>0, <1>1, <3>1 DEF FileOK, FileTypes, FileInv, DatabaseHonest, Reading, Writing, Written, Complete, Same
  <2> QED
    BY <2>1, <2>2
<1>3. /\ build' \in BuildType /\ build'.step = "substitute" /\ build'.line = build.line
      /\ build'.touch = build.touch /\ build'.update
  BY <1>0, <1>1 DEF Shapes, BuildType, BuildSteps
<1>4. build.line <= Count + 1
  BY <1>0, LinesFacts
<1> QED
  BY <1>0, <1>1, <1>2, <1>3, <1>4, ToSubstitute

LEMMA CompareFacts ==
    ASSUME IndInv, build.step = "compare", ~build.update
    PROVE  /\ Shapes /\ FileOK /\ rule = "in" /\ Reading /\ db.state # "closed"
           /\ build.line \in Nat /\ build.line - 1 \in Nat /\ build.line >= 3
           /\ Encodes(Written, build.line - 1, LineAt) /\ LineAt[build.line] = value /\ value \in Plain
           /\ file_mtime # 0 /\ file_mtime <= target.mtime /\ source.mtime <= target.mtime
           /\ db.pos = 2 * (build.line - 1) + 1
<1>1. /\ Shapes /\ FileOK /\ rule = "in" /\ db.state # "closed" /\ build.line \in Nat /\ build.line >= 3
      /\ ~build.touch
  BY InvFile DEF IndInv, At, Shapes, Progress, BuildType, Decisions
<1>2. Reading /\ file_mtime <= target.mtime /\ source.mtime <= target.mtime
  BY <1>1 DEF IndInv, Decisions
<1>3. file_mtime # 0
  BY <1>1, <1>2 DEF FileOK, FileInv
<1>4. Encodes(Written, build.line - 1, LineAt)
  BY <1>1 DEF IndInv, Progress, Seen
<1>5. LineAt[build.line] = value /\ value \in Plain
  BY <1>1, RuleFacts DEF LineAt
<1>6. build.line - 1 \in Nat
  BY <1>1
<1> QED
  BY <1>1, <1>2, <1>3, <1>4, <1>5, <1>6, Position

LEMMA CompareGoodStep ==
    ASSUME IndInv, CompareGood
    PROVE  IndInv'
<1>0. build.step = "compare" /\ ~build.update /\ NextIs(value) /\ HasLine /\ file[db.pos] = value
  BY DEF CompareGood, At, NextIs
<1>1. /\ Shapes /\ FileOK /\ rule = "in" /\ Reading /\ build.line \in Nat /\ build.line - 1 \in Nat /\ build.line >= 3
      /\ Encodes(Written, build.line - 1, LineAt) /\ LineAt[build.line] = value /\ value \in Plain
      /\ db.state # "closed"
  BY <1>0, CompareFacts
<1>2. /\ UNCHANGED <<inputs, bounds, recorded, settled, target>> /\ Accept
      /\ build' = [build EXCEPT !.line = @ + 1]
  BY DEF CompareGood, Other
<1>3. FileOK' /\ Reading' /\ Same /\ Written' = Written \o <<value, "nl">>
  BY <1>0, <1>1, <1>2, AcceptFile DEF Same
<1>4. /\ build' \in BuildType /\ build'.step = "compare" /\ build'.line = build.line + 1 /\ build'.mt = build.mt
      /\ build'.update = build.update /\ build'.touch = build.touch
  BY <1>0, <1>1, <1>2 DEF Shapes, BuildType
<1>5. db'.state # "closed"
  BY <1>3 DEF Reading
<1>6. Shapes'
  BY <1>1, <1>2, <1>3, <1>4, <1>5, ShapesKept DEF FileOK, ClosedSteps, Shapes, TypeOK, bounds
<1>7. Trusted'
  BY <1>1, <1>2, <1>3, TrustedKept DEF IndInv
<1>8. Progress'
  <2>1. PICK n \in Nat : n = build.line - 1 /\ build.line = n + 1 /\ build'.line - 1 = n + 1
    BY <1>1, <1>4
  <2>2. Seen' = n + 1 /\ UNCHANGED LineAt
    BY <1>2, <1>4, <2>1, LinesKept DEF Seen
  <2>3. Written \in Seq(Plain) /\ "nl" \in Plain
    BY <1>1, WrittenPlain, SymbolFacts
  <2>4. Encodes(Written', n + 1, LineAt)
    BY <1>1, <1>3, <2>1, <2>3, EncodesMore
  <2> QED
    BY <1>0, <1>1, <1>2, <1>4, <2>1, <2>2, <2>4 DEF Progress, At, inputs
<1>9. Decisions'
  BY <1>0, <1>2, <1>3, <1>4 DEF IndInv, Decisions, At, Same, inputs
<1>10. SettledInv'
  BY <1>0, <1>2, <1>3, <1>4, SettledKept DEF IndInv, SettledInv
<1> QED
  BY <1>3, <1>6, <1>7, <1>8, <1>9, <1>10 DEF IndInv, FileOK

\* With nothing to do the variables are the same to the end.
LEMMA CompareSettled ==
    ASSUME IndInv, settled, build.step = "compare", build.line - 1 <= Count
    PROVE  db.state = "read_eof" \/ NextIs(value)
<1>0. ~build.update
  BY DEF IndInv, SettledInv
<1>1. /\ Shapes /\ FileOK /\ rule = "in" /\ Reading /\ build.line \in Nat /\ build.line - 1 \in Nat /\ build.line >= 3
      /\ Encodes(Written, build.line - 1, LineAt) /\ LineAt[build.line] = value /\ db.state # "closed"
  BY <1>0, CompareFacts
<1>2. Count \in Nat /\ Count >= 2
  BY <1>1, LinesFacts
<1>3. PICK n \in Nat : n = build.line - 1 /\ build.line = n + 1
  BY <1>1
<1>4. CASE n < Count
  <2>1. NextIs(Lines[n + 1])
    BY <1>1, <1>3, <1>4, SettledNext
  <2>2. Lines[n + 1] = LineAt[n + 1]
    BY <1>1, <1>2, <1>4, LinesFacts
  <2> QED
    BY <1>1, <1>3, <2>1, <2>2
<1>5. CASE n = Count
  <2>1. Says(file, Lines) /\ Lines \in Seq(Plain) /\ Len(Lines) = Count
    BY <1>1, LinesFacts DEF IndInv, SettledInv
  <2>2. Complete(file) /\ Len(file) = 2 * Count + 1
    BY <1>1, <2>1, SaysComplete DEF FileOK, FileTypes
  <2>3. Encodes(Written, Count, LineAt) /\ Count > 0
    BY <1>1, <1>2, <1>3, <1>5
  <2> QED
    BY <1>1, <1>2, <2>2, <2>3, AllRead
<1> QED
  BY <1>2, <1>3, <1>4, <1>5

LEMMA CompareBadStep ==
    ASSUME IndInv, CompareBad
    PROVE  IndInv'
<1>0. build.step = "compare" /\ ~build.update /\ ~NextIs(value) /\ db.state = "read" /\ Change
  BY DEF CompareBad, At
<1>1. /\ Shapes /\ FileOK /\ rule = "in" /\ Reading /\ build.line \in Nat /\ build.line - 1 \in Nat /\ build.line >= 3
      /\ Encodes(Written, build.line - 1, LineAt) /\ LineAt[build.line] = value
      /\ file_mtime # 0 /\ file_mtime <= target.mtime /\ source.mtime <= target.mtime
      /\ db.pos = 2 * (build.line - 1) + 1 /\ db.state # "closed"
  BY <1>0, CompareFacts
<1>2. /\ UNCHANGED <<inputs, bounds, recorded, settled, target, pending>>
      /\ build' = [build EXCEPT !.step = "substitute", !.update = TRUE]
  BY DEF CompareBad, Other
<1>3. pending = <<>> /\ pending' = <<>> /\ pending' \in Seq(Plain)
  BY <1>0, <1>1, <1>2 DEF FileOK, FileInv, Writing
<1>4. FileOK' /\ Writing' /\ Written' = Written \o pending' /\ Newer
  BY <1>0, <1>1, <1>3, ChangeFile DEF Newer
<1>5. Written' = Written
  <2>1. Written \in Seq(Plain)
    BY <1>1, WrittenPlain
  <2> QED
    BY <1>3, <1>4, <2>1
<1>6. /\ build' \in BuildType /\ build'.step = "substitute" /\ build'.line = build.line
      /\ build'.touch = build.touch /\ build'.update
  BY <1>1, <1>2 DEF Shapes, BuildType, BuildSteps
<1>7. Count \in Nat /\ Count >= 2 /\ Len(file) <= 2 * Count + 1
  BY <1>1, LinesFacts DEF IndInv, Trusted
<1>8. db.pos <= Len(file)
  BY <1>1 DEF FileOK, FileInv
<1>9. build.line - 1 <= Count
  BY <1>1, <1>7, <1>8 DEF FileOK, FileTypes
<1>10. ~settled
  BY <1>0, <1>9, CompareSettled
<1>11. build.line <= Count + 1
  BY <1>1, <1>7, <1>9
<1> QED
  BY <1>0, <1>1, <1>2, <1>4, <1>5, <1>6, <1>10, <1>11, ToSubstitute

LEMMA CompareDoneStep ==
    ASSUME IndInv, CompareDone
    PROVE  IndInv'
<1>0. build.step = "compare" /\ ~build.update /\ db.state = "read_eof" /\ Close(FALSE)
  BY DEF CompareDone, At
<1>1. /\ Shapes /\ FileOK /\ rule = "in" /\ Reading /\ build.line \in Nat /\ build.line - 1 \in Nat /\ build.line >= 3
      /\ Encodes(Written, build.line - 1, LineAt)
      /\ file_mtime # 0 /\ file_mtime <= target.mtime /\ source.mtime <= target.mtime
      /\ db.pos = 2 * (build.line - 1) + 1 /\ db.state # "closed"
  BY <1>0, CompareFacts
<1>2. FileOK' /\ db' = Closed /\ Same
  BY <1>0, <1>1, CloseFile
<1>3. build' = Idle /\ settled' = TRUE /\ UNCHANGED <<inputs, bounds, target, Lines>>
  BY LinesKept DEF CompareDone, Finished
<1>4. Complete(file) /\ db.pos = Len(file) /\ Count \in Nat
  BY <1>0, <1>1, LinesFacts DEF FileOK, FileInv
<1>5. Len(file) = 2 * Count + 1
  BY <1>1, <1>4 DEF IndInv, Trusted
<1>6. build.line - 1 = Count
  BY <1>1, <1>4, <1>5
<1>7. Says(file, Lines) /\ target.content = Lines
  BY <1>0, <1>1, <1>4, <1>5, <1>6, NoUpdate
<1>8. Shapes'
  <2>1. settled' \in BOOLEAN /\ builds' \in 0 .. MaxBuilds /\ UNCHANGED edits
    BY <1>1, <1>3 DEF Shapes, TypeOK, bounds
  <2> QED
    BY <1>1, <1>2, <1>3, <2>1, IdleFacts, ShapesKept DEF FileOK, ClosedSteps
<1>9. Trusted'
  BY <1>1, <1>2, <1>3, TrustedKept DEF IndInv
<1>10. SettledInv'
  BY <1>1, <1>2, <1>3, <1>7, IdleFacts DEF SettledInv, Same, inputs, Says, Begins
<1> QED
  BY <1>2, <1>3, <1>8, <1>9, <1>10, IdleFacts, IdleStep

LEMMA SubstituteStep ==
    ASSUME IndInv, Substitute
    PROVE  IndInv'
<1>0. /\ Shapes /\ FileOK /\ build.step = "substitute" /\ rule = "in" /\ Writing /\ db.state # "closed" /\ ~settled
      /\ build.line \in 3 .. Count + 1 /\ Count \in Nat /\ Encodes(Written, build.line - 1, LineAt)
  <2>1. Shapes /\ build.step = "substitute" /\ db.state # "closed"
    BY DEF IndInv, Substitute, At, Shapes
  <2>2. Seen = build.line - 1
    BY <2>1 DEF Seen
  <2> QED
    BY <2>1, <2>2, InvFile, LinesFacts DEF IndInv, Progress, At, SettledInv
<1>1. PICK n \in Nat : n = build.line - 1 /\ build.line = n + 1 /\ n <= Count
  BY <1>0
<1>2. /\ Lines \in Seq(Plain) /\ Len(Lines) = Count /\ \A i \in 1 .. Len(Lines) : LineAt[i] = Lines[i]
  BY <1>0, LinesFacts
<1>3. PICK rest : rest = [i \in 1 .. 2 * (Len(Lines) + 1 - (n + 1)) |->
                             IF i % 2 = 1 THEN Lines[(n + 1) + i \div 2] ELSE "nl"]
  OBVIOUS
<1>4. pending' = pending \o rest
  BY <1>1, <1>3 DEF Substitute
<1>5. Written \in Seq(Plain) /\ "nl" \in Plain /\ Encodes(Written, n, LineAt)
  BY <1>0, <1>1, WrittenPlain, SymbolFacts
<1>6. rest \in Seq(Plain) /\ Encodes(Written \o rest, Count, LineAt)
  <2>1. n <= Len(Lines)
    BY <1>1, <1>2
  <2>2. LET r == [i \in 1 .. 2 * (Len(Lines) + 1 - (n + 1)) |->
                    IF i % 2 = 1 THEN Lines[(n + 1) + i \div 2] ELSE "nl"]
        IN  r \in Seq(Plain) /\ Encodes(Written \o r, Len(Lines), LineAt)
    BY <1>2, <1>5, <2>1, EncodesRest
  <2> QED
    BY <1>2, <1>3, <2>2, Zenon
<1>7. /\ UNCHANGED <<inputs, bounds, recorded, settled, file, file_mtime, db>>
      /\ target' = [content |-> <<"partial">>, mtime |-> clock + 1] /\ clock' = clock + 1
      /\ build' = [build EXCEPT !.step = "close"]
  BY DEF Substitute, Other, Now, GoTo, OutputOrder
<1>8. pending \in Seq(Plain) /\ file \in Seq(Symbols) /\ pending' \in Seq(Plain) /\ clock \in Nat /\ file_mtime \in Nat
  BY <1>0, <1>4, <1>6 DEF FileOK, FileTypes
<1>9. Writing' /\ Written' = Written \o rest
  <2>1. Writing'
    BY <1>0, <1>7 DEF Writing
  <2>2. Written = file \o pending /\ Written' = file \o (pending \o rest)
    BY <1>0, <1>4, <1>7, <2>1 DEF Written
  <2>3. pending \in Seq(Symbols) /\ rest \in Seq(Symbols)
    BY <1>6, <1>8, SymbolFacts
  <2>4. file \o (pending \o rest) = (file \o pending) \o rest
    BY <1>8, <2>3, CatAssociative
  <2> QED
    BY <2>1, <2>2, <2>4
<1>10. FileOK'
  BY <1>0, <1>7, <1>8, <1>9 DEF FileOK, FileTypes, FileInv, DatabaseHonest, Reading, Writing, Complete
<1>11. build' \in BuildType /\ build'.step = "close" /\ build'.touch = build.touch /\ build'.update = build.update
  BY <1>0, <1>7 DEF Shapes, BuildType, BuildSteps
<1>12. target' \in TargetType /\ target'.mtime = clock + 1
  BY <1>7, <1>8 DEF TargetType
<1>13. Shapes'
  <2>1. TypeOK'
    BY <1>0, <1>7, <1>8, <1>12 DEF Shapes, TypeOK, inputs, bounds
  <2>2. file_mtime' <= clock' /\ target'.mtime <= clock' /\ source'.mtime <= clock'
    <3>1. file_mtime <= clock /\ source.mtime <= clock /\ source.mtime \in Nat /\ source' = source
      BY <1>0, <1>7 DEF Shapes, TypeOK, inputs
    <3> QED
      BY <1>7, <1>8, <1>12, <3>1
  <2> QED
    BY <1>0, <1>7, <1>8, <1>11, <1>12, <2>1, <2>2 DEF Shapes
<1>14. UNCHANGED <<Count, LineAt>> /\ rule' = "in"
  BY <1>0, <1>7, LinesKept DEF inputs
<1>15. Progress'
  <2>1. Seen' = Count
    BY <1>11, <1>14 DEF Seen
  <2> QED
    BY <1>6, <1>9, <1>11, <1>14, <2>1 DEF Progress, At
<1>16. Trusted'
  <2>1. ~Complete(file) /\ ~Complete(file)'
    BY <1>0, <1>7 DEF FileOK, FileInv, Complete
  <2>2. Len(file) <= 2 * Count + 1
    <3>1. Len(file \o pending) = 2 * n
      BY <1>0, <1>5 DEF Written, Encodes
    <3>2. pending \in Seq(Symbols)
      BY <1>8, SymbolFacts
    <3>3. Len(file \o pending) = Len(file) + Len(pending) /\ Len(file) \in Nat /\ Len(pending) \in Nat
      BY <1>8, <3>2, CatLen
    <3> QED
      BY <1>0, <1>1, <3>1, <3>3
  <2> QED
    BY <1>7, <1>14, <2>1, <2>2 DEF Trusted
<1>17. Decisions'
  <2>1. build.update
    BY <1>0 DEF IndInv, Progress, At
  <2> QED
    BY <1>0, <1>11, <2>1 DEF Decisions, At, IndInv
<1>18. SettledInv'
  BY <1>0, <1>7 DEF SettledInv
<1> QED
  BY <1>10, <1>13, <1>15, <1>16, <1>17, <1>18 DEF IndInv, FileOK

LEMMA CloseInStep ==
    ASSUME IndInv, CloseIn
    PROVE  IndInv'
<1>0. Shapes /\ FileOK /\ build.step = "close" /\ rule = "in" /\ db.state # "closed" /\ Writing /\ ~settled
  BY InvFile DEF IndInv, CloseIn, At, Shapes, Progress, SettledInv, Reading, Writing
<1>1. Encodes(Written, Count, LineAt)
  BY <1>0 DEF IndInv, Progress, Seen
<1>2. FileOK' /\ file' = Written \o <<"end">> /\ db' = Closed /\ (Same \/ Newer)
  BY <1>0, CloseFile DEF CloseIn
<1>3. Says(file', Lines) /\ UNCHANGED <<inputs, bounds, target, Lines>>
  BY <1>0, <1>1, <1>2, ClosedSays, LinesKept DEF CloseIn
<1>4. build' = [build EXCEPT !.step = "output"] /\ UNCHANGED settled
  BY DEF CloseIn, AfterOutput, OutputOrder, GoTo
<1>5. build' \in BuildType /\ build'.step = "output" /\ build'.touch = build.touch
  BY <1>0, <1>4 DEF Shapes, BuildType, BuildSteps
<1>6. Shapes'
  BY <1>0, <1>2, <1>3, <1>4, <1>5, IdleFacts, ShapesKept DEF FileOK, ClosedSteps, Shapes, TypeOK, bounds
<1>7. Trusted'
  BY <1>0, <1>2, <1>3, TrustedKept DEF IndInv
<1>8. Progress'
  BY <1>0, <1>2, <1>3, <1>5, IdleFacts DEF Progress, At, inputs
<1>9. Decisions'
  BY <1>0, <1>5 DEF Decisions, At, IndInv
<1>10. SettledInv'
  BY <1>0, <1>4 DEF SettledInv
<1> QED
  BY <1>2, <1>6, <1>7, <1>8, <1>9, <1>10 DEF IndInv, FileOK

\* The compile rule without a reason to update: the headers and the checksum
\* are there, and are those of the source although nobody has looked.
LEMMA CompileNext ==
    ASSUME IndInv, rule = "compile", build.step \in {"headers", "checksum"}, ~build.update,
           NEW n \in {2, 3}, Encodes(Written, n, LineAt)
    PROVE  HasLine /\ Reading /\ file[db.pos] = Lines[n + 1]
<1>1. Shapes /\ FileOK /\ db.state # "closed" /\ ~build.touch
  BY InvFile DEF IndInv, Shapes, Decisions
<1>2. Reading /\ file_mtime <= target.mtime /\ source.mtime <= target.mtime
  BY <1>1 DEF IndInv, Decisions
<1>3. file_mtime # 0 /\ Count = 4
  BY <1>1, <1>2 DEF FileOK, FileInv, Count
<1>4. /\ Complete(file) /\ Says(file, target.content) /\ Len(file) = 9
      /\ file[5] = source.content /\ file[7] = source.content
  BY <1>2, <1>3 DEF IndInv, Trusted
<1>5. target.content \in Seq(Symbols \cup {"partial"})
  BY <1>1 DEF Shapes, TargetType
<1>6. Len(target.content) = 4
  <2>1. PICK k \in Nat : k = Len(target.content) /\ Len(file) = 2 * k + 1
    BY <1>4, <1>5 DEF Says
  <2>2. 2 * k + 1 = 9
    BY <1>4, <2>1
  <2>3. k = 4
    BY <2>2
  <2> QED
    BY <2>1, <2>3
<1>7. HasLine /\ db.pos = 2 * n + 1
  <2>1. n \in Nat /\ n < Len(target.content)
    BY <1>6
  <2> QED
    BY <1>1, <1>2, <1>4, <1>5, <2>1, Matching
<1>8. LineAt[n + 1] = source.content /\ Lines[n + 1] = LineAt[n + 1]
  <2>1. LineAt[n + 1] = source.content
    BY DEF LineAt
  <2>2. n + 1 \in 1 .. Count
    BY <1>3
  <2> QED
    BY <1>1, <2>1, <2>2, LinesFacts
<1>9. file[db.pos] = source.content
  BY <1>4, <1>7
<1> QED
  BY <1>2, <1>7, <1>8, <1>9

\* A line of the compile rule, one way or another.
LEMMA CompileLine ==
    ASSUME IndInv, rule = "compile", build.step \in {"headers", "checksum"},
           NEW n \in {2, 3}, Seen = n, build'.step \in {"checksum", "close"},
           (build.step = "headers" /\ build'.step = "checksum" /\ n = 2) \/ (build'.step = "close" /\ n = 3),
           FileOK', db'.state # "closed", Written' = Written \o <<Lines[n + 1], "nl">>, Same \/ Newer,
           UNCHANGED <<inputs, bounds, recorded, settled, target>>, build' \in BuildType,
           Decisions', settled => Same /\ ~build'.update /\ ~build'.touch /\ Reading'
    PROVE  IndInv'
<1>0. Shapes /\ FileOK /\ db.state # "closed" /\ Count = 4
  BY InvFile DEF IndInv, Shapes, Count
<1>1. Encodes(Written, n, LineAt)
  BY <1>0 DEF IndInv, Progress
<1>2. n + 1 \in 1 .. Count
  BY <1>0
<1>3. Lines[n + 1] \in Plain /\ LineAt[n + 1] = Lines[n + 1]
  BY <1>0, <1>2, LinesFacts
<1>4. Shapes'
  BY <1>0, ShapesKept DEF FileOK, ClosedSteps, Shapes, TypeOK, bounds
<1>5. Trusted'
  BY <1>0, TrustedKept DEF IndInv
<1>6. Progress'
  <2>1. UNCHANGED <<LineAt, Count, rule>>
    BY LinesKept DEF inputs
  <2>2. Seen' = n + 1
    BY <1>0, <2>1 DEF Seen
  <2>3. Written \in Seq(Plain) /\ "nl" \in Plain /\ n \in Nat
    BY <1>0, WrittenPlain, SymbolFacts
  <2>4. Encodes(Written', n + 1, LineAt)
    BY <1>1, <1>3, <2>3, EncodesMore
  <2> QED
    BY <2>1, <2>2, <2>4 DEF Progress, At
<1>7. SettledInv'
  BY SettledKept DEF IndInv
<1> QED
  BY <1>4, <1>5, <1>6, <1>7 DEF IndInv, FileOK

LEMMA HeadersStep ==
    ASSUME IndInv, Headers
    PROVE  IndInv'
<1>0. Shapes /\ FileOK /\ build.step = "headers" /\ rule = "compile" /\ db.state # "closed" /\ ~build.touch
  BY InvFile DEF IndInv, Headers, At, Shapes, Progress, Decisions
<1>1. Seen = 2 /\ Encodes(Written, 2, LineAt) /\ Count = 4
  BY <1>0 DEF IndInv, Progress, Seen, Count
<1>2. /\ UNCHANGED <<inputs, bounds, recorded, settled, target>>
      /\ build' = [build EXCEPT !.step = "checksum"]
  BY DEF Headers, Other, GoTo
<1>3. /\ build' \in BuildType /\ build'.step = "checksum" /\ build'.mt = build.mt
      /\ build'.update = build.update /\ build'.touch = build.touch
  BY <1>0, <1>2 DEF Shapes, BuildType, BuildSteps
<1>4. Lines[3] \in Plain
  BY <1>0, <1>1, LinesFacts
<1>5. CASE ~build.update
  <2>1. HasLine /\ Reading /\ file[db.pos] = Lines[3]
    BY <1>0, <1>1, <1>5, CompileNext
  <2>2. FileOK' /\ Reading' /\ Same /\ Written' = Written \o <<Lines[3], "nl">>
    BY <1>0, <1>2, <1>5, <2>1, AcceptFile DEF Headers, Same
  <2>3. db'.state # "closed"
    BY <2>2 DEF Reading
  <2>4. Decisions'
    BY <1>0, <1>2, <1>3, <1>5, <2>2 DEF IndInv, Decisions, At, Same, inputs
  <2> QED
    BY <1>0, <1>1, <1>2, <1>3, <1>5, <2>2, <2>3, <2>4, CompileLine
<1>6. CASE build.update
  <2>1. Expect(Lines[3])
    BY <1>6 DEF Headers
  <2>2. /\ FileOK' /\ Written' = Written \o <<Lines[3], "nl">>
        /\ NextIs(Lines[3]) => Reading' /\ Same
        /\ ~NextIs(Lines[3]) => Writing'
        /\ Same \/ Newer
    BY <1>0, <1>2, <1>4, <2>1, ExpectFile
  <2>3. db'.state # "closed" /\ ~settled
    BY <1>6, <2>2 DEF Reading, Writing, IndInv, SettledInv
  <2>4. Reading' => Same /\ Reading
    BY <2>2 DEF Reading, Writing, NextIs, HasLine
  <2>5. Decisions'
    BY <1>0, <1>2, <1>3, <1>6, <2>4 DEF IndInv, Decisions, At, Same, inputs
  <2> QED
    BY <1>0, <1>1, <1>2, <1>3, <2>2, <2>3, <2>5, CompileLine
<1> QED
  BY <1>5, <1>6

LEMMA ChecksumStep ==
    ASSUME IndInv, Checksum
    PROVE  IndInv'
<1>0. Shapes /\ FileOK /\ build.step = "checksum" /\ rule = "compile" /\ db.state # "closed" /\ ~build.touch
  BY InvFile DEF IndInv, Checksum, At, Shapes, Progress, Decisions
<1>1. Seen = 3 /\ Encodes(Written, 3, LineAt) /\ Count = 4
  BY <1>0 DEF IndInv, Progress, Seen, Count
<1>2. UNCHANGED <<inputs, bounds, recorded, settled, target>>
  BY DEF Checksum, Other
<1>3. Lines[4] \in Plain
  BY <1>0, <1>1, LinesFacts
<1>4. CASE ~build.update /\ HasLine /\ Accept /\ GoTo("close")
  <2>1. HasLine /\ Reading /\ file[db.pos] = Lines[4]
    BY <1>0, <1>1, <1>4, CompileNext
  <2>2. FileOK' /\ Reading' /\ Same /\ Written' = Written \o <<Lines[4], "nl">>
    BY <1>0, <1>2, <1>4, <2>1, AcceptFile DEF Same
  <2>3. /\ build' \in BuildType /\ build'.step = "close" /\ build'.mt = build.mt
        /\ build'.update = build.update /\ build'.touch = build.touch
    BY <1>0, <1>4 DEF Shapes, BuildType, BuildSteps, GoTo
  <2>4. db'.state # "closed"
    BY <2>2 DEF Reading
  <2>5. Decisions'
    BY <1>0, <1>2, <1>4, <2>2, <2>3 DEF IndInv, Decisions, At, Same, inputs
  <2> QED
    BY <1>0, <1>1, <1>2, <1>4, <2>2, <2>3, <2>4, <2>5, CompileLine
<1>5. CASE /\ build.update /\ NextIs(Lines[4]) /\ Accept
           /\ build' = [build EXCEPT !.step = "close", !.update = ~MayIgnore, !.touch = MayIgnore]
  <2>1. HasLine /\ Reading /\ file[db.pos] = Lines[4] /\ ~settled
    BY <1>5 DEF NextIs, HasLine, Reading, IndInv, SettledInv
  <2>2. FileOK' /\ Reading' /\ Same /\ Written' = Written \o <<Lines[4], "nl">>
    BY <1>0, <1>2, <1>5, <2>1, AcceptFile DEF Same
  <2>3. PICK m \in BOOLEAN : m <=> build.mt # 0
    OBVIOUS
  <2>4. /\ build' \in BuildType /\ build'.step = "close" /\ build'.mt = build.mt
        /\ build'.update = ~m /\ build'.touch = m
    BY <1>0, <1>5, <2>3 DEF Shapes, BuildType, BuildSteps, MayIgnore
  <2>5. db'.state # "closed"
    BY <2>2 DEF Reading
  <2>6. m => file_mtime <= target.mtime /\ build.mt = target.mtime
    BY <1>0, <1>5, <2>1, <2>3 DEF IndInv, Decisions
  <2>7. Decisions'
    BY <1>0, <1>2, <2>2, <2>4, <2>6 DEF Decisions, At, Same, inputs
  <2> QED
    BY <1>0, <1>1, <1>2, <2>1, <2>2, <2>4, <2>5, <2>7, CompileLine
<1>6. CASE /\ (build.update \/ ~HasLine) /\ ~NextIs(Lines[4]) /\ Expect(Lines[4])
           /\ build' = [build EXCEPT !.step = "close", !.update = TRUE]
  <2>1. build.update
    <3>1. ~build.update => HasLine
      BY <1>0, <1>1, CompileNext
    <3> QED
      BY <1>6, <3>1
  <2>2. FileOK' /\ Written' = Written \o <<Lines[4], "nl">> /\ Writing' /\ (Same \/ Newer)
    BY <1>0, <1>2, <1>3, <1>6, ExpectFile
  <2>3. build' \in BuildType /\ build'.step = "close" /\ build'.update /\ build'.touch = build.touch
    BY <1>0, <1>6 DEF Shapes, BuildType, BuildSteps
  <2>4. db'.state # "closed" /\ ~settled
    BY <2>1, <2>2 DEF Writing, IndInv, SettledInv
  <2>5. Decisions'
    BY <1>0, <2>3 DEF Decisions, At
  <2> QED
    BY <1>0, <1>1, <1>2, <2>2, <2>3, <2>4, <2>5, CompileLine
<1> QED
  BY <1>4, <1>5, <1>6 DEF Checksum

LEMMA CloseCompileStep ==
    ASSUME IndInv, CloseCompile
    PROVE  IndInv'
<1>0. Shapes /\ FileOK /\ build.step = "close" /\ rule = "compile" /\ db.state # "closed"
  BY InvFile DEF IndInv, CloseCompile, At, Shapes
<1>1. Encodes(Written, Count, LineAt) /\ Count = 4
  BY <1>0 DEF IndInv, Progress, Seen, Count
<1>2. PICK touch \in BOOLEAN : touch <=> (build.update /\ Reading /\ ~build.dry_run)
  OBVIOUS
<1>3. Close(touch)
  <2>1. touch = (build.update /\ Reading /\ ~build.dry_run)
    BY <1>0, <1>2 DEF Shapes, BuildType, Reading
  <2> QED
    BY <2>1 DEF CloseCompile
<1>4. /\ FileOK' /\ file' = Written \o <<"end">> /\ db' = Closed
      /\ Same \/ Newer
      /\ db.state = "read_eof" /\ ~touch => Same
  BY <1>0, <1>3, CloseFile
<1>5. Says(file', Lines) /\ UNCHANGED <<inputs, bounds, target, settled, Lines>>
  BY <1>0, <1>1, <1>4, ClosedSays, LinesKept DEF CloseCompile
<1>6. /\ build' \in BuildType /\ build'.step = "perform" /\ build'.mt = build.mt
      /\ build'.update = build.update /\ build'.touch = build.touch
  BY <1>0 DEF CloseCompile, GoTo, Shapes, BuildType, BuildSteps
<1>7. ASSUME ~build.update
      PROVE  Same /\ target.content = Lines
  <2>1. Reading /\ file_mtime <= target.mtime
    BY <1>0, <1>7 DEF IndInv, Decisions
  <2>2. file_mtime # 0
    BY <1>0, <2>1 DEF FileOK, FileInv
  <2>3. Complete(file) /\ Len(file) = 2 * Count + 1
    BY <1>0, <2>1, <2>2 DEF IndInv, Trusted
  <2>4. db.state = "read_eof" /\ target.content = Lines
    BY <1>0, <1>1, <1>7, <2>1, <2>3, NoUpdate
  <2> QED
    BY <1>2, <1>4, <1>7, <2>4
<1>8. Shapes'
  BY <1>0, <1>4, <1>5, <1>6, IdleFacts, ShapesKept DEF FileOK, ClosedSteps, Shapes, TypeOK, bounds
<1>9. Trusted'
  BY <1>0, <1>4, <1>5, TrustedKept DEF IndInv
<1>10. Progress'
  BY <1>0, <1>4, <1>5, <1>6, IdleFacts DEF Progress, At, inputs
<1>11. Decisions'
  BY <1>0, <1>4, <1>5, <1>6, <1>7, IdleFacts DEF IndInv, Decisions, At, Same, inputs
<1>12. SettledInv'
  BY <1>4, <1>5, <1>6, <1>7, IdleFacts, SettledKept DEF IndInv, SettledInv
<1> QED
  BY <1>4, <1>8, <1>9, <1>10, <1>11, <1>12 DEF IndInv, FileOK

LEMMA PerformNothingStep ==
    ASSUME IndInv, PerformNothing
    PROVE  IndInv'
<1>0. /\ Shapes /\ FileOK /\ build.step = "perform" /\ rule = "compile" /\ db.state = "closed"
      /\ Says(file, Lines) /\ (~build.update \/ build.dry_run)
  BY InvFile DEF IndInv, PerformNothing, At, Shapes, Progress
<1>1. /\ build' = Idle /\ settled' = (settled \/ ~build.dry_run)
      /\ UNCHANGED <<inputs, bounds, file, file_mtime, db, pending, recorded>>
  BY DEF PerformNothing, Finished
<1>2. settled' \in BOOLEAN /\ build.touch \in BOOLEAN
  BY <1>0, <1>1 DEF Shapes, TypeOK, BuildType
<1>3. CASE build.touch /\ ~build.dry_run
  <2>1. target' = [target EXCEPT !.mtime = Now] /\ clock' = Now
    BY <1>3 DEF PerformNothing
  <2>2. target.content = Lines
    BY <1>0, <1>3 DEF IndInv, Decisions, At
  <2>3. target' = [content |-> Lines, mtime |-> Now]
    BY <1>0, <2>1, <2>2 DEF Shapes, TargetType
  <2> QED
    BY <1>0, <1>1, <1>2, <2>1, <2>3, MadeStep
<1>4. CASE ~(build.touch /\ ~build.dry_run)
  <2>1. UNCHANGED <<target, clock>> /\ Same
    BY <1>1, <1>4 DEF PerformNothing, Same
  <2>2. FileOK'
    BY <1>0, <1>1, <2>1 DEF FileOK, FileTypes, FileInv, DatabaseHonest, Reading, Writing, Complete
  <2>3. Shapes'
    BY <1>0, <1>1, <1>2, <2>1, <2>2, IdleFacts, ShapesKept DEF FileOK, ClosedSteps, Shapes, TypeOK, bounds
  <2>4. Trusted'
    BY <1>0, <1>1, <2>1, TrustedKept DEF IndInv
  <2>5. SettledInv'
    <3> SUFFICES ASSUME settled' PROVE SettledInv'
      BY DEF SettledInv
    <3>1. target.content = Lines /\ file_mtime <= target.mtime /\ source.mtime <= target.mtime
      <4>1. CASE settled
        BY <4>1 DEF IndInv, SettledInv
      <4>2. CASE ~build.dry_run
        <5>1. ~build.update /\ ~build.touch
          BY <1>0, <1>4, <4>2
        <5> QED
          BY <1>0, <5>1 DEF IndInv, Decisions, At
      <4> QED
        BY <1>1, <4>1, <4>2
    <3>2. UNCHANGED <<Lines, source>>
      BY <1>1, LinesKept DEF inputs
    <3>3. Says(file', Lines')
      BY <1>0, <1>1, <3>2 DEF Says, Begins
    <3> QED
      BY <1>0, <1>1, <2>1, <3>1, <3>2, <3>3, IdleFacts DEF SettledInv
  <2> QED
    BY <1>0, <1>1, <2>2, <2>3, <2>4, <2>5, IdleStep
<1> QED
  BY <1>3, <1>4

LEMMA PerformStep ==
    ASSUME IndInv, Perform
    PROVE  IndInv'
<1>0. /\ Shapes /\ FileOK /\ build.step = "perform" /\ rule = "compile" /\ db.state = "closed"
      /\ Says(file, Lines) /\ ~settled
  BY InvFile DEF IndInv, Perform, At, Shapes, Progress, SettledInv
<1>1. /\ Newer /\ build' = [build EXCEPT !.step = "run"]
      /\ UNCHANGED <<inputs, bounds, recorded, settled, file, target, db, pending>>
  BY DEF Perform, Newer, Now, GoTo, Other
<1>2. build' \in BuildType /\ build'.step = "run" /\ ~build'.touch
  BY <1>0, <1>1 DEF Shapes, BuildType, BuildSteps, IndInv, Decisions, Perform
<1>3. FileOK'
  BY <1>0, <1>1 DEF FileOK, FileTypes, FileInv, DatabaseHonest, Reading, Writing, Complete, Newer
<1>4. Shapes'
  BY <1>0, <1>1, <1>2, <1>3, ShapesKept DEF FileOK, ClosedSteps, Shapes, TypeOK, bounds
<1>5. Trusted'
  BY <1>0, <1>1, TrustedKept DEF IndInv
<1>6. Progress'
  <2>1. UNCHANGED Lines
    BY <1>1, LinesKept
  <2>2. Says(file', Lines')
    BY <1>0, <1>1, <2>1 DEF Says, Begins
  <2> QED
    BY <1>0, <1>1, <1>2, <2>2 DEF Progress, At
<1>7. Decisions'
  BY <1>2 DEF Decisions, At
<1>8. SettledInv'
  BY <1>0, <1>1 DEF SettledInv
<1> QED
  BY <1>3, <1>4, <1>5, <1>6, <1>7, <1>8 DEF IndInv, FileOK

-----------------------------------------------------------------------------
(***************************************************************************)
(* Interruptions and what happens between the builds.                      *)
(***************************************************************************)
LEMMA InterruptStep ==
    ASSUME IndInv, Interrupt
    PROVE  IndInv'
<1>0. Shapes /\ FileOK
  BY InvFile DEF IndInv
<1>1. /\ db' = Closed /\ pending' = <<>> /\ build' = Idle /\ settled' = FALSE
      /\ UNCHANGED <<inputs, bounds, recorded>> /\ db'.state = "closed" /\ ~Reading' /\ ~Writing'
  BY IdleFacts DEF Interrupt, Reading, Writing
<1>2. target' = target \/ target' = [content |-> <<>>, mtime |-> 0]
  BY DEF Interrupt
<1>3. PICK n \in 0 .. Len(pending) :
         IF n = 0 THEN UNCHANGED <<file, file_mtime, clock>>
         ELSE /\ file' = Put(db.pos, SubSeq(pending, 1, n))
              /\ file_mtime' = Now /\ clock' = Now
  BY DEF Interrupt
<1>4. /\ file' \in Seq(Symbols) /\ (Same \/ Newer)
      /\ \A i \in 1 .. Len(file') : file'[i] = "end" => i = Len(file')
      /\ file' # file => ~Complete(file)'
  <2>1. CASE n = 0
    BY <1>0, <1>3, <2>1 DEF FileOK, FileTypes, FileInv, Same
  <2>2. CASE n > 0
    <3>1. pending \in Seq(Plain) /\ Len(pending) \in Nat /\ pending # <<>>
      BY <1>0, <1>3, <2>2 DEF FileOK, FileTypes
    <3>2. Writing
      BY <1>0, <3>1 DEF FileOK, FileInv
    <3>3. db.pos = Len(file) + 1 /\ ~Complete(file) /\ file \in Seq(Symbols)
      BY <1>0, <3>2 DEF FileOK, FileInv, FileTypes
    <3>4. file \in Seq(Plain)
      <4>1. ASSUME NEW i \in 1 .. Len(file) PROVE file[i] \in Plain
        BY <1>0, <3>3, <4>1 DEF FileOK, FileInv, Complete, Plain
      <4> QED
        BY <3>3, <4>1
    <3>5. SubSeq(pending, 1, n) \in Seq(Plain)
      BY <1>3, <3>1, Beginning
    <3>6. file' = file \o SubSeq(pending, 1, n) /\ Newer
      <4>1. SubSeq(pending, 1, n) \in Seq(Symbols)
        BY <3>5, SymbolFacts
      <4>2. Put(Len(file) + 1, SubSeq(pending, 1, n)) = file \o SubSeq(pending, 1, n)
        BY <3>3, <4>1, PutAtEnd
      <4> QED
        BY <1>3, <2>2, <3>3, <4>2 DEF Newer, Now
    <3>7. file' \in Seq(Plain)
      BY <3>4, <3>5, <3>6
    <3>8. \A i \in 1 .. Len(file') : file'[i] # "end"
      BY <3>7, SymbolFacts
    <3>9. ~Complete(file)'
      BY <3>7, <3>8 DEF Complete
    <3> QED
      BY <3>6, <3>7, <3>8, <3>9, SymbolFacts
  <2> QED
    BY <1>3, <2>1, <2>2
<1>5. FileTypes'
  BY <1>0, <1>1, <1>4 DEF FileOK, FileTypes, Closed, Same, Newer
<1>6. FileOK'
  <2>1. file_mtime' = 0 => file' = <<>>
    BY <1>0, <1>4 DEF FileOK, FileTypes, FileInv, Same, Newer
  <2>2. FileInv'
    BY <1>1, <1>4, <2>1 DEF FileInv
  <2>3. DatabaseHonest'
    BY <1>0, <1>1, <1>4 DEF FileOK, DatabaseHonest, Complete
  <2> QED
    BY <1>5, <2>2, <2>3 DEF FileOK
<1>7. CASE target' = target
  <2>1. Shapes'
    BY <1>0, <1>1, <1>4, <1>5, <1>7, IdleFacts, ShapesKept DEF ClosedSteps, Shapes, TypeOK, bounds
  <2>2. Trusted'
    BY <1>0, <1>1, <1>4, <1>7, TrustedKept DEF IndInv
  <2> QED
    BY <1>1, <1>6, <2>1, <2>2, IdleStep DEF SettledInv
<1>8. CASE target' = [content |-> <<>>, mtime |-> 0]
  <2>1. target' \in TargetType /\ target'.mtime = 0
    BY <1>8 DEF TargetType
  <2>2. /\ clock \in Nat /\ clock' \in Nat /\ file_mtime' \in Nat
        /\ file_mtime' <= clock' /\ source'.mtime <= clock' /\ target'.mtime <= clock'
    BY <1>0, <1>1, <1>4, <2>1 DEF Shapes, TypeOK, Same, Newer, inputs
  <2>3. TypeOK'
    <3>0. settled' \in BOOLEAN
      BY <1>1
    <3>1. UNCHANGED <<rule, option, value, source, builds, edits>> /\ target'.mtime \in Nat
      BY <1>1, <2>1 DEF inputs, bounds
    <3>2. TypeOK /\ file' \in Seq({Version} \cup Texts \cup Sources \cup Control)
      BY <1>0, <1>5 DEF Shapes, FileTypes, Symbols
    <3> QED
      BY <1>5, <2>2, <3>0, <3>1, <3>2 DEF TypeOK, FileTypes
  <2>4. Shapes'
    BY <1>1, <1>5, <2>1, <2>2, <2>3, IdleFacts DEF Shapes, FileTypes
  <2>5. Trusted'
    BY <2>1, <2>2 DEF Trusted
  <2> QED
    BY <1>1, <1>6, <2>4, <2>5, IdleStep DEF SettledInv
<1> QED
  BY <1>2, <1>7, <1>8

\* Between the builds.
LEMMA EditStep ==
    ASSUME IndInv, ChangeOption \/ ChangeValue \/ EditSource \/ RemoveTarget \/ RemoveDatabase
    PROVE  IndInv'
<1>0. /\ Shapes /\ FileOK /\ build.step = "idle" /\ db.state = "closed"
      /\ clock \in Nat /\ source.mtime \in Nat /\ file_mtime \in Nat /\ target.mtime \in Nat
  BY InvFile DEF IndInv, Edit, ChangeOption, ChangeValue, EditSource, RemoveTarget, RemoveDatabase, At, Shapes, TypeOK
<1>1. /\ settled' = FALSE /\ edits' = edits + 1 /\ edits < MaxEdits
      /\ UNCHANGED <<rule, builds, db, pending, build, recorded>>
  BY DEF Edit, ChangeOption, ChangeValue, EditSource, RemoveTarget, RemoveDatabase
<1>2. edits' \in 0 .. MaxEdits
  BY <1>0, <1>1, DepdbAssumption DEF Shapes, TypeOK
<1>3. CASE ChangeOption \/ ChangeValue
  <2>1. UNCHANGED <<clock, file, file_mtime, target, source>> /\ option' \in Texts /\ value' \in Texts
    BY <1>0, <1>3 DEF ChangeOption, ChangeValue, Untouched, Shapes, TypeOK
  <2>2. FileOK'
    BY <1>0, <1>1, <2>1 DEF FileOK, FileTypes, FileInv, DatabaseHonest, Reading, Writing, Complete
  <2>3. Shapes'
    BY <1>0, <1>1, <1>2, <2>1 DEF Shapes, TypeOK
  <2>4. Trusted'
    BY <1>1, <2>1 DEF IndInv, Trusted, Count, Complete, Says, Begins
  <2>5. Progress' /\ Decisions' /\ SettledInv'
    BY <1>0, <1>1, <2>1 DEF IndInv, Progress, Decisions, SettledInv, At
  <2> QED
    BY <2>2, <2>3, <2>4, <2>5 DEF IndInv, FileOK
<1>4. CASE EditSource
  <2>1. /\ UNCHANGED <<option, value, file, file_mtime, target>> /\ clock' = clock + 1
        /\ source' \in [content : Sources, mtime : Nat] /\ source'.mtime = clock + 1
    BY <1>0, <1>4 DEF EditSource, Now
  <2>2. FileOK'
    BY <1>0, <1>1, <2>1 DEF FileOK, FileTypes, FileInv, DatabaseHonest, Reading, Writing, Complete
  <2>3. TypeOK'
    BY <1>0, <1>1, <1>2, <2>1 DEF Shapes, TypeOK
  <2>4. file_mtime' <= clock' /\ target'.mtime <= clock' /\ source'.mtime <= clock' /\ ~(source'.mtime <= target'.mtime)
    BY <1>0, <2>1 DEF Shapes
  <2>5. Shapes'
    BY <1>0, <1>1, <2>1, <2>3, <2>4 DEF Shapes
  <2>6. rule # "in" => Count' = Count
    BY <1>1 DEF Count
  <2>7. Trusted'
    BY <1>1, <2>1, <2>4, <2>6 DEF IndInv, Trusted, Complete, Says, Begins
  <2>8. Progress' /\ Decisions' /\ SettledInv'
    BY <1>0, <1>1, <2>1 DEF IndInv, Progress, Decisions, SettledInv, At
  <2> QED
    BY <2>2, <2>5, <2>7, <2>8 DEF IndInv, FileOK
<1>5. CASE RemoveTarget
  <2>1. /\ UNCHANGED <<option, value, source, clock, file, file_mtime>>
        /\ target' = [content |-> <<>>, mtime |-> 0] /\ target' \in TargetType /\ target'.mtime = 0
    BY <1>5 DEF RemoveTarget, TargetType
  <2>2. FileOK'
    BY <1>0, <1>1, <2>1 DEF FileOK, FileTypes, FileInv, DatabaseHonest, Reading, Writing, Complete
  <2>3. Shapes'
    <3>1. TypeOK'
      <4>1. target'.mtime \in Nat /\ settled' \in BOOLEAN
        BY <1>1, <2>1
      <4> QED
        BY <1>0, <1>1, <1>2, <2>1, <4>1 DEF Shapes, TypeOK
    <3>2. target'.mtime <= clock'
      BY <1>0, <2>1
    <3> QED
      BY <1>0, <1>1, <2>1, <3>1, <3>2 DEF Shapes
  <2>4. Trusted'
    BY <1>0, <2>1 DEF Trusted
  <2>5. Progress' /\ Decisions' /\ SettledInv'
    BY <1>0, <1>1, <2>1 DEF IndInv, Progress, Decisions, SettledInv, At
  <2> QED
    BY <2>2, <2>3, <2>4, <2>5 DEF IndInv, FileOK
<1>6. CASE RemoveDatabase
  <2>1. UNCHANGED <<option, value, source, clock, target>> /\ file' = <<>> /\ file_mtime' = 0
    BY <1>6 DEF RemoveDatabase
  <2>2. FileOK'
    BY <1>0, <1>1, <2>1 DEF FileOK, FileTypes, FileInv, DatabaseHonest, Reading, Writing
  <2>3. Shapes'
    <3>1. TypeOK'
      <4>1. settled' \in BOOLEAN
        BY <1>1
      <4>2. file' \in Seq({Version} \cup Texts \cup Sources \cup Control) /\ file_mtime' \in Nat
        BY <2>1
      <4> QED
        BY <1>0, <1>1, <1>2, <2>1, <4>1, <4>2 DEF Shapes, TypeOK
    <3>2. file_mtime' <= clock'
      BY <1>0, <2>1
    <3> QED
      BY <1>0, <1>1, <2>1, <3>1, <3>2 DEF Shapes
  <2>4. Trusted'
    BY <2>1 DEF Trusted
  <2>5. Progress' /\ Decisions' /\ SettledInv'
    BY <1>0, <1>1, <2>1 DEF IndInv, Progress, Decisions, SettledInv, At
  <2> QED
    BY <2>2, <2>3, <2>4, <2>5 DEF IndInv, FileOK
<1> QED
  BY <1>3, <1>4, <1>5, <1>6

-----------------------------------------------------------------------------
(***************************************************************************)
(* The results.                                                            *)
(***************************************************************************)
LEMMA InitInv == ASSUME Init PROVE IndInv
<1>1. Shapes
  <2>1. /\ pending \in Seq(Plain) /\ file \in Seq({Version} \cup Texts \cup Sources \cup Control)
        /\ target \in TargetType /\ target.mtime = 0
    BY DEF Init, TargetType
  <2>2. /\ db \in [state : {"closed", "read", "read_eof", "write"}, pos : Nat, mtime : Nat]
        /\ db.state = "closed" /\ build \in BuildType /\ build.step = "idle"
    BY IdleFacts DEF Init, Closed
  <2>3. source \in [content : Sources, mtime : Nat] /\ source.mtime = 1
    BY DEF Init
  <2>4. settled \in BOOLEAN
    BY DEF Init
  <2>5. TypeOK
    BY <2>1, <2>2, <2>3, <2>4, DepdbAssumption DEF Init, TypeOK
  <2> QED
    BY <2>1, <2>2, <2>3, <2>5 DEF Init, Shapes
<1>2. FileInv /\ DatabaseHonest
  BY DEF Init, FileInv, DatabaseHonest, Closed, Reading, Writing
<1>3. Progress /\ Decisions
  BY IdleFacts DEF Init, Progress, Decisions, At
<1>4. Trusted /\ SettledInv
  BY DEF Init, Trusted, SettledInv
<1> QED
  BY <1>1, <1>2, <1>3, <1>4 DEF IndInv

LEMMA StutterInv == ASSUME IndInv, UNCHANGED vars PROVE IndInv'
<1>1. UNCHANGED <<rule, option, value, source, clock, file, file_mtime, target, db, pending, build, builds, edits,
                  recorded, settled>>
  BY DEF vars, inputs, bounds
<1>2. UNCHANGED <<Lines, LineAt, Count, Decided, Written, Seen>>
  BY <1>1 DEF Lines, LineAt, Count, Decided, Written, Writing, Seen
<1>3. Shapes' /\ FileInv' /\ DatabaseHonest'
  BY <1>1 DEF IndInv, Shapes, TypeOK, FileInv, DatabaseHonest, Reading, Writing, Complete
<1>4. Progress'
  BY <1>1, <1>2 DEF IndInv, Progress, At, Writing, Says, Begins
<1>5. Trusted' /\ Decisions' /\ SettledInv'
  BY <1>1, <1>2 DEF IndInv, Trusted, Decisions, SettledInv, At, Reading, Complete, Says, Begins
<1> QED
  BY <1>3, <1>4, <1>5 DEF IndInv

LEMMA NextInv == ASSUME IndInv, [Next]_vars PROVE IndInv'
<1>1. CASE Start(FALSE) \/ Start(TRUE)
  BY <1>1, StartStep
<1>2. CASE ExpectLine
  BY <1>2, ExpectLineStep
<1>3. CASE Decide
  BY <1>3, DecideStep
<1>4. CASE CloseScript
  BY <1>4, CloseScriptStep
<1>5. CASE Run
  BY <1>5, RunStep
<1>6. CASE OverwriteAll
  BY <1>6, OverwriteAllStep
<1>7. CASE CompareGood
  BY <1>7, CompareGoodStep
<1>8. CASE CompareBad
  BY <1>8, CompareBadStep
<1>9. CASE CompareDone
  BY <1>9, CompareDoneStep
<1>10. CASE Substitute
  BY <1>10, SubstituteStep
<1>11. CASE CloseIn
  BY <1>11, CloseInStep
<1>12. CASE Output
  BY <1>12, OutputStep
<1>13. CASE Headers
  BY <1>13, HeadersStep
<1>14. CASE Checksum
  BY <1>14, ChecksumStep
<1>15. CASE CloseCompile
  BY <1>15, CloseCompileStep
<1>16. CASE PerformNothing
  BY <1>16, PerformNothingStep
<1>17. CASE Perform
  BY <1>17, PerformStep
<1>18. CASE Interrupt
  BY <1>18, InterruptStep
<1>19. CASE ChangeOption \/ ChangeValue \/ EditSource \/ RemoveTarget \/ RemoveDatabase
  BY <1>19, EditStep
<1>20. CASE Stop \/ UNCHANGED vars
  BY <1>20, StutterInv DEF Stop
<1> QED
  BY <1>1, <1>2, <1>3, <1>4, <1>5, <1>6, <1>7, <1>8, <1>9, <1>10, <1>11, <1>12, <1>13, <1>14, <1>15, <1>16,
     <1>17, <1>18, <1>19, <1>20 DEF Next

\* A build with nothing to do, step by step.
LEMMA NothingNew ==
    ASSUME IndInv, [Next]_vars, settled, settled'
    PROVE  UNCHANGED <<file, file_mtime, target>>
<1>0. /\ Shapes /\ FileOK /\ Says(file, Lines) /\ ~build.update /\ ~build.touch
      /\ build.step \in {"idle", "expect", "headers", "checksum", "compare", "close", "perform"}
      /\ db.state # "closed" => Reading
  BY InvFile DEF IndInv, SettledInv
<1>1. Lines \in Seq(Plain) /\ Len(Lines) = Count /\ Count \in Nat /\ Count >= 2 /\ Complete(file) /\ Len(file) = 2 * Count + 1
  BY <1>0, LinesFacts, SaysComplete DEF FileOK, FileTypes
<1>2. CASE Start(FALSE) \/ Start(TRUE)
  <2>1. Open /\ UNCHANGED <<target, recorded>> /\ file_mtime # 0
    BY <1>0, <1>1, <1>2 DEF Start, FileOK, FileInv, Complete
  <2> QED
    BY <2>1 DEF Open
<1>3. CASE ExpectLine
  <2>1. PICK n \in Nat : build.line = n + 1 /\ n < Decided
    <3>1. build.line \in 1 .. Decided + 1 /\ build.line <= Decided /\ Decided \in {2, 3}
      BY <1>0, <1>3, LinesFacts DEF IndInv, Progress, ExpectLine
    <3>2. build.line - 1 \in Nat /\ build.line = (build.line - 1) + 1 /\ build.line - 1 < Decided
      BY <3>1
    <3> QED
      BY <3>2
  <2>2. db.state # "closed" /\ Seen = n /\ Encodes(Written, n, LineAt) /\ n < Count
    BY <1>0, <1>3, <2>1, LinesFacts DEF ExpectLine, Shapes, At, Seen, IndInv, Progress
  <2>3. NextIs(Lines[n + 1])
    BY <2>2, SettledNext
  <2>4. Expect(Lines[build.line]) /\ UNCHANGED target /\ ~Writing
    BY <1>3, <2>3 DEF ExpectLine, NextIs, HasLine, Writing
  <2> QED
    BY <2>1, <2>3, <2>4 DEF Expect, Accept, Unchanged
<1>4. CASE Decide
  BY <1>4 DEF Decide, Untouched
<1>5. CASE CloseScript \/ CloseCompile
  <2>1. build.step = "close" /\ db.state # "closed" /\ UNCHANGED target /\ Encodes(Written, Count, LineAt)
    BY <1>0, <1>5 DEF CloseScript, CloseCompile, At, Shapes, IndInv, Progress, Seen
  <2>2. db.state = "read_eof"
    <3>1. Count > 0
      BY <1>1
    <3> QED
      BY <1>0, <1>1, <2>1, <3>1, AllRead
  <2> QED
    BY <1>0, <1>5, <2>1, <2>2 DEF CloseScript, CloseCompile, Close, Unchanged
<1>6. CASE Run \/ Substitute \/ Output \/ Perform \/ OverwriteAll
  BY <1>0, <1>6 DEF Run, Substitute, Output, Perform, OverwriteAll, At
<1>7. CASE CompareGood
  BY <1>7 DEF CompareGood, Accept, Unchanged
<1>8. CASE CompareBad
  <2>1. build.step = "compare" /\ db.state = "read" /\ ~NextIs(value)
    BY <1>8 DEF CompareBad, At
  <2>2. FileOK /\ Reading /\ build.line \in Nat /\ build.line >= 3 /\ db.pos = 2 * (build.line - 1) + 1
    BY <1>0, <2>1, CompareFacts
  <2>3. db.pos <= Len(file)
    BY <2>2 DEF FileOK, FileInv
  <2>4. build.line - 1 <= Count
    BY <1>1, <2>2, <2>3
  <2> QED
    BY <2>1, <2>4, CompareSettled
<1>9. CASE CompareDone
  BY <1>9 DEF CompareDone, Close, Unchanged
<1>10. CASE CloseIn
  BY <1>0, <1>10 DEF CloseIn, At, IndInv, Progress, Reading, Writing
<1>11. CASE Headers
  <2>1. build.step = "headers" /\ rule = "compile" /\ db.state # "closed"
    BY <1>0, <1>11 DEF Headers, At, IndInv, Progress, Shapes
  <2>2. Seen = 2 /\ Encodes(Written, 2, LineAt)
    BY <2>1 DEF IndInv, Progress, Seen
  <2>3. HasLine
    BY <1>0, <2>1, <2>2, CompileNext
  <2> QED
    BY <1>0, <1>11, <2>3 DEF Headers, Accept, Unchanged
<1>12. CASE Checksum
  <2>1. build.step = "checksum" /\ rule = "compile" /\ db.state # "closed"
    BY <1>0, <1>12 DEF Checksum, At, IndInv, Progress, Shapes
  <2>2. Seen = 3 /\ Encodes(Written, 3, LineAt)
    BY <2>1 DEF IndInv, Progress, Seen
  <2>3. HasLine
    BY <1>0, <2>1, <2>2, CompileNext
  <2> QED
    BY <1>0, <1>12, <2>3 DEF Checksum, Accept, Unchanged
<1>13. CASE PerformNothing
  BY <1>0, <1>13 DEF PerformNothing
<1>14. CASE Interrupt \/ ChangeOption \/ ChangeValue \/ EditSource \/ RemoveTarget \/ RemoveDatabase
  BY <1>14 DEF Interrupt, Edit, ChangeOption, ChangeValue, EditSource, RemoveTarget, RemoveDatabase
<1>15. CASE Stop \/ UNCHANGED vars
  BY <1>15 DEF Stop, vars
<1> QED
  BY <1>2, <1>3, <1>4, <1>5, <1>6, <1>7, <1>8, <1>9, <1>10, <1>11, <1>12, <1>13, <1>14, <1>15 DEF Next

\* The invariant holds.
LEMMA Inductive == Spec => []IndInv
<1>1. Init => IndInv
  BY InitInv
<1>2. IndInv /\ [Next]_vars => IndInv'
  BY NextInv
<1> QED
  BY <1>1, <1>2, PTL DEF Spec

\* The variables have their types.
THEOREM TypeCorrect == Spec => []TypeOK
<1>1. IndInv => TypeOK
  BY DEF IndInv, Shapes
<1> QED
  BY <1>1, Inductive, PTL

\* change() and close() (depdb.cxx) keep what an end marker promises: whatever
\* part of a buffer an interrupted build has written over an old database, the
\* result is not taken for a complete one.
THEOREM DatabaseHonestCorrect == Spec => []DatabaseHonest
<1>1. IndInv => DatabaseHonest
  BY DEF IndInv
<1> QED
  BY <1>1, Inductive, PTL

\* An update that ends well leaves a target made from the current lines,
\* however many builds were interrupted before it, wherever, by the compile
\* rule's shortcuts (headers and checksums taken from the database) too.
THEOREM UpToDateCorrect == Spec => []UpToDate
<1>1. IndInv => UpToDate
  <2> SUFFICES ASSUME IndInv, settled PROVE target.mtime # 0 /\ target.content = Lines
    BY DEF UpToDate
  <2>1. FileOK /\ Shapes /\ Says(file, Lines) /\ target.content = Lines /\ file_mtime <= target.mtime
    BY InvFile DEF IndInv, SettledInv
  <2>2. Complete(file)
    BY <2>1, LinesFacts, SaysComplete DEF FileOK, FileTypes
  <2>3. file_mtime # 0
    BY <2>1, <2>2 DEF FileOK, FileInv, Complete
  <2> QED
    BY <2>1, <2>3 DEF FileOK, FileTypes
<1> QED
  BY <1>1, Inductive, PTL

\* A build with nothing new since the last successful one changes neither the
\* target nor the database, timestamps included, in any of its steps.
THEOREM NothingToDoCorrect == Spec => NothingToDo
<1>1. IndInv /\ [Next]_vars => [settled /\ settled' => UNCHANGED <<file, file_mtime, target>>]_vars
  BY NothingNew
<1> QED
  BY <1>1, Inductive, PTL DEF Spec, NothingToDo
=============================================================================
