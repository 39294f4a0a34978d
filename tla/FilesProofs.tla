----------------------------- MODULE FilesProofs -----------------------------
(* Proofs about the file storage: FileUploads, for any number of PUTs, paths,    *)
(* uploads and failures; IngressAuditOutbox, for any runtimes and claims;        *)
(* FileIngress, for any requests, parts and sweepers.                            *)
EXTENDS MCFiles, Sequences, SequenceTheorems, FiniteSetTheorems, WellFoundedInduction, TLAPS

-----------------------------------------------------------------------------
(* The inductive invariant *)

Pending(v) == \E u \in uploads : u.version = v

\* A pending upload's version is nobody's yet.
UploadsAreNew ==
  /\ \A u \in uploads : u.version <= made /\ \A f \in Files : files[f].version # u.version
  /\ \A u, w \in uploads : u.version = w.version => u = w

\* No version is that of two Files.
FilesAreApart ==
  /\ \A f \in Files : files[f].version <= made
  /\ \A f \in Files : Live(f) => files[f].version \in Versions /\ files[f].path \in Paths
  /\ \A f, g \in Files : files[f].version = files[g].version /\ files[f].version # None => f = g

\* The version that a PUT has seen before its own can only be its File's; once the PUT has
\* committed it is no File's any more, and it never is again.
Past(r) ==
  LET v == put[r].previous IN
  v # None =>
    /\ v <= made /\ ~Pending(v)
    /\ \A f \in Files : files[f].version = v => f = put[r].upload.file /\ ~At(r, "tidy")

\* Inside its transaction a PUT's upload stays pending, and its bytes stay its own.
Proceeds(r) ==
  /\ put[r].pc \notin {"new", "failed"} => put[r].upload \in Upload
  /\ Past(r)
  /\ put[r].pc \in {"new", "previous"} => put[r].previous = None
  /\ put[r].pc \in {"write", "undo", "commit"} => Wins(put[r].upload)
  /\ At(r, "commit") => objects[put[r].upload.version] = r

DoomedAreDead ==
  \A v \in doomed : v <= made /\ ~Pending(v) /\ \A f \in Files : files[f].version = v => ~Live(f)

PrepareHasRoom == prepare.on => made < MaxVersions /\ prepare.path \in Paths

Invariant ==
  /\ TypeOK /\ UploadsAreNew /\ FilesAreApart
  /\ \A r \in Puts : Proceeds(r)
  /\ DoomedAreDead /\ PrepareHasRoom
  /\ LiveFileHasItsBytes /\ UrlsAreCurrent

-----------------------------------------------------------------------------
(* Steps that leave the Files alone *)

Fails(r) == put'[r] = [put[r] EXCEPT !.pc = "failed"]

\* A PUT that does not move goes on, whatever other PUTs, prepares and deletions do: its
\* version is not given away, and nobody writes its bytes.
LEMMA OthersProceed ==
    ASSUME Invariant, NEW b \in Puts, put'[b] = put[b] \/ Fails(b), made' \in Nat, made' >= made,
           \A v \in Nat : Pending(v)' => Pending(v) \/ v > made,
           \A f \in Files : files'[f].version = files[f].version \/ Pending(files'[f].version),
           put[b].pc \in {"write", "undo", "commit"} /\ put'[b] = put[b] =>
             UNCHANGED <<uploads, files>>,
           At(b, "commit") /\ put'[b] = put[b] =>
             objects'[put[b].upload.version] = objects[put[b].upload.version]
    PROVE  Proceeds(b)'
<1>1. put[b] \in PutStates /\ Proceeds(b) /\ made \in Nat
  BY FileUploadsAssumption DEF Invariant, TypeOK
<1>2. CASE put'[b] = put[b]
  <2>1. Past(b)'
    <3>1. CASE put[b].previous = None
      BY <1>2, <3>1 DEF Past
    <3>2. CASE put[b].previous # None
      <4>0. PICK v \in Nat : v = put[b].previous
        BY <1>1, FileUploadsAssumption DEF PutStates, Versions, None
      <4>1. v <= made /\ ~Pending(v)
            /\ \A f \in Files : files[f].version = v => f = put[b].upload.file /\ ~At(b, "tidy")
        BY <1>1, <3>2, <4>0 DEF Proceeds, Past
      <4>2. v <= made' /\ ~Pending(v)'
        BY <1>1, <4>1
      <4>3. \A f \in Files : files'[f].version = v => f = put[b].upload.file /\ ~At(b, "tidy")
        BY <4>1
      <4> QED BY <1>2, <4>0, <4>1, <4>2, <4>3 DEF Past, At
    <3> QED BY <3>1, <3>2
  <2>2. put[b].pc \in {"write", "undo", "commit"} => Wins(put[b].upload)'
    BY <1>1, <1>2 DEF Proceeds, Wins, LiveAt, Live
  <2> QED BY <1>1, <1>2, <2>1, <2>2 DEF Proceeds, At
<1>3. CASE Fails(b)
  <2>1. put'[b].pc = "failed" /\ put'[b].previous = put[b].previous
        /\ put'[b].upload = put[b].upload
    BY <1>1, <1>3 DEF Fails, PutStates
  <2>2. Past(b)'
    <3>1. CASE put[b].previous = None
      BY <2>1, <3>1 DEF Past
    <3>2. CASE put[b].previous # None
      <4>0. PICK v \in Nat : v = put[b].previous
        BY <1>1, FileUploadsAssumption DEF PutStates, Versions, None
      <4>1. v <= made /\ ~Pending(v)
            /\ \A f \in Files : files[f].version = v => f = put[b].upload.file
        BY <1>1, <3>2, <4>0 DEF Proceeds, Past
      <4>2. v <= made' /\ ~Pending(v)'
        BY <1>1, <4>1
      <4>3. \A f \in Files : files'[f].version = v => f = put[b].upload.file
        BY <4>1
      <4> QED BY <2>1, <4>0, <4>1, <4>2, <4>3 DEF Past, At
    <3> QED BY <3>1, <3>2
  <2> QED BY <2>1, <2>2 DEF Proceeds, At
<1> QED BY <1>2, <1>3

\* A version that may be written or removed: no live File has it.
Spare(v) == \A f \in Files : Live(f) => files[f].version # v

\* A step that changes no File, adds no upload and dooms nothing, with every PUT unmoved,
\* failed or accounted for, and only spare bytes written or removed.
LEMMA QuietStep ==
    ASSUME Invariant, TypeOK', UNCHANGED <<files, made>>,
           uploads' \subseteq uploads, gate # Nobody => uploads' = uploads,
           \A l \in urls' : l \in urls \/ (Live(l[1]) /\ l[1] \in Files /\ l[2] = files[l[1]].version),
           doomed' \subseteq doomed,
           prepare' = prepare \/ ~prepare'.on,
           \A v \in Versions : objects'[v] = objects[v] \/ Spare(v),
           \A b \in Puts :
             \/ Proceeds(b)'
             \/ Fails(b)
             \/ put'[b] = put[b] /\ (At(b, "commit") =>
                  objects'[put[b].upload.version] = objects[put[b].upload.version])
    PROVE  Invariant'
<1>1. TypeOK /\ made \in Nat
  BY FileUploadsAssumption DEF Invariant, TypeOK
<1>2. \A v : Pending(v)' => Pending(v)
  BY DEF Pending
<1>3. ASSUME NEW b \in Puts PROVE Proceeds(b)'
  <2>1. put[b].pc \in {"write", "undo", "commit"} => uploads' = uploads
    BY <1>1, FileUploadsAssumption DEF TypeOK
  <2>2. CASE Proceeds(b)'
    BY <2>2
  <2>3. CASE Fails(b)
    <3>1. ~(put'[b] = put[b] /\ put[b].pc \in {"write", "undo", "commit"})
      BY <1>1, <2>3 DEF Fails, TypeOK, PutStates
    <3> QED BY <1>1, <1>2, <2>1, <2>3, <3>1, OthersProceed DEF At
  <2>4. CASE put'[b] = put[b] /\ (At(b, "commit") =>
                  objects'[put[b].upload.version] = objects[put[b].upload.version])
    BY <1>1, <1>2, <2>1, <2>4, OthersProceed
  <2> QED BY <2>2, <2>3, <2>4
<1>4. UploadsAreNew' /\ FilesAreApart'
  BY DEF Invariant, UploadsAreNew, FilesAreApart, Live
<1>5. DoomedAreDead'
  BY <1>2 DEF Invariant, DoomedAreDead, Live
<1>6. PrepareHasRoom'
  BY DEF Invariant, PrepareHasRoom
<1>7. LiveFileHasItsBytes'
  BY DEF Invariant, LiveFileHasItsBytes, Spare, Live, FilesAreApart
<1>8. UrlsAreCurrent'
  BY DEF Invariant, UrlsAreCurrent, Live
<1> QED BY <1>3, <1>4, <1>5, <1>6, <1>7, <1>8 DEF Invariant

InGate == {"write", "undo", "commit"}

\* A transaction is open exactly while its PUT is in it.
GateIsOpen == \A r \in Puts : gate = r <=> put[r].pc \in InGate

\* The part of the step's type that the quiet steps change.
StepTyped ==
  /\ objects' \in [Versions -> {Nobody} \union Puts]
  /\ put' \in [Puts -> PutStates]
  /\ gate' \in {Nobody} \union Puts
  /\ doomed' \subseteq Versions /\ lost' \subseteq Versions
  /\ faults' \in 0 .. MaxFaults
  /\ GateIsOpen'

LEMMA QuietType ==
    ASSUME Invariant, UNCHANGED <<files, made>>, uploads' \subseteq uploads,
           urls' \subseteq Files \X Versions, prepare' \in PrepareStates, StepTyped
    PROVE  TypeOK'
BY DEF Invariant, TypeOK, StepTyped, GateIsOpen, InGate

\* What the invariant says of one PUT.
LEMMA InvariantOf ==
    ASSUME Invariant
    PROVE  /\ TypeOK /\ GateIsOpen /\ put \in [Puts -> PutStates]
           /\ objects \in [Versions -> {Nobody} \union Puts]
           /\ doomed \subseteq Versions /\ lost \subseteq Versions /\ faults \in 0 .. MaxFaults
           /\ urls \subseteq Files \X Versions /\ prepare \in PrepareStates
           /\ uploads \subseteq Upload /\ files \in [Files -> FileStates]
           /\ made \in 0 .. MaxVersions /\ made \in Nat /\ MaxVersions \in Nat
           /\ \A r \in Puts : put[r] \in PutStates /\ Proceeds(r) /\ r # Nobody
           /\ \A l \in urls : Live(l[1]) /\ l[1] \in Files /\ l[2] = files[l[1]].version
           /\ gate \in {Nobody} \union Puts
BY FileUploadsAssumption DEF Invariant, TypeOK, GateIsOpen, InGate, UrlsAreCurrent

\* Faults are counted up to their bound.
LEMMA FaultsAreCounted ==
    ASSUME Invariant, Faulty, Fault
    PROVE  faults' \in 0 .. MaxFaults
BY FileUploadsAssumption, InvariantOf DEF Faulty, Fault

LEMMA Moves ==
    ASSUME Invariant, NEW r \in Puts, NEW q \in PutStates, Goes(r, q)
    PROVE  /\ put' \in [Puts -> PutStates] /\ put'[r] = q
           /\ \A b \in Puts : b # r => put'[b] = put[b]
BY InvariantOf DEF Goes

\* Only a pending version, or one that nobody may read any more, is spare.
LEMMA PendingIsSpare ==
    ASSUME Invariant, NEW u \in uploads
    PROVE  Spare(u.version)
BY DEF Invariant, UploadsAreNew, Spare

\* A PUT outside any transaction moves on, or is refused.
LEMMA MoveKeeps ==
    ASSUME Invariant, NEW r \in Puts, NEW q \in PutStates, Goes(r, q),
           put[r].pc \notin InGate, q.pc \notin InGate,
           UNCHANGED <<uploads, files, urls, objects, prepare, made, gate, doomed, faults, lost>>,
           put'[r] = q => Proceeds(r)'
    PROVE  Invariant'
<1>1. /\ put' \in [Puts -> PutStates] /\ put'[r] = q
      /\ \A b \in Puts : b # r => put'[b] = put[b]
  BY Moves
<1>2. StepTyped
  BY <1>1, InvariantOf DEF StepTyped, GateIsOpen
<1>3. TypeOK'
  BY <1>2, InvariantOf, QuietType
<1> QED BY <1>1, <1>3, InvariantOf, QuietStep

LEMMA SelectKeeps ==
    ASSUME Invariant, NEW r \in Puts, Select(r)
    PROVE  Invariant'
<1>1. PICK u \in uploads : Goes(r, [put[r] EXCEPT !.pc = "previous", !.upload = u])
  BY DEF Select
<1> DEFINE q == [put[r] EXCEPT !.pc = "previous", !.upload = u]
<1>2. put[r] \in PutStates /\ put[r].pc = "new" /\ put[r].previous = None /\ u \in Upload
  BY InvariantOf DEF Select, At, Proceeds
<1>3. q \in PutStates /\ q.pc = "previous" /\ q.upload = u /\ q.previous = None
  BY <1>2 DEF PutStates
<1>4. Goes(r, q)
  BY <1>1
<1>5. UNCHANGED <<uploads, files, urls, objects, prepare, made, gate, doomed, faults, lost>>
  BY DEF Select, Sound
<1> HIDE DEF q
<1>6. put'[r] = q => Proceeds(r)'
  BY <1>2, <1>3 DEF Proceeds, Past, At
<1> QED BY <1>2, <1>3, <1>4, <1>5, <1>6, MoveKeeps DEF InGate

LEMMA SelectPreviousKeeps ==
    ASSUME Invariant, NEW r \in Puts, SelectPrevious(r)
    PROVE  Invariant'
<1> DEFINE f == put[r].upload.file
           p == IF Live(f) THEN files[f].version ELSE None
           q == [put[r] EXCEPT !.pc = "begin", !.previous = p]
<1>1. put[r] \in PutStates /\ put[r].pc = "previous" /\ put[r].upload \in Upload /\ f \in Files
  BY InvariantOf DEF SelectPrevious, At, Proceeds, Upload
<1>2. PICK w \in {None} \union Versions : w = p
  BY <1>1, InvariantOf DEF FileStates
<1>3. q \in PutStates /\ q.pc = "begin" /\ q.upload = put[r].upload /\ q.previous = w
  BY <1>1, <1>2 DEF PutStates
<1>4. Goes(r, q)
  BY DEF SelectPrevious
<1>5. UNCHANGED <<uploads, files, urls, objects, prepare, made, gate, doomed, faults, lost>>
  BY DEF SelectPrevious, Sound
<1>6. w # None => w = files[f].version
  BY <1>2
<1> HIDE DEF q
<1>7. put'[r] = q => Proceeds(r)'
  <2>1. w # None => w <= made /\ ~Pending(w)
    BY <1>1, <1>6 DEF Invariant, FilesAreApart, UploadsAreNew, Pending
  <2>2. w # None => \A g \in Files : files[g].version = w => g = f
    BY <1>1, <1>6 DEF Invariant, FilesAreApart
  <2> QED BY <1>1, <1>3, <1>5, <2>1, <2>2 DEF Proceeds, Past, At, Pending
<1> QED BY <1>1, <1>3, <1>4, <1>5, <1>7, MoveKeeps DEF InGate

LEMMA RefusedKeeps ==
    ASSUME Invariant, NEW r \in Puts, Refused(r)
    PROVE  Invariant'
<1> DEFINE q == [put[r] EXCEPT !.pc = "failed"]
<1>1. put[r] \in PutStates /\ put[r].pc = "begin" /\ Past(r)
  BY InvariantOf DEF Refused, At, Proceeds
<1>2. q \in PutStates /\ q.pc = "failed" /\ q.upload = put[r].upload
      /\ q.previous = put[r].previous
  BY <1>1 DEF PutStates
<1>3. Goes(r, q)
  BY DEF Refused
<1>4. UNCHANGED <<uploads, files, urls, objects, prepare, made, gate, doomed, faults, lost>>
  BY DEF Refused, Sound
<1> HIDE DEF q
<1>5. put'[r] = q => Proceeds(r)'
  BY <1>1, <1>2, <1>4 DEF Proceeds, Past, At, Pending
<1> QED BY <1>1, <1>2, <1>3, <1>4, <1>5, MoveKeeps DEF InGate

-----------------------------------------------------------------------------
(* Inside the transaction of a PUT *)

LEMMA BeginKeeps ==
    ASSUME Invariant, NEW r \in Puts, Begin(r)
    PROVE  Invariant'
<1> DEFINE q == [put[r] EXCEPT !.pc = "write"]
<1>1. put[r] \in PutStates /\ put[r].pc = "begin" /\ Proceeds(r) /\ gate = Nobody
  BY InvariantOf DEF Begin, At, Free
<1>2. q \in PutStates /\ q.pc = "write" /\ q.upload = put[r].upload
      /\ q.previous = put[r].previous
  BY <1>1 DEF PutStates
<1>3. Goes(r, q) /\ gate' = r /\ Wins(put[r].upload)
      /\ UNCHANGED <<uploads, files, urls, objects, prepare, made, doomed, faults, lost>>
  BY DEF Begin, Sound
<1> HIDE DEF q
<1>4. /\ put' \in [Puts -> PutStates] /\ put'[r] = q
      /\ \A b \in Puts : b # r => put'[b] = put[b]
  BY <1>2, <1>3, Moves
<1>5. TypeOK'
  <2>1. GateIsOpen'
    BY <1>1, <1>2, <1>3, <1>4, InvariantOf DEF GateIsOpen, InGate
  <2>2. StepTyped
    BY <1>3, <1>4, <2>1, InvariantOf DEF StepTyped
  <2> QED BY <1>3, <2>2, InvariantOf, QuietType
<1>6. Proceeds(r)'
  BY <1>1, <1>2, <1>3, <1>4 DEF Proceeds, Past, At, Pending, Wins, LiveAt, Live
<1> QED BY <1>3, <1>4, <1>5, <1>6, InvariantOf, QuietStep

LEMMA SupersededKeeps ==
    ASSUME Invariant, NEW r \in Puts, Superseded(r)
    PROVE  Invariant'
<1> DEFINE q == [put[r] EXCEPT !.pc = "failed"]
<1>1. put[r] \in PutStates /\ put[r].pc = "begin" /\ gate = Nobody
  BY InvariantOf DEF Superseded, At, Free
<1>2. q \in PutStates /\ q.pc = "failed"
  BY <1>1 DEF PutStates
<1>3. Goes(r, q) /\ uploads' \subseteq uploads
      /\ UNCHANGED <<files, urls, objects, prepare, made, gate, doomed, faults, lost>>
  BY DEF Superseded, Sound
<1>4. q = [put[r] EXCEPT !.pc = "failed"]
  OBVIOUS
<1> HIDE DEF q
<1>5. /\ put' \in [Puts -> PutStates] /\ put'[r] = q
      /\ \A b \in Puts : b # r => put'[b] = put[b]
  BY <1>2, <1>3, Moves
<1>6. TypeOK'
  <2>1. GateIsOpen'
    BY <1>1, <1>2, <1>3, <1>5, InvariantOf DEF GateIsOpen, InGate
  <2>2. StepTyped
    BY <1>3, <1>5, <2>1, InvariantOf DEF StepTyped
  <2> QED BY <1>3, <2>2, InvariantOf, QuietType
<1>7. Fails(r)
  BY <1>4, <1>5 DEF Fails
<1> QED BY <1>1, <1>3, <1>5, <1>6, <1>7, InvariantOf, QuietStep

\* A step of the PUT whose transaction is open that writes or removes its version, or that
\* gives up, and stays in the transaction.
LEMMA GateStep ==
    ASSUME Invariant, NEW r \in Puts, put[r].pc \in InGate, NEW pc \in {"undo", "commit"},
           Goes(r, [put[r] EXCEPT !.pc = pc]),
           NEW x \in {Nobody} \union Puts, pc = "commit" => x = r,
           objects' = objects \/ objects' = [objects EXCEPT ![put[r].upload.version] = x],
           pc = "commit" => objects' = [objects EXCEPT ![put[r].upload.version] = r],
           UNCHANGED <<uploads, files, urls, prepare, made, gate, doomed, lost>>,
           faults' \in 0 .. MaxFaults
    PROVE  Invariant'
<1> DEFINE q == [put[r] EXCEPT !.pc = pc]
<1>1. put[r] \in PutStates /\ Proceeds(r) /\ put[r].upload \in Upload
      /\ Wins(put[r].upload) /\ gate = r /\ put[r].upload.version \in Versions
  BY InvariantOf DEF Proceeds, GateIsOpen, InGate, Upload
<1>2. q \in PutStates /\ q.pc = pc /\ q.upload = put[r].upload /\ q.previous = put[r].previous
  BY <1>1 DEF PutStates
<1>3. Goes(r, q)
  OBVIOUS
<1> HIDE DEF q
<1>4. /\ put' \in [Puts -> PutStates] /\ put'[r] = q
      /\ \A b \in Puts : b # r => put'[b] = put[b]
  BY <1>2, <1>3, Moves
<1>5. objects' \in [Versions -> {Nobody} \union Puts]
      /\ \A v \in Versions : v # put[r].upload.version => objects'[v] = objects[v]
  BY <1>1, InvariantOf
<1>6. TypeOK'
  <2>1. GateIsOpen'
    BY <1>1, <1>2, <1>4, InvariantOf DEF GateIsOpen, InGate
  <2>2. StepTyped
    BY <1>4, <1>5, <2>1, InvariantOf DEF StepTyped
  <2> QED BY <2>2, InvariantOf, QuietType
<1>7. Proceeds(r)'
  <2>1. Wins(put[r].upload)'
    BY <1>1, <1>4, <1>2 DEF Wins, LiveAt, Live
  <2>2. pc = "commit" => objects'[put[r].upload.version] = r
    BY <1>1, InvariantOf
  <2> QED BY <1>1, <1>2, <1>4, <2>1, <2>2 DEF Proceeds, Past, At, Pending, Wins, LiveAt, Live
<1>8. Spare(put[r].upload.version)
  BY <1>1, PendingIsSpare DEF Wins
<1>9. \A b \in Puts : b # r => ~At(b, "commit")
  BY <1>1, InvariantOf DEF GateIsOpen, InGate, At
<1> QED BY <1>4, <1>5, <1>6, <1>7, <1>8, <1>9, InvariantOf, QuietStep

LEMMA GateStepsKeep ==
    ASSUME Invariant, NEW r \in Puts, Write(r) \/ WriteFails(r) \/ StatementFails(r)
    PROVE  Invariant'
<1>1. faults \in 0 .. MaxFaults /\ r \in {Nobody} \union Puts
  BY InvariantOf
<1>2. CASE Write(r)
  BY <1>1, <1>2, GateStep DEF Write, At, InGate, Sound
<1>3. CASE WriteFails(r)
  BY <1>1, <1>3, GateStep, FaultsAreCounted DEF WriteFails, At, InGate
<1>4. CASE StatementFails(r)
  BY <1>1, <1>4, GateStep, FaultsAreCounted DEF StatementFails, At, InGate
<1> QED BY <1>2, <1>3, <1>4

\* The bytes of a version that was not published are removed while the gate is still held.
LEMMA UndoKeeps ==
    ASSUME Invariant, NEW r \in Puts, Undo(r)
    PROVE  Invariant'
<1> DEFINE q == [put[r] EXCEPT !.pc = "failed"]
<1>1. put[r] \in PutStates /\ put[r].pc = "undo" /\ put[r].upload \in Upload
      /\ Wins(put[r].upload) /\ gate = r /\ put[r].upload.version \in Versions
  BY InvariantOf DEF Undo, At, Proceeds, GateIsOpen, InGate, Upload
<1>2. q \in PutStates /\ q.pc = "failed"
  BY <1>1 DEF PutStates
<1>3. /\ Goes(r, q) /\ gate' = Nobody
      /\ UNCHANGED <<uploads, files, urls, prepare, made, doomed>>
      /\ objects' = objects \/ objects' = [objects EXCEPT ![put[r].upload.version] = Nobody]
      /\ faults' \in 0 .. MaxFaults /\ lost' \subseteq Versions
  BY <1>1, InvariantOf, FaultsAreCounted DEF Undo, Sound
<1>4. q = [put[r] EXCEPT !.pc = "failed"]
  OBVIOUS
<1> HIDE DEF q
<1>5. /\ put' \in [Puts -> PutStates] /\ put'[r] = q
      /\ \A b \in Puts : b # r => put'[b] = put[b]
  BY <1>2, <1>3, Moves
<1>6. objects' \in [Versions -> {Nobody} \union Puts]
      /\ \A v \in Versions : v # put[r].upload.version => objects'[v] = objects[v]
  BY <1>1, <1>3, InvariantOf
<1>7. TypeOK'
  <2>1. GateIsOpen'
    BY <1>1, <1>2, <1>3, <1>5, InvariantOf DEF GateIsOpen, InGate
  <2>2. StepTyped
    BY <1>3, <1>5, <1>6, <2>1, InvariantOf DEF StepTyped
  <2> QED BY <1>3, <2>2, InvariantOf, QuietType
<1>8. Spare(put[r].upload.version) /\ Fails(r)
  BY <1>1, <1>4, <1>5, PendingIsSpare DEF Wins, Fails
<1>9. \A b \in Puts : b # r => ~At(b, "commit")
  BY <1>1, InvariantOf DEF GateIsOpen, InGate, At
<1> QED BY <1>3, <1>5, <1>6, <1>7, <1>8, <1>9, InvariantOf, QuietStep

LEMMA RollsBackKeeps ==
    ASSUME Invariant, NEW r \in Puts, At(r, "commit"),
           Goes(r, [put[r] EXCEPT !.pc = "failed"]), gate' = Nobody,
           UNCHANGED <<uploads, files, urls, objects, prepare, made, doomed>>,
           faults' \in 0 .. MaxFaults, lost' \subseteq Versions
    PROVE  Invariant'
<1> DEFINE q == [put[r] EXCEPT !.pc = "failed"]
<1>1. put[r] \in PutStates /\ gate = r
  BY InvariantOf DEF At, GateIsOpen, InGate
<1>2. q \in PutStates /\ q.pc = "failed"
  BY <1>1 DEF PutStates
<1>3. q = [put[r] EXCEPT !.pc = "failed"] /\ Goes(r, q)
  OBVIOUS
<1> HIDE DEF q
<1>4. /\ put' \in [Puts -> PutStates] /\ put'[r] = q
      /\ \A b \in Puts : b # r => put'[b] = put[b]
  BY <1>2, <1>3, Moves
<1>5. TypeOK'
  <2>1. GateIsOpen'
    BY <1>1, <1>2, <1>4, InvariantOf DEF GateIsOpen, InGate
  <2>2. StepTyped
    BY <1>4, <2>1, InvariantOf DEF StepTyped
  <2> QED BY <2>2, InvariantOf, QuietType
<1>6. Fails(r)
  BY <1>3, <1>4 DEF Fails
<1> QED BY <1>4, <1>5, <1>6, InvariantOf, QuietStep

-----------------------------------------------------------------------------
(* What is removed afterwards, public URLs, crashes *)

\* The version replaced is no File's: its bytes may go.
LEMMA TidyKeeps ==
    ASSUME Invariant, NEW r \in Puts, Tidy(r)
    PROVE  Invariant'
<1> DEFINE q == [put[r] EXCEPT !.pc = "done"]
           p == put[r].previous
<1>1. put[r] \in PutStates /\ Proceeds(r) /\ put[r].pc = "tidy" /\ put[r].upload \in Upload
      /\ p \in {None} \union Versions
  BY InvariantOf DEF Tidy, At, Proceeds, PutStates
<1>2. q \in PutStates /\ q.pc = "done" /\ q.upload = put[r].upload /\ q.previous = p
  BY <1>1 DEF PutStates
<1>3. /\ Goes(r, q)
      /\ UNCHANGED <<uploads, files, urls, prepare, made, gate, doomed>>
      /\ objects' = objects
         \/ objects' = [v \in Versions |-> IF v = p THEN Nobody ELSE objects[v]]
      /\ faults' \in 0 .. MaxFaults /\ lost' \subseteq Versions
  BY <1>1, InvariantOf, FaultsAreCounted DEF Tidy, Sound
<1> HIDE DEF q
<1>4. /\ put' \in [Puts -> PutStates] /\ put'[r] = q
      /\ \A b \in Puts : b # r => put'[b] = put[b]
  BY <1>2, <1>3, Moves
<1>5. objects' \in [Versions -> {Nobody} \union Puts]
      /\ \A v \in Versions : v # p => objects'[v] = objects[v]
  BY <1>3, InvariantOf
<1>6. TypeOK'
  <2>1. GateIsOpen'
    BY <1>1, <1>2, <1>3, <1>4, InvariantOf DEF GateIsOpen, InGate
  <2>2. StepTyped
    BY <1>3, <1>4, <1>5, <2>1, InvariantOf DEF StepTyped
  <2> QED BY <1>3, <2>2, InvariantOf, QuietType
<1>7. Proceeds(r)'
  BY <1>1, <1>2, <1>3, <1>4 DEF Proceeds, Past, At, Pending
<1>8. p # None => Spare(p) /\ ~Pending(p)
  BY <1>1 DEF Proceeds, Past, Spare, At
<1>9. \A b \in Puts : At(b, "commit") => objects'[put[b].upload.version] = objects[put[b].upload.version]
  <2>1. ASSUME NEW b \in Puts, At(b, "commit")
        PROVE  put[b].upload.version \in Versions /\ Pending(put[b].upload.version)
    BY <2>1, InvariantOf DEF At, Proceeds, Wins, Pending, Upload
  <2>2. None \notin Versions
    BY DEF None, Versions
  <2> QED BY <1>5, <1>8, <2>1, <2>2
<1>10. None \notin Versions
  BY DEF None, Versions
<1> QED BY <1>3, <1>4, <1>5, <1>6, <1>7, <1>8, <1>9, <1>10, InvariantOf, QuietStep

LEMMA RemoveBytesKeeps ==
    ASSUME Invariant, NEW v \in Versions, RemoveBytes(v)
    PROVE  Invariant'
<1>1. v \in doomed /\ Spare(v) /\ ~Pending(v)
  BY DEF RemoveBytes, Invariant, DoomedAreDead, Spare
<1>2. /\ UNCHANGED <<uploads, files, urls, prepare, made, put, gate>> /\ doomed' \subseteq doomed
      /\ objects' = objects \/ objects' = [objects EXCEPT ![v] = Nobody]
      /\ faults' \in 0 .. MaxFaults /\ lost' \subseteq Versions
  BY InvariantOf, FaultsAreCounted DEF RemoveBytes, Sound
<1>3. objects' \in [Versions -> {Nobody} \union Puts]
      /\ \A w \in Versions : w # v => objects'[w] = objects[w]
  BY <1>2, InvariantOf
<1>4. TypeOK'
  <2>1. GateIsOpen'
    BY <1>2, InvariantOf DEF GateIsOpen, InGate
  <2>2. StepTyped
    BY <1>2, <1>3, <2>1, InvariantOf DEF StepTyped
  <2> QED BY <1>2, <2>2, InvariantOf, QuietType
<1>5. \A b \in Puts : At(b, "commit") => objects'[put[b].upload.version] = objects[put[b].upload.version]
  <2>1. ASSUME NEW b \in Puts, At(b, "commit")
        PROVE  put[b].upload.version \in Versions /\ Pending(put[b].upload.version)
    BY <2>1, InvariantOf DEF At, Proceeds, Wins, Pending, Upload
  <2> QED BY <1>1, <1>3, <2>1
<1> QED BY <1>1, <1>2, <1>3, <1>4, <1>5, InvariantOf, QuietStep

\* Public URLs come and go; a reference is resolved.
LEMMA UrlsKeep ==
    ASSUME Invariant,
           UNCHANGED <<uploads, files, objects, made, put, gate, doomed, faults, lost>>,
           prepare' = prepare, urls' \subseteq Files \X Versions,
           \A l \in urls' : l \in urls \/ (Live(l[1]) /\ l[1] \in Files /\ l[2] = files[l[1]].version)
    PROVE  Invariant'
<1>1. TypeOK'
  <2>1. GateIsOpen'
    BY InvariantOf DEF GateIsOpen, InGate
  <2>2. StepTyped
    BY <2>1, InvariantOf DEF StepTyped
  <2> QED BY <2>2, InvariantOf, QuietType
<1> QED BY <1>1, InvariantOf, QuietStep

LEMMA UrlStepsKeep ==
    ASSUME Invariant,
           \/ \E f \in Files : CreatePublicUrl(f)
           \/ \E l \in urls : RevokePublicUrl(l)
    PROVE  Invariant'
<1>1. ASSUME NEW f \in Files, CreatePublicUrl(f) PROVE Invariant'
  <2> DEFINE l == <<f, files[f].version>>
  <2>1. Live(f) /\ files[f].version \in Versions
    BY <1>1 DEF CreatePublicUrl, Invariant, FilesAreApart
  <2>2. urls' = urls \union {l} /\ l \in Files \X Versions
    BY <1>1, <2>1 DEF CreatePublicUrl
  <2>3. l[1] = f /\ l[2] = files[f].version
    OBVIOUS
  <2> HIDE DEF l
  <2>4. urls' \subseteq Files \X Versions
        /\ \A k \in urls' : k \in urls \/ (Live(k[1]) /\ k[1] \in Files /\ k[2] = files[k[1]].version)
    BY <2>1, <2>2, <2>3, InvariantOf
  <2> QED BY <1>1, <2>4, UrlsKeep DEF CreatePublicUrl, Sound
<1>2. ASSUME NEW l \in urls, RevokePublicUrl(l) PROVE Invariant'
  <2>1. urls' \subseteq urls
    BY <1>2 DEF RevokePublicUrl
  <2>2. urls' \subseteq Files \X Versions
    BY <2>1, InvariantOf
  <2> QED BY <1>2, <2>1, <2>2, UrlsKeep DEF RevokePublicUrl, Sound
<1> QED BY <1>1, <1>2

LEMMA CrashKeeps ==
    ASSUME Invariant, Crash
    PROVE  Invariant'
<1>1. /\ put' = [r \in Puts |-> IF At(r, "new") THEN put[r] ELSE [put[r] EXCEPT !.pc = "failed"]]
      /\ prepare' = [prepare EXCEPT !.on = FALSE] /\ gate' = Nobody /\ doomed' = {}
      /\ UNCHANGED <<uploads, files, urls, objects, made>> /\ faults' \in 0 .. MaxFaults
  BY FaultsAreCounted DEF Crash
<1>2. lost' \subseteq Versions
  <2>1. \A r \in Puts : /\ put[r].previous # None => put[r].previous \in Versions
                        /\ gate = r => put[r].upload.version \in Versions
    BY InvariantOf DEF PutStates, Proceeds, GateIsOpen, InGate, Upload
  <2> QED BY <2>1, InvariantOf DEF Crash
<1>3. prepare' \in PrepareStates /\ ~prepare'.on
  BY <1>1, InvariantOf DEF PrepareStates
<1>4. \A r \in Puts : /\ put'[r] \in PutStates /\ put'[r].pc \in {"new", "failed"}
                      /\ (put'[r] = put[r] /\ ~At(r, "commit")) \/ Fails(r)
  <2> TAKE r \in Puts
  <2>1. put[r] \in PutStates
    BY InvariantOf
  <2>2. CASE At(r, "new")
    BY <1>1, <2>1, <2>2 DEF At
  <2>3. CASE ~At(r, "new")
    BY <1>1, <2>1, <2>3 DEF Fails, PutStates
  <2> QED BY <2>2, <2>3
<1>5. TypeOK'
  <2>1. GateIsOpen'
    BY <1>1, <1>4, InvariantOf DEF GateIsOpen, InGate
  <2>2. put' \in [Puts -> PutStates]
    BY <1>1, <1>4
  <2>3. StepTyped
    BY <1>1, <1>2, <2>1, <2>2, InvariantOf DEF StepTyped
  <2> QED BY <1>1, <1>3, <2>3, InvariantOf, QuietType
<1> QED BY <1>1, <1>3, <1>4, <1>5, InvariantOf, QuietStep

-----------------------------------------------------------------------------
(* Preparing an upload *)

LEMMA ResolveKeeps ==
    ASSUME Invariant, Resolve
    PROVE  Invariant'
<1>1. /\ UNCHANGED <<uploads, files, urls, objects, made, put, gate, doomed, faults, lost>>
      /\ made < MaxVersions
  BY DEF Resolve, Sound
<1>2. prepare' \in PrepareStates /\ prepare'.path \in Paths
  <2>1. \A f \in Files : Live(f) => files[f].path \in Paths
    BY DEF Invariant, FilesAreApart
  <2>2. PICK f \in {None} \union Files, p \in Paths : prepare' = [on |-> TRUE, file |-> f, path |-> p]
    BY <2>1 DEF Resolve
  <2> QED BY <2>2 DEF PrepareStates
<1>3. TypeOK'
  <2>1. GateIsOpen'
    BY <1>1, InvariantOf DEF GateIsOpen, InGate
  <2>2. StepTyped
    BY <1>1, <2>1, InvariantOf DEF StepTyped
  <2> QED BY <1>1, <1>2, <2>2, InvariantOf, QuietType
<1>4. ASSUME NEW b \in Puts PROVE Proceeds(b)'
  BY <1>1, InvariantOf DEF Proceeds, Past, At, Pending, Wins, LiveAt, Live
<1>5. UploadsAreNew' /\ FilesAreApart' /\ DoomedAreDead' /\ LiveFileHasItsBytes' /\ UrlsAreCurrent'
  BY <1>1 DEF Invariant, UploadsAreNew, FilesAreApart, DoomedAreDead, LiveFileHasItsBytes,
              UrlsAreCurrent, Live, Pending
<1>6. PrepareHasRoom'
  BY <1>1, <1>2 DEF PrepareHasRoom
<1> QED BY <1>3, <1>4, <1>5, <1>6 DEF Invariant

\* An upload is for a File, its own if there is none yet.
LEMMA TargetIsAFile ==
    ASSUME Invariant, NEW f \in {None} \union Files, NEW p, NEW fresh \in Files
    PROVE  Target(f, p, fresh) \in Files
<1> DEFINE pending == {u.file : u \in {w \in uploads : w.path = p}}
<1>1. pending \subseteq Files /\ LiveAt(p) \subseteq Files
  BY InvariantOf DEF Upload, LiveAt
<1>2. pending # {} => (CHOOSE g \in pending : TRUE) \in Files
  BY <1>1
<1>3. LiveAt(p) # {} => (CHOOSE g \in LiveAt(p) : TRUE) \in Files
  BY <1>1
<1> QED BY <1>2, <1>3 DEF Target

LEMMA PrepareKeeps ==
    ASSUME Invariant, Prepare
    PROVE  Invariant'
<1> DEFINE row == [version |-> made + 1, file |-> Target(prepare.file, prepare.path, made + 1),
                   path |-> prepare.path]
<1>1. /\ prepare \in PrepareStates /\ prepare.path \in Paths /\ made + 1 \in Versions
      /\ made \in Nat /\ made < MaxVersions /\ MaxVersions \in Nat
  BY InvariantOf DEF Prepare, Invariant, PrepareHasRoom, Versions
<1>2. Target(prepare.file, prepare.path, made + 1) \in Files
  BY <1>1, TargetIsAFile DEF PrepareStates, Files
<1>3. row \in Upload /\ row.version = made + 1 /\ row.path = prepare.path
  BY <1>1, <1>2 DEF Upload
<1>4. /\ gate = Nobody /\ uploads' = Publish(row) /\ made' = made + 1
      /\ UNCHANGED <<files, urls, objects, put, gate, doomed, faults, lost>>
      /\ prepare' = [prepare EXCEPT !.on = FALSE]
  BY DEF Prepare, Free, Sound
<1> HIDE DEF row
<1>5. uploads' \subseteq uploads \union {row}
      /\ \A u \in uploads' : u # row => u \in uploads /\ u.path # row.path
  BY <1>4 DEF Publish
<1>6. prepare' \in PrepareStates /\ ~prepare'.on
  BY <1>1, <1>4 DEF PrepareStates
<1>7. TypeOK'
  <2>1. uploads' \subseteq Upload
    BY <1>3, <1>5, InvariantOf
  <2>2. made' \in 0 .. MaxVersions
    BY <1>1, <1>4
  <2>3. \A u, w \in uploads' : u.path = w.path => u = w
    BY <1>5, InvariantOf DEF TypeOK
  <2> QED BY <1>4, <1>6, <2>1, <2>2, <2>3, InvariantOf DEF TypeOK, Live
<1>8. \A v \in Nat : Pending(v)' => Pending(v) \/ v > made
  BY <1>1, <1>3, <1>5 DEF Pending
<1>9. ASSUME NEW b \in Puts PROVE Proceeds(b)'
  <2>1. put[b].pc \notin InGate
    BY <1>4, InvariantOf DEF GateIsOpen
  <2> QED BY <1>1, <1>4, <1>8, <2>1, OthersProceed DEF InGate, At
<1>10. UploadsAreNew'
  <2>1. ASSUME NEW f \in Files PROVE files[f].version # row.version
    BY <1>1, <1>3, InvariantOf DEF Invariant, FilesAreApart, FileStates, Versions, None
  <2>2. ASSUME NEW u \in uploads PROVE u.version # row.version /\ u.version \in Nat /\ u.version <= made
    BY <1>1, <1>3, InvariantOf DEF Invariant, UploadsAreNew, Upload, Versions
  <2>3. \A u \in uploads' : u.version <= made' /\ \A f \in Files : files'[f].version # u.version
    BY <1>1, <1>3, <1>4, <1>5, <2>1, <2>2 DEF Invariant, UploadsAreNew
  <2>4. \A u, w \in uploads' : u.version = w.version => u = w
    BY <1>5, <2>2 DEF Invariant, UploadsAreNew
  <2> QED BY <2>3, <2>4 DEF UploadsAreNew
<1>11. FilesAreApart'
  <2>1. \A f \in Files : files[f].version <= made + 1
    BY <1>1, InvariantOf DEF Invariant, FilesAreApart, FileStates, Versions, None
  <2> QED BY <1>4, <2>1 DEF Invariant, FilesAreApart, Live
<1>12. DoomedAreDead'
  <2>1. ASSUME NEW v \in doomed PROVE v \in Nat /\ v <= made + 1 /\ ~Pending(v)'
    BY <1>1, <1>8, InvariantOf DEF Invariant, DoomedAreDead, Versions
  <2> QED BY <1>4, <2>1 DEF Invariant, DoomedAreDead, Live
<1>13. PrepareHasRoom' /\ LiveFileHasItsBytes' /\ UrlsAreCurrent'
  BY <1>4, <1>6 DEF Invariant, PrepareHasRoom, LiveFileHasItsBytes, UrlsAreCurrent, Live
<1> QED BY <1>7, <1>9, <1>10, <1>11, <1>12, <1>13 DEF Invariant

-----------------------------------------------------------------------------
(* A version is published, a File deleted *)

LEMMA CompletesKeeps ==
    ASSUME Invariant, NEW r \in Puts, NEW pc \in {"tidy", "failed"}, At(r, "commit"),
           Goes(r, [put[r] EXCEPT !.pc = pc]), Completes(r), gate' = Nobody,
           UNCHANGED <<objects, prepare, made, doomed>>,
           faults' \in 0 .. MaxFaults, lost' \subseteq Versions
    PROVE  Invariant'
<1> DEFINE q == [put[r] EXCEPT !.pc = pc]
           row(u) == [state |-> "uploaded", version |-> u.version, path |-> u.path, by |-> r]
<1>1. PICK u \in uploads : u = put[r].upload
  BY InvariantOf DEF At, Proceeds, Wins
<1>2. /\ put[r] \in PutStates /\ Proceeds(r) /\ gate = r /\ put[r].upload \in Upload
      /\ Wins(u) /\ objects[u.version] = r
      /\ u.version \in Versions /\ u.file \in Files /\ u.path \in Paths
  BY <1>1, InvariantOf DEF At, Proceeds, GateIsOpen, InGate, Upload
<1>3. q \in PutStates /\ q.pc = pc /\ q.upload = u /\ q.previous = put[r].previous
  BY <1>1, <1>2 DEF PutStates
<1>4. Goes(r, q)
  OBVIOUS
<1>5. row(u) \in FileStates /\ row(u).state = "uploaded" /\ row(u).version = u.version
      /\ row(u).path = u.path /\ row(u).by = r
  BY <1>2 DEF FileStates
<1>6. /\ uploads' = uploads \ {u}
      /\ files' = [files EXCEPT ![u.file] = row(u)]
      /\ urls' = {l \in urls : l[1] # u.file}
  BY <1>1 DEF Completes
<1> HIDE DEF q, row
<1>7. /\ put' \in [Puts -> PutStates] /\ put'[r] = q
      /\ \A b \in Puts : b # r => put'[b] = put[b]
  BY <1>3, <1>4, Moves
<1>8. files' \in [Files -> FileStates] /\ files'[u.file] = row(u)
      /\ \A f \in Files : f # u.file => files'[f] = files[f]
  BY <1>2, <1>5, <1>6, InvariantOf
<1>9. \A f \in Files : f # u.file /\ files[f].state = "uploaded" => files[f].path # u.path
  BY <1>2 DEF Wins, LiveAt, Live
<1>10. TypeOK'
  <2>1. GateIsOpen'
    BY <1>2, <1>3, <1>7, InvariantOf DEF GateIsOpen, InGate
  <2>2. \A f, g \in Files : files'[f].state = "uploaded" /\ files'[g].state = "uploaded"
                           /\ files'[f].path = files'[g].path => f = g
    BY <1>5, <1>8, <1>9, InvariantOf DEF TypeOK
  <2>3. \A v, w \in uploads' : v.path = w.path => v = w
    BY <1>6, InvariantOf DEF TypeOK
  <2> QED BY <1>6, <1>7, <1>8, <2>1, <2>2, <2>3, InvariantOf DEF TypeOK, GateIsOpen, InGate
<1>11. \A v : Pending(v)' => Pending(v)
  BY <1>6 DEF Pending
<1>12. Pending(u.version) /\ \A f \in Files : files[f].version # u.version
  BY DEF Pending, Invariant, UploadsAreNew
<1>13. ASSUME NEW b \in Puts, b # r PROVE Proceeds(b)'
  <2>1. put[b].pc \notin InGate
    BY <1>2, <1>13, InvariantOf DEF GateIsOpen
  <2>2. \A f \in Files : files'[f].version = files[f].version \/ Pending(files'[f].version)
    BY <1>5, <1>8, <1>12
  <2> QED BY <1>7, <1>11, <1>13, <2>1, <2>2, InvariantOf, OthersProceed DEF InGate, At
<1>14. Proceeds(r)'
  <2>1. put[r].previous # u.version \/ put[r].previous = None
    BY <1>2, <1>12 DEF Proceeds, Past
  <2>2. Past(r)'
    <3>1. PICK p \in {None} \union Versions : p = put[r].previous
      BY <1>2 DEF PutStates
    <3>2. p # None => /\ p <= made /\ ~Pending(p) /\ p # u.version
                      /\ \A f \in Files : files[f].version = p => f = u.file
      BY <1>1, <1>2, <2>1, <3>1 DEF Proceeds, Past
    <3>3. p # None => \A f \in Files : files'[f].version # p
      BY <1>5, <1>8, <3>2
    <3> QED BY <1>3, <1>7, <1>11, <3>1, <3>2, <3>3 DEF Past
  <2> QED BY <1>1, <1>2, <1>3, <1>7, <2>2 DEF Proceeds, At
<1>15. UploadsAreNew'
  <2>1. ASSUME NEW w \in uploads' PROVE w \in uploads /\ w.version # u.version
    BY <1>6 DEF Invariant, UploadsAreNew
  <2> QED BY <1>5, <1>8, <2>1 DEF Invariant, UploadsAreNew
<1>16. FilesAreApart'
  <2>1. u.version <= made
    BY DEF Invariant, UploadsAreNew
  <2> QED BY <1>2, <1>5, <1>8, <1>12, <2>1 DEF Invariant, FilesAreApart, Live
<1>17. DoomedAreDead'
  <2>1. u.version \notin doomed
    BY <1>12 DEF Invariant, DoomedAreDead
  <2>2. \A f \in Files : f # u.file => (Live(f)' <=> Live(f))
    BY <1>8 DEF Live
  <2> QED BY <1>5, <1>8, <1>11, <2>1, <2>2 DEF Invariant, DoomedAreDead
<1>18. PrepareHasRoom' /\ LiveFileHasItsBytes'
  BY <1>2, <1>5, <1>8 DEF Invariant, PrepareHasRoom, LiveFileHasItsBytes, Live
<1>19. UrlsAreCurrent'
  <2>1. ASSUME NEW l \in urls' PROVE l \in urls /\ l[1] \in Files /\ l[1] # u.file
    BY <1>6, InvariantOf
  <2> QED BY <1>8, <2>1 DEF Invariant, UrlsAreCurrent, Live
<1> QED BY <1>10, <1>13, <1>14, <1>15, <1>16, <1>17, <1>18, <1>19 DEF Invariant

LEMMA CommitKeeps ==
    ASSUME Invariant, NEW r \in Puts, Commit(r) \/ CommitFails(r)
    PROVE  Invariant'
<1>1. faults \in 0 .. MaxFaults /\ lost \subseteq Versions /\ put[r] \in PutStates
  BY InvariantOf
<1>2. CASE Commit(r)
  BY <1>1, <1>2, CompletesKeeps DEF Commit, Sound
<1>3. CASE CommitFails(r)
  <2>1. put[r].previous \in {None} \union Versions /\ put[r].upload.version \in Versions
    BY <1>1, <1>3, InvariantOf DEF CommitFails, At, Proceeds, Upload, PutStates
  <2>2. lost' \subseteq Versions /\ faults' \in 0 .. MaxFaults
    BY <1>1, <1>3, <2>1, FaultsAreCounted DEF CommitFails
  <2>3. CASE Completes(r)
    BY <1>3, <2>2, <2>3, CompletesKeeps DEF CommitFails
  <2>4. CASE UNCHANGED <<uploads, files, urls>>
    BY <1>3, <2>2, <2>4, RollsBackKeeps DEF CommitFails
  <2> QED BY <1>3, <2>3, <2>4 DEF CommitFails
<1> QED BY <1>2, <1>3

LEMMA DeleteKeeps ==
    ASSUME Invariant, NEW f \in Files, Delete(f)
    PROVE  Invariant'
<1>1. /\ gate = Nobody /\ Live(f) /\ uploads' \subseteq uploads
      /\ files' = [files EXCEPT ![f].state = "deleted"] /\ urls' = {l \in urls : l[1] # f}
      /\ doomed' \subseteq doomed \union {files[f].version}
      /\ UNCHANGED <<objects, prepare, made, put, gate>>
      /\ faults' \in 0 .. MaxFaults
  BY InvariantOf, FaultsAreCounted DEF Delete, Deletes, Free, Sound
<1>2. files[f].version \in Versions /\ files[f].version <= made /\ ~Pending(files[f].version)
  BY <1>1 DEF Invariant, FilesAreApart, UploadsAreNew, Pending
<1>3. lost' \subseteq Versions
  BY <1>2, InvariantOf DEF Delete, Sound
<1>4. /\ files' \in [Files -> FileStates] /\ files'[f].state = "deleted"
      /\ \A g \in Files : files'[g].version = files[g].version
      /\ \A g \in Files : g # f => files'[g] = files[g]
  BY <1>1, InvariantOf DEF FileStates
<1>5. \A g \in Files : Live(g)' => Live(g) /\ g # f /\ files'[g] = files[g]
  BY <1>4 DEF Live
<1>6. TypeOK'
  BY <1>1, <1>2, <1>3, <1>4, InvariantOf DEF TypeOK
<1>7. \A v : Pending(v)' => Pending(v)
  BY <1>1 DEF Pending
<1>8. ASSUME NEW b \in Puts PROVE Proceeds(b)'
  <2>1. put[b].pc \notin InGate
    BY <1>1, InvariantOf DEF GateIsOpen
  <2> QED BY <1>1, <1>4, <1>7, <2>1, InvariantOf, OthersProceed DEF InGate, At
<1>9. UploadsAreNew' /\ FilesAreApart'
  BY <1>1, <1>4, <1>5 DEF Invariant, UploadsAreNew, FilesAreApart
<1>10. DoomedAreDead'
  <2>1. \A g \in Files : files[g].version = files[f].version => g = f
    BY <1>2 DEF Invariant, FilesAreApart, Versions, None
  <2> QED BY <1>1, <1>2, <1>4, <1>5, <1>7, <2>1 DEF Invariant, DoomedAreDead
<1>11. PrepareHasRoom' /\ LiveFileHasItsBytes'
  BY <1>1, <1>5 DEF Invariant, PrepareHasRoom, LiveFileHasItsBytes
<1>12. UrlsAreCurrent'
  <2>1. ASSUME NEW l \in urls' PROVE l \in urls /\ l[1] \in Files /\ l[1] # f
    BY <1>1, InvariantOf
  <2> QED BY <1>4, <2>1 DEF Invariant, UrlsAreCurrent, Live
<1> QED BY <1>6, <1>8, <1>9, <1>10, <1>11, <1>12 DEF Invariant

-----------------------------------------------------------------------------
(* The theorems *)

LEMMA InitIsSound ==
    ASSUME Init
    PROVE  Invariant
<1> USE FileUploadsAssumption
<1>1. \A f \in Files : files[f] = [state |-> "none", version |-> None, path |-> None, by |-> Nobody]
  BY DEF Init
<1>2. \A r \in Puts : put[r] = [pc |-> "new", upload |-> NoUpload, previous |-> None]
  BY DEF Init
<1>3. files \in [Files -> FileStates] /\ \A f \in Files : files[f].version = None /\ ~Live(f)
  BY <1>1 DEF Init, FileStates, Live
<1>4. put \in [Puts -> PutStates] /\ \A r \in Puts : put[r].pc = "new" /\ put[r].previous = None
  BY <1>2 DEF Init, PutStates
<1>5. prepare \in PrepareStates /\ ~prepare.on
  BY DEF Init, PrepareStates
<1>6. GateIsOpen
  BY <1>4 DEF Init, GateIsOpen, InGate
<1>7. TypeOK
  BY <1>3, <1>4, <1>5, <1>6 DEF Init, TypeOK, GateIsOpen, InGate, Live
<1>8. \A r \in Puts : Proceeds(r)
  BY <1>4 DEF Proceeds, Past, At
<1>9. UploadsAreNew /\ FilesAreApart
  BY <1>3 DEF Init, UploadsAreNew, FilesAreApart, None
<1>10. DoomedAreDead /\ PrepareHasRoom /\ LiveFileHasItsBytes /\ UrlsAreCurrent
  BY <1>3, <1>5 DEF Init, DoomedAreDead, PrepareHasRoom, LiveFileHasItsBytes, UrlsAreCurrent
<1> QED BY <1>7, <1>8, <1>9, <1>10 DEF Invariant

LEMMA StutterKeeps ==
    ASSUME Invariant, UNCHANGED vars
    PROVE  Invariant'
<1>1. urls' \subseteq Files \X Versions
      /\ \A l \in urls' : l \in urls \/ (Live(l[1]) /\ l[1] \in Files /\ l[2] = files[l[1]].version)
  BY InvariantOf DEF vars
<1> QED BY <1>1, UrlsKeep DEF vars

LEMMA NextKeeps ==
    ASSUME Invariant, [Next]_vars
    PROVE  Invariant'
<1>1. CASE Resolve \/ Prepare \/ Crash
  BY <1>1, ResolveKeeps, PrepareKeeps, CrashKeeps
<1>2. ASSUME NEW r \in Puts, PutStep(r) PROVE Invariant'
  BY <1>2, SelectKeeps, SelectPreviousKeeps, RefusedKeeps, BeginKeeps, SupersededKeeps,
     GateStepsKeep, UndoKeeps, CommitKeeps, TidyKeeps
  DEF PutStep
<1>3. ASSUME NEW r \in Puts, WriteFails(r) \/ StatementFails(r) \/ CommitFails(r) PROVE Invariant'
  BY <1>3, GateStepsKeep, CommitKeeps
<1>4. ASSUME NEW f \in Files, Delete(f) \/ CreatePublicUrl(f) PROVE Invariant'
  BY <1>4, DeleteKeeps, UrlStepsKeep
<1>5. ASSUME NEW v \in Versions, RemoveBytes(v) PROVE Invariant'
  BY <1>5, RemoveBytesKeeps
<1>6. ASSUME NEW l \in urls, RevokePublicUrl(l) PROVE Invariant'
  BY <1>6, UrlStepsKeep
<1> QED BY <1>1, <1>2, <1>3, <1>4, <1>5, <1>6, StutterKeeps DEF Next

LEMMA SpecIsSound == Spec => []Invariant
<1> QED BY InitIsSound, NextKeeps, PTL DEF Spec

\* Whatever other PUTs, replacements, deletions, failures and crashes there are, a live File's
\* bytes are there and are those that its row describes, and every public URL that is not
\* revoked is that of a live File's current version.
THEOREM ReadersFindTheirBytes == Spec => []UploadsAreSafe
<1>1. ASSUME Invariant PROVE UploadsAreSafe
  BY <1>1 DEF Invariant, UploadsAreSafe
<1> QED BY <1>1, SpecIsSound, PTL

\* A File changes its version only in a commit, of the upload that is pending at its path.
LEMMA OnlyPendingPublishes ==
    ASSUME Invariant, [Next]_vars
    PROVE  PendingPublishes
<1>1. ASSUME NEW r \in Puts, At(r, "commit"), Completes(r) PROVE PendingPublishes
  <2>1. PICK u \in uploads : u = put[r].upload
    BY <1>1, InvariantOf DEF At, Proceeds, Wins
  <2>2. u \in Upload /\ u.file \in Files
    BY InvariantOf DEF Upload
  <2>3. files' = [files EXCEPT ![u.file] = [state |-> "uploaded", version |-> u.version,
                                            path |-> u.path, by |-> r]]
    BY <1>1, <2>1 DEF Completes
  <2>4. ASSUME NEW f \in Files, files'[f].version # files[f].version
        PROVE  u.file = f /\ u.version = files'[f].version
    BY <2>2, <2>3, <2>4, InvariantOf
  <2>5. \A w \in uploads : w.path = u.path => w.version <= u.version
    BY <2>2, InvariantOf DEF TypeOK, Upload, Versions
  <2> QED BY <2>4, <2>5 DEF PendingPublishes
<1>2. ASSUME NEW f \in Files, Delete(f) PROVE PendingPublishes
  <2>1. \A g \in Files : files'[g].version = files[g].version
    BY <1>2, InvariantOf DEF Delete, Deletes, FileStates
  <2> QED BY <2>1 DEF PendingPublishes
<1>3. CASE files' = files
  BY <1>3 DEF PendingPublishes
<1>4. CASE Resolve \/ Prepare \/ Crash \/ UNCHANGED vars
  <2>1. files' = files
    BY <1>4 DEF Resolve, Prepare, Crash, vars
  <2> QED BY <1>3, <2>1
<1>5. ASSUME NEW r \in Puts, PutStep(r) \/ WriteFails(r) \/ StatementFails(r) \/ CommitFails(r)
      PROVE  PendingPublishes
  BY <1>1, <1>3, <1>5 DEF PutStep, Select, SelectPrevious, Refused, Begin, Superseded, Write,
     Undo, Commit, Tidy, WriteFails, StatementFails, CommitFails
<1>6. ASSUME NEW f \in Files, CreatePublicUrl(f) PROVE PendingPublishes
  BY <1>3, <1>6 DEF CreatePublicUrl
<1>7. ASSUME NEW v \in Versions, RemoveBytes(v) PROVE PendingPublishes
  BY <1>3, <1>7 DEF RemoveBytes
<1>8. ASSUME NEW l \in urls, RevokePublicUrl(l) PROVE PendingPublishes
  BY <1>3, <1>8 DEF RevokePublicUrl
<1> QED BY <1>2, <1>4, <1>5, <1>6, <1>7, <1>8 DEF Next

\* The version of a live File keeps the bytes of the PUT that its row names, before a step and
\* after it.
LEMMA PublishedBytesStay ==
    ASSUME Invariant, Invariant'
    PROVE  KeepsBytes
BY DEF Invariant, LiveFileHasItsBytes, KeepsBytes, Live

\* An upload that was overtaken by a newer one of its path, or by the deletion of its File, is
\* never published, and no losing PUT touches the bytes that a live File serves.
THEOREM OvertakenUploadsNeverPublish == Spec => OvertakenNeverPublish
<1>1. ASSUME Invariant, [Next]_vars PROVE PendingPublishes /\ KeepsBytes
  BY <1>1, OnlyPendingPublishes, NextKeeps, PublishedBytesStay
<1> QED BY <1>1, SpecIsSound, PTL DEF Spec, OvertakenNeverPublish

-----------------------------------------------------------------------------
(* With one path, bytes always belong to somebody *)

\* A hypothesis: with two paths an upload for one of them may replace a File while a PUT for
\* the other holds the version it saw before.
OnePath == \A p, q \in Paths : p = q

\* What it is used for: whatever is prepared, pending or stored is for the same path.
AllFor(path) ==
  /\ prepare.on => prepare.path = path
  /\ \A u \in uploads : u.path = path
  /\ \A f \in Files : Live(f) => files[f].path = path

LEMMA PathsStay ==
    ASSUME Invariant, NEW path, AllFor(path), Next, prepare'.on => prepare'.path = path
    PROVE  AllFor(path)'
<1>0. files \in [Files -> FileStates] /\ prepare \in PrepareStates
  BY InvariantOf DEF TypeOK
<1>1. CASE Prepare
  BY <1>1 DEF Prepare, Publish, AllFor, Live
<1>2. ASSUME NEW r \in Puts, At(r, "commit"), Completes(r) PROVE AllFor(path)'
  <2>1. put[r].upload \in uploads
    BY <1>2, InvariantOf DEF At, Proceeds, Wins
  <2>2. put[r].upload.path = path
    BY <2>1 DEF AllFor
  <2> QED BY <1>0, <1>2, <2>2 DEF Completes, AllFor, Live
<1>3. ASSUME NEW r \in Puts, PutStep(r) \/ WriteFails(r) \/ StatementFails(r) \/ CommitFails(r)
      PROVE  AllFor(path)'
  <2>1. CASE Commit(r) \/ CommitFails(r)
    <3>1. CASE UNCHANGED <<uploads, files>>
      BY <3>1 DEF AllFor, Live
    <3> QED BY <1>2, <2>1, <3>1 DEF Commit, CommitFails
  <2>2. CASE Superseded(r)
    BY <2>2 DEF Superseded, AllFor, Live
  <2>3. CASE \/ Select(r) \/ SelectPrevious(r) \/ Refused(r) \/ Begin(r) \/ Write(r) \/ Undo(r) \/ Tidy(r)
             \/ WriteFails(r) \/ StatementFails(r)
    <3>1. UNCHANGED <<uploads, files>>
      BY <2>3 DEF Select, SelectPrevious, Refused, Begin, Write, Undo, Tidy, WriteFails, StatementFails
    <3> QED BY <3>1 DEF AllFor, Live
  <2> QED BY <1>3, <2>1, <2>2, <2>3 DEF PutStep
<1>4. ASSUME NEW f \in Files, Delete(f) PROVE AllFor(path)'
  BY <1>0, <1>4 DEF Delete, Deletes, AllFor, Live, FileStates
<1>5. CASE Resolve \/ (\E f \in Files : CreatePublicUrl(f)) \/ (\E l \in urls : RevokePublicUrl(l))
           \/ (\E v \in Versions : RemoveBytes(v)) \/ Crash
  <2>1. UNCHANGED <<uploads, files>>
    BY <1>5 DEF Resolve, CreatePublicUrl, RevokePublicUrl, RemoveBytes, Crash
  <2> QED BY <2>1 DEF AllFor, Live
<1> QED BY <1>1, <1>3, <1>4, <1>5 DEF Next

Seeing == {"begin", "write", "undo", "commit"}

\* The version that a PUT saw is still its File's, as long as its upload is pending.
SeesCurrent ==
  \A r \in Puts :
    /\ put[r].pc \in Seeing \union {"previous"} => put[r].upload.version <= made
    /\ put[r].pc \in Seeing /\ put[r].upload \in uploads =>
         put[r].previous = IF Live(put[r].upload.file) THEN files[put[r].upload.file].version
                           ELSE None

OwnedBytes == Invariant /\ SeesCurrent /\ BytesAreOwned

LEMMA SightStays ==
    ASSUME Invariant, SeesCurrent, made' \in Nat, made' >= made, files' = files,
           \A u \in uploads' : u \in uploads \/ u.version > made,
           \A b \in Puts : /\ put[b].pc \notin {"new", "failed"} => put[b].upload.version \in Nat
                           /\ \/ put'[b].pc \notin Seeing \union {"previous"}
                              \/ /\ put'[b].pc \in Seeing /\ put[b].pc \in Seeing
                                 /\ put'[b].upload = put[b].upload
                                 /\ put'[b].previous = put[b].previous
                              \/ put'[b] = put[b]
    PROVE  SeesCurrent'
<1>1. made \in Nat
  BY InvariantOf
<1>2. ASSUME NEW b \in Puts, put'[b].pc \in Seeing \union {"previous"}
      PROVE  /\ put[b].pc \in Seeing \union {"previous"}
             /\ put'[b].pc \in Seeing => put[b].pc \in Seeing
             /\ put'[b].upload = put[b].upload /\ put'[b].previous = put[b].previous
             /\ put[b].upload.version \in Nat /\ put[b].upload.version <= made
  BY <1>2 DEF SeesCurrent, Seeing
<1>3. ASSUME NEW b \in Puts, put'[b].pc \in Seeing, put'[b].upload \in uploads'
      PROVE  put[b].upload \in uploads
  BY <1>1, <1>2, <1>3
<1> QED BY <1>1, <1>2, <1>3 DEF SeesCurrent, Live

LEMMA VersionsAreNumbers ==
    ASSUME Invariant
    PROVE  /\ \A b \in Puts : put[b].pc \notin {"new", "failed"} =>
                                put[b].upload \in Upload /\ put[b].upload.version \in Nat
           /\ \A u \in uploads : u.version \in Nat /\ u.version <= made
BY InvariantOf DEF Proceeds, Upload, Versions, Invariant, UploadsAreNew

LEMMA SeesStep ==
    ASSUME Invariant, SeesCurrent, NEW path, AllFor(path), Next
    PROVE  SeesCurrent'
<1>0. made \in Nat /\ put \in [Puts -> PutStates] /\ \A b \in Puts : put[b] \in PutStates
  BY InvariantOf
<1>1. ASSUME NEW r \in Puts, NEW q, Goes(r, q)
      PROVE  put'[r] = q /\ \A b \in Puts : b # r => put'[b] = put[b]
  BY <1>0, <1>1 DEF Goes
<1>2. ASSUME NEW r \in Puts, Select(r) PROVE SeesCurrent'
  <2>1. PICK u \in uploads : Goes(r, [put[r] EXCEPT !.pc = "previous", !.upload = u])
    BY <1>2 DEF Select
  <2> DEFINE q == [put[r] EXCEPT !.pc = "previous", !.upload = u]
  <2>2. q.pc = "previous" /\ q.upload = u
    BY <1>0 DEF PutStates
  <2>3. Goes(r, q)
    BY <2>1
  <2> HIDE DEF q
  <2>4. put'[r].pc = "previous" /\ put'[r].upload = u /\ u.version <= made
    BY <1>1, <2>2, <2>3, VersionsAreNumbers
  <2>5. UNCHANGED <<uploads, files, made>> /\ \A b \in Puts : b # r => put'[b] = put[b]
    BY <1>1, <1>2, <2>3 DEF Select
  <2> QED BY <2>4, <2>5 DEF SeesCurrent, Seeing, Live
<1>3. ASSUME NEW r \in Puts, SelectPrevious(r) PROVE SeesCurrent'
  <2> DEFINE f == put[r].upload.file
             p == IF Live(f) THEN files[f].version ELSE None
  <2>1. put[r].pc = "previous" /\ Goes(r, [put[r] EXCEPT !.pc = "begin", !.previous = p])
    BY <1>3 DEF SelectPrevious, At
  <2> DEFINE q == [put[r] EXCEPT !.pc = "begin", !.previous = p]
  <2> HIDE DEF p
  <2>2. q.pc = "begin" /\ q.upload = put[r].upload /\ q.previous = p
    BY <1>0 DEF PutStates
  <2>3. Goes(r, q)
    BY <2>1
  <2> HIDE DEF q
  <2>4. put'[r].pc = "begin" /\ put'[r].upload = put[r].upload /\ put'[r].previous = p
    BY <1>1, <2>2, <2>3
  <2>5. UNCHANGED <<uploads, files, made>> /\ \A b \in Puts : b # r => put'[b] = put[b]
    BY <1>1, <1>3, <2>3 DEF SelectPrevious
  <2> USE DEF p
  <2> QED BY <2>1, <2>4, <2>5 DEF SeesCurrent, Seeing, Live
<1>4. ASSUME NEW r \in Puts, NEW pc, Goes(r, [put[r] EXCEPT !.pc = pc]),
             pc \notin Seeing \union {"previous"} \/ (pc \in Seeing /\ put[r].pc \in Seeing),
             UNCHANGED <<files, made>>, uploads' \subseteq uploads
      PROVE  SeesCurrent'
  <2>1. put'[r].pc = pc /\ put'[r].upload = put[r].upload /\ put'[r].previous = put[r].previous
    BY <1>0, <1>1, <1>4 DEF PutStates
  <2>2. \A b \in Puts : b # r => put'[b] = put[b]
    BY <1>1, <1>4
  <2> QED BY <1>0, <1>4, <2>1, <2>2, SightStays, VersionsAreNumbers
<1>5. CASE Resolve \/ (\E f \in Files : CreatePublicUrl(f)) \/ (\E l \in urls : RevokePublicUrl(l))
           \/ (\E v \in Versions : RemoveBytes(v))
  <2>1. UNCHANGED <<uploads, files, made, put>>
    BY <1>5 DEF Resolve, CreatePublicUrl, RevokePublicUrl, RemoveBytes
  <2> QED BY <1>0, <2>1, SightStays, VersionsAreNumbers
<1>6. CASE Prepare
  <2>1. made' = made + 1 /\ UNCHANGED <<files, put>>
        /\ \A u \in uploads' : u \in uploads \/ u.version = made + 1
    BY <1>6 DEF Prepare, Publish
  <2>2. made' \in Nat /\ made' >= made /\ \A u \in uploads' : u \in uploads \/ u.version > made
    BY <1>0, <2>1
  <2> QED BY <2>1, <2>2, SightStays, VersionsAreNumbers
<1>7. CASE Crash
  <2>1. UNCHANGED <<uploads, files, made>> /\ \A b \in Puts : put'[b].pc \in {"new", "failed"}
    BY <1>0, <1>7 DEF Crash, At, PutStates
  <2> QED BY <1>0, <2>1, SightStays, VersionsAreNumbers DEF Seeing
<1>8. ASSUME NEW f \in Files, Delete(f) PROVE SeesCurrent'
  <2>1. UNCHANGED <<made, put>> /\ uploads' = {u \in uploads : u.file # f /\ u.path # files[f].path}
        /\ Live(f)
    BY <1>8 DEF Delete, Deletes
  <2>2. files[f].path \in Paths /\ \A u \in uploads : u.path \in Paths
    BY <2>1, InvariantOf DEF Invariant, FilesAreApart, Upload
  <2>3. uploads' = {}
    BY <2>1, <2>2 DEF AllFor
  <2> QED BY <2>1, <2>3 DEF SeesCurrent, Seeing
<1>9. ASSUME NEW r \in Puts, NEW pc \in {"tidy", "failed"}, At(r, "commit"), Completes(r), made' = made,
             Goes(r, [put[r] EXCEPT !.pc = pc])
      PROVE  SeesCurrent'
  <2>1. put[r].upload \in uploads
    BY <1>9, InvariantOf DEF At, Proceeds, Wins
  <2>2. \A u \in uploads : u.path = put[r].upload.path => u = put[r].upload
    BY <2>1, InvariantOf DEF TypeOK
  <2>3. uploads' = {}
    BY <1>9, <2>1, <2>2, InvariantOf DEF Completes, AllFor, Upload
  <2>4. put'[r].pc = pc /\ \A b \in Puts : b # r => put'[b] = put[b]
    BY <1>0, <1>1, <1>9 DEF PutStates
  <2> QED BY <1>9, <2>3, <2>4 DEF SeesCurrent, Seeing
<1>10. ASSUME NEW r \in Puts, PutStep(r) PROVE SeesCurrent'
  <2>1. CASE Select(r) \/ SelectPrevious(r)
    BY <1>2, <1>3, <2>1
  <2>2. CASE Commit(r)
    BY <1>9, <2>2 DEF Commit
  <2>3. CASE Superseded(r)
    <3>1. uploads' \subseteq uploads
      BY <2>3 DEF Superseded
    <3> QED BY <1>4, <2>3, <3>1 DEF Superseded, Seeing
  <2>4. CASE Refused(r) \/ Begin(r) \/ Write(r) \/ Undo(r) \/ Tidy(r)
    BY <1>4, <2>4 DEF Refused, Begin, Write, Undo, Tidy, At, Seeing
  <2> QED BY <1>10, <2>1, <2>2, <2>3, <2>4 DEF PutStep
<1>11. ASSUME NEW r \in Puts, WriteFails(r) \/ StatementFails(r) \/ CommitFails(r)
       PROVE  SeesCurrent'
  <2>1. CASE WriteFails(r) \/ StatementFails(r)
    BY <1>4, <2>1 DEF WriteFails, StatementFails, At, Seeing
  <2>2. CASE CommitFails(r) /\ Completes(r)
    BY <1>9, <2>2 DEF CommitFails
  <2>3. CASE CommitFails(r) /\ UNCHANGED <<uploads, files, urls>>
    BY <1>4, <2>3 DEF CommitFails, Seeing
  <2> QED BY <1>11, <2>1, <2>2, <2>3 DEF CommitFails
<1> QED BY <1>5, <1>6, <1>7, <1>8, <1>10, <1>11 DEF Next

\* The four owners of stored bytes.
Current(v) == \E f \in Files : Live(f) /\ files[f].version = v
Arriving(v) == gate # Nobody /\ put[gate].upload.version = v
Replaced(v) == \E r \in Puts : At(r, "tidy") /\ put[r].previous = v

Owned(v) == Current(v) \/ Arriving(v) \/ Replaced(v) \/ v \in doomed

LEMMA OwnedIsOwned == BytesAreOwned <=> \A v \in Versions \ lost : objects[v] # Nobody => Owned(v)
BY DEF BytesAreOwned, Owned, Current, Arriving, Replaced

\* A step that takes no File's version, no transaction and no removal away.
LEMMA OwnersStay ==
    ASSUME Invariant, BytesAreOwned, UNCHANGED <<files, objects>>, lost \subseteq lost',
           doomed' = doomed, gate' = gate \/ gate = Nobody,
           \A b \in Puts : \/ put'[b] = put[b]
                           \/ ~At(b, "tidy") /\ b # gate
                           \/ ~At(b, "tidy") /\ put'[b].upload = put[b].upload
    PROVE  BytesAreOwned'
<1> SUFFICES ASSUME NEW v \in Versions, v \notin lost', objects'[v] # Nobody
             PROVE  Owned(v)'
  BY OwnedIsOwned DEF BytesAreOwned, Owned, Current, Arriving, Replaced
<1>1. Owned(v)
  BY OwnedIsOwned
<1>2. CASE Current(v)
  BY <1>2 DEF Owned, Current, Live
<1>3. CASE Arriving(v)
  <2>1. gate \in Puts /\ ~At(gate, "tidy")
    BY <1>3, InvariantOf DEF Arriving, GateIsOpen, InGate, At
  <2> QED BY <1>3, <2>1 DEF Owned, Arriving
<1>4. CASE Replaced(v)
  <2>1. PICK r \in Puts : At(r, "tidy") /\ put[r].previous = v
    BY <1>4 DEF Replaced
  <2>2. put'[r] = put[r]
    BY <2>1
  <2> QED BY <2>1, <2>2 DEF Owned, Replaced, At
<1> QED BY <1>1, <1>2, <1>3, <1>4 DEF Owned

\* The transaction ends without its version: the bytes are gone, or lost.
LEMMA GivenUp ==
    ASSUME Invariant, BytesAreOwned, NEW r \in Puts, gate = r, UNCHANGED <<files, doomed>>,
           Goes(r, [put[r] EXCEPT !.pc = "failed"]), lost \subseteq lost',
           \/ objects' = objects /\ put[r].upload.version \in lost'
           \/ objects' = [objects EXCEPT ![put[r].upload.version] = Nobody]
    PROVE  BytesAreOwned'
<1> DEFINE w == put[r].upload.version
<1>1. ~At(r, "tidy") /\ \A b \in Puts : b # r => put'[b] = put[b]
  BY InvariantOf DEF GateIsOpen, InGate, At, Goes
<1> SUFFICES ASSUME NEW v \in Versions, v \notin lost', objects'[v] # Nobody
             PROVE  Owned(v)'
  BY OwnedIsOwned DEF BytesAreOwned, Owned, Current, Arriving, Replaced
<1>2. v # w /\ objects[v] # Nobody
  BY InvariantOf
<1>3. Owned(v) /\ ~Arriving(v)
  BY <1>2, OwnedIsOwned DEF Arriving
<1>4. CASE Current(v)
  BY <1>4 DEF Owned, Current, Live
<1>5. CASE Replaced(v)
  BY <1>1, <1>5 DEF Owned, Replaced, At
<1> QED BY <1>3, <1>4, <1>5 DEF Owned

\* What a commit replaces, the PUT that committed removes, unless its answer was lost.
LEMMA PublishedIsOwned ==
    ASSUME Invariant, SeesCurrent, BytesAreOwned, NEW r \in Puts, At(r, "commit"),
           Completes(r), NEW pc \in {"tidy", "failed"}, Goes(r, [put[r] EXCEPT !.pc = pc]),
           UNCHANGED <<objects, doomed>>, lost \subseteq lost',
           pc = "failed" /\ put[r].previous # None => put[r].previous \in lost'
    PROVE  BytesAreOwned'
<1> DEFINE u == put[r].upload
           row == [state |-> "uploaded", version |-> u.version, path |-> u.path, by |-> r]
           q == [put[r] EXCEPT !.pc = pc]
<1>1. u \in uploads /\ u \in Upload /\ u.file \in Files /\ gate = r /\ put[r] \in PutStates
  BY InvariantOf DEF At, Proceeds, Wins, GateIsOpen, InGate, Upload
<1>2. put[r].previous = IF Live(u.file) THEN files[u.file].version ELSE None
  BY <1>1 DEF SeesCurrent, Seeing, At
<1>3. row.state = "uploaded" /\ row.version = u.version
  OBVIOUS
<1>4. files' = [files EXCEPT ![u.file] = row]
  BY DEF Completes
<1>5. q.pc = pc /\ q.previous = put[r].previous
  BY <1>1 DEF PutStates
<1>6. Goes(r, q)
  OBVIOUS
<1> HIDE DEF row, q
<1>7. put'[r] = q /\ \A b \in Puts : b # r => put'[b] = put[b]
  BY <1>6, InvariantOf DEF Goes
<1>8. files'[u.file] = row /\ \A f \in Files : f # u.file => files'[f] = files[f]
  BY <1>1, <1>4, InvariantOf
<1> SUFFICES ASSUME NEW v \in Versions, v \notin lost', objects'[v] # Nobody
             PROVE  Owned(v)'
  BY OwnedIsOwned DEF BytesAreOwned, Owned, Current, Arriving, Replaced
<1>9. Owned(v) /\ v # None
  BY OwnedIsOwned DEF Versions, None
<1>10. CASE Arriving(v)
  BY <1>1, <1>3, <1>8, <1>10 DEF Owned, Arriving, Current, Live
<1>11. CASE Current(v)
  <2>1. PICK f \in Files : Live(f) /\ files[f].version = v
    BY <1>11 DEF Current
  <2>2. CASE f # u.file
    BY <1>8, <2>1, <2>2 DEF Owned, Current, Live
  <2>3. CASE f = u.file
    <3>1. put[r].previous = v /\ pc = "tidy"
      BY <1>2, <1>9, <2>1, <2>3
    <3> QED BY <1>5, <1>7, <3>1 DEF Owned, Replaced, At
  <2> QED BY <2>2, <2>3
<1>12. CASE Replaced(v)
  <2>1. PICK b \in Puts : At(b, "tidy") /\ put[b].previous = v
    BY <1>12 DEF Replaced
  <2>2. put'[b] = put[b]
    BY <1>7, <2>1 DEF At
  <2> QED BY <2>1, <2>2 DEF Owned, Replaced, At
<1> QED BY <1>9, <1>10, <1>11, <1>12 DEF Owned

\* The steps that write, remove or disown bytes.
LEMMA TidyKeepsOwners ==
    ASSUME Invariant, BytesAreOwned, NEW r \in Puts, Tidy(r)
    PROVE  BytesAreOwned'
<1> DEFINE p == put[r].previous
<1>1. /\ At(r, "tidy") /\ UNCHANGED <<files, gate, doomed>> /\ lost \subseteq lost'
      /\ \A b \in Puts : b # r => put'[b] = put[b]
      /\ \/ objects' = [v \in Versions |-> IF v = p THEN Nobody ELSE objects[v]]
         \/ objects' = objects /\ p \in lost'
  BY InvariantOf DEF Tidy, Goes, Sound
<1>2. gate # r
  BY <1>1, InvariantOf DEF GateIsOpen, InGate, At
<1> SUFFICES ASSUME NEW v \in Versions, v \notin lost', objects'[v] # Nobody
             PROVE  Owned(v)'
  BY OwnedIsOwned DEF BytesAreOwned, Owned, Current, Arriving, Replaced
<1>3. v # p /\ objects[v] # Nobody
  BY <1>1
<1>4. Owned(v)
  BY <1>1, <1>3, OwnedIsOwned
<1>5. CASE Replaced(v)
  <2>1. PICK b \in Puts : At(b, "tidy") /\ put[b].previous = v
    BY <1>5 DEF Replaced
  <2>2. put'[b] = put[b]
    BY <1>1, <1>3, <2>1
  <2> QED BY <2>1, <2>2 DEF Owned, Replaced, At
<1>6. CASE Current(v) \/ v \in doomed
  BY <1>1, <1>6 DEF Owned, Current, Live
<1>7. CASE Arriving(v)
  BY <1>1, <1>2, <1>7, InvariantOf DEF Owned, Arriving
<1> QED BY <1>4, <1>5, <1>6, <1>7 DEF Owned

LEMMA DeletionsKeepOwners ==
    ASSUME Invariant, BytesAreOwned,
           \/ \E f \in Files : Delete(f)
           \/ \E v \in Versions : RemoveBytes(v)
    PROVE  BytesAreOwned'
<1> SUFFICES ASSUME NEW v \in Versions, v \notin lost', objects'[v] # Nobody
             PROVE  Owned(v)'
  BY OwnedIsOwned DEF BytesAreOwned, Owned, Current, Arriving, Replaced
<1>1. ASSUME NEW f \in Files, Delete(f) PROVE Owned(v)'
  <2>1. /\ UNCHANGED <<objects, put, gate>> /\ files' = [files EXCEPT ![f].state = "deleted"]
        /\ \/ doomed' = doomed \union {files[f].version}
           \/ doomed' = doomed /\ files[f].version \in lost'
        /\ lost \subseteq lost'
    BY <1>1 DEF Delete, Deletes, Sound
  <2>2. Owned(v)
    BY <2>1, OwnedIsOwned
  <2>3. CASE Current(v)
    <3>1. PICK g \in Files : Live(g) /\ files[g].version = v
      BY <2>3 DEF Current
    <3>2. g # f => files'[g] = files[g]
      BY <2>1, InvariantOf
    <3> QED BY <2>1, <3>1, <3>2 DEF Owned, Current, Live
  <2>4. CASE Arriving(v) \/ Replaced(v) \/ v \in doomed
    BY <2>1, <2>4 DEF Owned, Arriving, Replaced, At
  <2> QED BY <2>2, <2>3, <2>4 DEF Owned
<1>2. ASSUME NEW w \in Versions, RemoveBytes(w) PROVE Owned(v)'
  <2>1. /\ UNCHANGED <<files, put, gate>> /\ doomed' = doomed \ {w} /\ lost \subseteq lost'
        /\ \/ objects' = [objects EXCEPT ![w] = Nobody]
           \/ objects' = objects /\ w \in lost'
    BY <1>2 DEF RemoveBytes, Sound
  <2>2. v # w /\ objects[v] # Nobody
    BY <2>1, InvariantOf
  <2>3. Owned(v)
    BY <2>1, <2>2, OwnedIsOwned
  <2> QED BY <2>1, <2>2, <2>3 DEF Owned, Current, Live, Arriving, Replaced, At
<1> QED BY <1>1, <1>2

LEMMA CrashKeepsOwners ==
    ASSUME Invariant, BytesAreOwned, Crash
    PROVE  BytesAreOwned'
<1> SUFFICES ASSUME NEW v \in Versions, v \notin lost', objects'[v] # Nobody
             PROVE  Owned(v)'
  BY OwnedIsOwned DEF BytesAreOwned, Owned, Current, Arriving, Replaced
<1>1. Owned(v) /\ v # None
  BY OwnedIsOwned DEF Crash, Versions, None
<1>2. ~Replaced(v) /\ v \notin doomed
  BY <1>1 DEF Crash, Replaced
<1>3. ~Arriving(v)
  <2>1. SUFFICES ASSUME Arriving(v) PROVE FALSE
    OBVIOUS
  <2>2. gate \in Puts /\ put[gate].upload.version = v
    BY <2>1, InvariantOf DEF Arriving
  <2> QED BY <2>2 DEF Crash
<1> QED BY <1>1, <1>2, <1>3 DEF Owned, Current, Live, Crash

LEMMA WriteKeepsOwners ==
    ASSUME Invariant, BytesAreOwned, NEW r \in Puts, Write(r) \/ WriteFails(r)
    PROVE  BytesAreOwned'
<1> DEFINE w == put[r].upload.version
<1>1. /\ gate = r /\ r # Nobody /\ ~At(r, "tidy")
      /\ UNCHANGED <<files, gate, doomed, lost>>
      /\ objects' = objects \/ objects' = [objects EXCEPT ![w] = r]
  BY InvariantOf DEF Write, WriteFails, At, GateIsOpen, InGate, Sound
<1>2. put'[r].upload = put[r].upload /\ \A b \in Puts : b # r => put'[b] = put[b]
  BY InvariantOf DEF Write, WriteFails, Goes, PutStates
<1> SUFFICES ASSUME NEW v \in Versions, v \notin lost', objects'[v] # Nobody
             PROVE  Owned(v)'
  BY OwnedIsOwned DEF BytesAreOwned, Owned, Current, Arriving, Replaced
<1>3. CASE v = w
  BY <1>1, <1>2, <1>3 DEF Owned, Arriving
<1>4. CASE v # w
  <2>1. Owned(v) /\ ~Arriving(v)
    BY <1>1, <1>4, OwnedIsOwned, InvariantOf DEF Arriving
  <2> QED BY <1>1, <1>2, <2>1 DEF Owned, Current, Live, Replaced, At
<1> QED BY <1>3, <1>4

LEMMA OwnersStep ==
    ASSUME Invariant, SeesCurrent, BytesAreOwned, Next
    PROVE  BytesAreOwned'
<1>0. \A r, b \in Puts : \A q : Goes(r, q) /\ b # r => put'[b] = put[b]
  BY InvariantOf DEF Goes
<1>1. CASE Resolve \/ Prepare \/ (\E f \in Files : CreatePublicUrl(f))
           \/ (\E l \in urls : RevokePublicUrl(l))
  BY <1>1, OwnersStay DEF Resolve, Prepare, CreatePublicUrl, RevokePublicUrl, Sound
<1>2. ASSUME NEW r \in Puts,
             Select(r) \/ SelectPrevious(r) \/ Refused(r) \/ Begin(r) \/ Superseded(r)
      PROVE  BytesAreOwned'
  <2>1. put[r].pc \in {"new", "previous", "begin"} /\ UNCHANGED <<files, objects, doomed, lost>>
        /\ (gate' = gate \/ gate = Nobody) /\ \E q : Goes(r, q)
    BY <1>2 DEF Select, SelectPrevious, Refused, Begin, Superseded, At, Free, Sound
  <2>2. r # gate
    BY <2>1, InvariantOf DEF GateIsOpen, InGate
  <2> QED BY <1>0, <2>1, <2>2, OwnersStay DEF At
<1>3. ASSUME NEW r \in Puts, StatementFails(r) PROVE BytesAreOwned'
  <2>1. At(r, "commit") /\ Goes(r, [put[r] EXCEPT !.pc = "undo"])
        /\ UNCHANGED <<files, objects, doomed, lost, gate>>
    BY <1>3 DEF StatementFails
  <2>2. put'[r].upload = put[r].upload /\ \A b \in Puts : b # r => put'[b] = put[b]
    BY <2>1, InvariantOf DEF Goes, PutStates
  <2> QED BY <2>1, <2>2, OwnersStay DEF At
<1>4. ASSUME NEW r \in Puts, Undo(r) PROVE BytesAreOwned'
  BY <1>4, GivenUp, InvariantOf DEF Undo, At, GateIsOpen, InGate, Sound
<1>5. ASSUME NEW r \in Puts, Commit(r) PROVE BytesAreOwned'
  BY <1>5, PublishedIsOwned DEF Commit, Sound
<1>6. ASSUME NEW r \in Puts, CommitFails(r) PROVE BytesAreOwned'
  <2>1. CASE Completes(r) /\ lost' = lost \union ({put[r].previous} \ {None})
    BY <1>6, <2>1, PublishedIsOwned DEF CommitFails
  <2>2. CASE UNCHANGED <<uploads, files, urls>> /\ lost' = lost \union {put[r].upload.version}
    BY <1>6, <2>2, GivenUp, InvariantOf DEF CommitFails, At, GateIsOpen, InGate
  <2> QED BY <1>6, <2>1, <2>2 DEF CommitFails
<1> QED BY <1>1, <1>2, <1>3, <1>4, <1>5, <1>6, WriteKeepsOwners, TidyKeepsOwners,
           DeletionsKeepOwners, CrashKeepsOwners DEF Next, PutStep

LEMMA OwnersInit ==
    ASSUME Init, NEW path
    PROVE  OwnedBytes /\ AllFor(path)
<1>1. \A r \in Puts : put[r].pc = "new"
  BY DEF Init
<1>2. SeesCurrent /\ BytesAreOwned
  BY <1>1 DEF Init, SeesCurrent, Seeing, BytesAreOwned
<1>3. AllFor(path)
  BY DEF Init, AllFor, Live
<1> QED BY <1>2, <1>3, InitIsSound DEF OwnedBytes

LEMMA OwnersNext ==
    ASSUME OwnedBytes, NEW path, AllFor(path), Next, prepare'.on => prepare'.path = path
    PROVE  OwnedBytes' /\ AllFor(path)'
BY NextKeeps, SeesStep, OwnersStep, PathsStay DEF OwnedBytes

LEMMA OwnersRest ==
    ASSUME OwnedBytes, NEW path, AllFor(path), UNCHANGED vars
    PROVE  OwnedBytes' /\ AllFor(path)'
<1>1. SeesCurrent'
  BY InvariantOf, SightStays, VersionsAreNumbers DEF OwnedBytes, vars
<1>2. BytesAreOwned'
  BY OwnersStay DEF OwnedBytes, vars
<1>3. AllFor(path)'
  BY DEF AllFor, vars, Live
<1> QED BY <1>1, <1>2, <1>3, StutterKeeps DEF OwnedBytes

\* Bytes that are stored under the one path there is are a live File's, or those of the PUT
\* whose transaction is open, or about to be removed; only failures leave others behind.
THEOREM BytesAlwaysHaveOwners ==
    ASSUME OnePath
    PROVE  Spec => []BytesAreOwned
<1> PICK path : \A p \in Paths : p = path
  BY DEF OnePath
<1> DEFINE I == OwnedBytes /\ AllFor(path)
<1>1. ASSUME Init PROVE I
  BY <1>1, OwnersInit
<1>2. ASSUME I, [Next]_vars PROVE I'
  <2>1. CASE Next
    <3>1. prepare'.on => prepare'.path \in Paths \/ prepare' = prepare
      <4>1. prepare \in PrepareStates
        BY <1>2, InvariantOf DEF OwnedBytes
      <4>2. CASE Resolve
        BY <1>2, <4>2, InvariantOf DEF Resolve, OwnedBytes, Invariant, FilesAreApart
      <4>3. CASE Prepare \/ Crash
        <5>1. prepare' = [prepare EXCEPT !.on = FALSE]
          BY <4>3 DEF Prepare, Crash
        <5> QED BY <4>1, <5>1 DEF PrepareStates
      <4>4. CASE ~Resolve /\ ~Prepare /\ ~Crash
        BY <2>1, <4>4 DEF Next, PutStep, Select, SelectPrevious, Refused, Begin, Superseded, Write, Undo, Commit,
                          Tidy, WriteFails, StatementFails, CommitFails, Delete, CreatePublicUrl, RemoveBytes,
                          RevokePublicUrl
      <4> QED BY <4>2, <4>3, <4>4
    <3>2. prepare'.on => prepare'.path = path
      BY <1>2, <3>1 DEF AllFor
    <3> QED BY <1>2, <2>1, <3>2, OwnersNext
  <2>2. CASE UNCHANGED vars
    BY <1>2, <2>2, OwnersRest
  <2> QED BY <1>2, <2>1, <2>2
<1>3. ASSUME I PROVE BytesAreOwned
  BY <1>3 DEF OwnedBytes
<1> QED BY <1>1, <1>2, <1>3, PTL DEF Spec
-----------------------------------------------------------------------------
(* The audit outbox: the inductive invariant                               *)

Workers(k) ==
  [pc : {"off", "idle", "recover", "select", "claim", "emit", "deliver", "release", "prune", "refresh",
         "answer"},
   batch : SUBSET k.claims, at : k.claims \union {Nobody}, recover : BOOLEAN,
   wake : {"none", "soon", "later"}, timer : {"none", "soon", "later"}]

OutboxTyped(k) ==
  /\ out \in [k.claims -> [state : {"none", "pending", "delivering", "delivered", "pruned"},
                           token : k.runtimes \union {Nobody}]]
  /\ order \in Seq(k.claims) /\ ripe \in 0..Len(order)
  /\ emitted \in [k.claims -> Nat] /\ run \in [k.runtimes -> Workers(k)]
  /\ faults \in Nat /\ crashes \in Nat

\* A claim in delivery is some runtime's, one in hand is a claim, who recovers is to, and the
\* rows that await pruning are delivered, each once.
RowsAreInOrder(k) ==
  /\ \A c \in k.claims : out[c].state = "delivering" => out[c].token \in k.runtimes
  /\ \A r \in k.runtimes : run[r].pc \in {"claim", "emit", "deliver", "release"} => run[r].at \in k.claims
  /\ \A r \in k.runtimes : run[r].pc = "recover" => run[r].recover
  /\ \A i \in 1..Len(order) : out[order[i]].state = "delivered"
  /\ \A i, j \in 1..Len(order) : order[i] = order[j] => i = j

\* The event is in the log before the row is acknowledged.
LoggedFirst(k) ==
  /\ \A c \in k.claims : out[c].state \in {"delivered", "pruned"} => emitted[c] > 0
  /\ \A r \in k.runtimes : run[r].pc = "deliver" => emitted[run[r].at] > 0

\* Nothing is left alone, where statements are answered in order and none is lost: somebody
\* looks at a pending intent, and one in delivery is in hand or is to be recovered.
Recovers(w) == w.recover \/ w.pc = "off"
Hands(w, c) == w.at = c /\ w.pc \in {"emit", "deliver", "release"}
Ordered(k) == k.oneWire /\ ~k.losesClaims /\ ~k.losesCommits
Wakeful(w) == w.pc # "idle" \/ w.timer = "soon"
Handed(k, c) == Hands(run[out[c].token], c) \/ \E r \in k.runtimes : Recovers(run[r])

PendingWatched(k) ==
  (\E c \in k.claims : out[c].state = "pending") => \E r \in k.runtimes : Wakeful(run[r])
DeliveringWatched(k) == \A c \in k.claims : out[c].state = "delivering" => Handed(k, c)

IntentsWatched(k) ==
  Ordered(k) => /\ \A r \in k.runtimes : run[r].pc # "answer"
                /\ PendingWatched(k) /\ DeliveringWatched(k)

\* What may still log the event of a claim: a runtime that is about to, or to give the claim
\* back after a failure; one that is to recover, or to be started; the claim itself while it waits.
Emits(w, c) == w.pc \in {"emit", "release"} /\ w.at = c
Emitting(k, c) == {r \in k.runtimes : Emits(run[r], c)}
Recovering(k) == {r \in k.runtimes : Recovers(run[r])}
Waits(c) == IF out[c].state \in {"none", "pending"} THEN 1 ELSE 0
Owed(k, c) == Cardinality(Emitting(k, c)) + Cardinality(Recovering(k)) + Waits(c)

\* Until a runtime has started there is nothing in the outbox; the first has nothing to recover.
NeverStarted(k) == crashes = 0 /\ \A r \in k.runtimes : run[r].pc = "off"
NothingYet(k) == NeverStarted(k) => \A c \in k.claims : out[c].state = "none" /\ emitted[c] = 0

RepeatsPaid(k) ==
  \A c \in k.claims :
    emitted[c] + Owed(k, c)
      <= faults + crashes + Cardinality(k.runtimes) + (IF NeverStarted(k) THEN 1 ELSE 0)

OutboxSound(k) == OutboxTyped(k) /\ RowsAreInOrder(k) /\ LoggedFirst(k)

OutboxInvariant(k) == OutboxSound(k) /\ IntentsWatched(k) /\ NothingYet(k) /\ RepeatsPaid(k)

-----------------------------------------------------------------------------
(* Steps of one runtime                                                    *)

Row(k) == [state : {"none", "pending", "delivering", "delivered", "pruned"}, token : k.runtimes \union {Nobody}]

LEMMA DrainsWell ==
    ASSUME NEW k, NEW w \in Workers(k), NEW d, d = Outbox(k)!Drains(w)
    PROVE  /\ d \in Workers(k)
           /\ d.at = w.at /\ d.recover = w.recover /\ d.timer = w.timer /\ d.wake = w.wake
           /\ d.pc = w.pc \/ (w.pc = "idle" /\ d.pc \in {"recover", "select"})
           /\ d.pc # "idle" /\ (w.pc = "idle" /\ d.pc = "recover" => d.recover)
BY DEF Outbox!Drains, Workers

LEMMA NextOfWell ==
    ASSUME NEW k, NEW w \in Workers(k), NEW d, d \in Outbox(k)!NextOf(w)
    PROVE  /\ d \in Workers(k)
           /\ d.recover = w.recover /\ d.timer = w.timer /\ d.wake = w.wake
           /\ d.pc \in {"prune", "claim"} /\ (d.pc = "claim" => d.at \in k.claims)
<1>1. CASE w.batch = {}
  <2>1. d = [w EXCEPT !.pc = "prune", !.at = Nobody]
    BY <1>1 DEF Outbox!NextOf
  <2> QED BY <2>1 DEF Workers
<1>2. CASE w.batch # {}
  <2>1. PICK c \in w.batch : d = [w EXCEPT !.pc = "claim", !.at = c, !.batch = @ \ {c}]
    BY <1>2 DEF Outbox!NextOf
  <2> QED BY <2>1 DEF Workers
<1> QED BY <1>1, <1>2

\* What a step of runtime r leaves alone, when its worker becomes w.
Steps(k, r, w) == r \in k.runtimes /\ w \in Workers(k) /\ run' = [run EXCEPT ![r] = w]

LEMMA OthersStay ==
    ASSUME NEW k, OutboxTyped(k), NEW r, NEW w, Steps(k, r, w)
    PROVE  /\ run'[r] = w /\ run' \in [k.runtimes -> Workers(k)]
           /\ \A s \in k.runtimes : s # r => run'[s] = run[s]
BY DEF OutboxTyped, Steps

\* A claim that moves on without having been delivered.
RowMoves(k, c) ==
  \/ out'[c] = out[c]
  \/ out[c].state \in {"none", "pending", "delivering"} /\ out'[c].state = "pending"
  \/ out[c].state = "pending" /\ out'[c].state = "delivering" /\ out'[c].token \in k.runtimes

\* Events are only added to the log.
Logs(k) == emitted' \in [k.claims -> Nat] /\ \A c \in k.claims : emitted[c] <= emitted'[c]

LEMMA SoundStep ==
    ASSUME NEW k, OutboxSound(k), NEW r, NEW w, Steps(k, r, w), UNCHANGED <<order, ripe>>, Logs(k),
           out' \in [k.claims -> Row(k)], \A c \in k.claims : RowMoves(k, c),
           w.pc \in {"claim", "emit", "deliver", "release"} => w.at \in k.claims,
           w.pc = "recover" => w.recover, w.pc = "deliver" => emitted'[w.at] > 0, faults' \in Nat, crashes' \in Nat
    PROVE  OutboxSound(k)'
<1>1. OutboxTyped(k)'
  BY OthersStay DEF OutboxSound, OutboxTyped, Row, Logs
<1>2. RowsAreInOrder(k)'
  <2>1. \A c \in k.claims : out'[c].state = "delivering" => out'[c].token \in k.runtimes
    BY DEF RowMoves, OutboxSound, RowsAreInOrder
  <2>2. ASSUME NEW i \in 1..Len(order) PROVE out'[order[i]].state = "delivered"
    <3>1. order[i] \in k.claims
      BY ElementOfSeq DEF OutboxSound, OutboxTyped
    <3>2. out[order[i]].state = "delivered"
      BY DEF OutboxSound, RowsAreInOrder
    <3> QED BY <3>1, <3>2 DEF RowMoves
  <2>3. \A s \in k.runtimes : run'[s].pc \in {"claim", "emit", "deliver", "release"} => run'[s].at \in k.claims
    BY OthersStay DEF OutboxSound, RowsAreInOrder
  <2>4. \A s \in k.runtimes : run'[s].pc = "recover" => run'[s].recover
    BY OthersStay DEF OutboxSound, RowsAreInOrder
  <2> QED BY <2>1, <2>2, <2>3, <2>4 DEF OutboxSound, RowsAreInOrder
<1>3. LoggedFirst(k)'
  <2>1. \A c \in k.claims : emitted[c] > 0 => emitted'[c] > 0
    BY DEF Logs, OutboxSound, OutboxTyped
  <2>2. \A c \in k.claims : out'[c].state \in {"delivered", "pruned"} => emitted'[c] > 0
    BY <2>1 DEF RowMoves, OutboxSound, LoggedFirst
  <2>3. ASSUME NEW s \in k.runtimes, run'[s].pc = "deliver" PROVE emitted'[run'[s].at] > 0
    <3>1. CASE s = r
      BY <2>3, <3>1, OthersStay DEF OutboxSound
    <3>2. CASE s # r
      <4>1. run'[s] = run[s]
        BY <3>2, OthersStay DEF OutboxSound
      <4>2. run[s].at \in k.claims /\ emitted[run[s].at] > 0
        BY <2>3, <4>1 DEF OutboxSound, RowsAreInOrder, LoggedFirst
      <4> QED BY <2>1, <4>1, <4>2
    <3> QED BY <3>1, <3>2
  <2> QED BY <2>2, <2>3 DEF LoggedFirst
<1> QED BY <1>1, <1>2, <1>3 DEF OutboxSound

\* Nothing is left alone by a runtime that has more to do, or will wake, and that hands the
\* claims in delivery on.
HandsOn(k, r, w) ==
  /\ w.pc # "answer"
  /\ (\E c \in k.claims : out'[c].state = "pending") => Wakeful(w)
  /\ \A c \in k.claims : out'[c].state = "delivering" =>
       \/ Recovers(w)
       \/ out'[c].token = r /\ Hands(w, c)
       \/ out'[c] = out[c] /\ ~Recovers(run[r]) /\ ~(out[c].token = r /\ Hands(run[r], c))

LEMMA WatchedStep ==
    ASSUME NEW k, OutboxTyped(k), RowsAreInOrder(k), IntentsWatched(k), NEW r, NEW w, Steps(k, r, w),
           \A c \in k.claims : out'[c].state = "delivering" => out'[c].token \in k.runtimes,
           Ordered(k) => HandsOn(k, r, w)
    PROVE  IntentsWatched(k)'
<1> SUFFICES ASSUME Ordered(k)
             PROVE  /\ \A s \in k.runtimes : run'[s].pc # "answer"
                    /\ PendingWatched(k)' /\ DeliveringWatched(k)'
  BY DEF IntentsWatched, Ordered
<1>1. r \in k.runtimes
  BY DEF Steps
<1>2. \A s \in k.runtimes : run'[s].pc # "answer"
  BY OthersStay DEF IntentsWatched, HandsOn
<1>3. ASSUME NEW c \in k.claims, out'[c].state = "delivering"
      PROVE  Hands(run'[out'[c].token], c) \/ \E s \in k.runtimes : Recovers(run'[s])
  <2>1. CASE Recovers(w)
    BY <1>1, <2>1, OthersStay
  <2>2. CASE out'[c].token = r /\ Hands(w, c)
    BY <2>2, OthersStay
  <2>3. CASE out'[c] = out[c] /\ ~Recovers(run[r]) /\ ~(out[c].token = r /\ Hands(run[r], c))
    <3>1. Hands(run[out[c].token], c) \/ \E s \in k.runtimes : Recovers(run[s])
      BY <1>3, <2>3 DEF IntentsWatched, DeliveringWatched, Handed
    <3>2. out[c].token \in k.runtimes
      BY <1>3, <2>3
    <3> QED BY <2>3, <3>1, <3>2, OthersStay
  <2> QED BY <1>3, <2>1, <2>2, <2>3 DEF HandsOn
<1>4. DeliveringWatched(k)'
  BY <1>3 DEF DeliveringWatched, Handed, Hands, Recovers
<1>5. PendingWatched(k)'
  BY <1>1, OthersStay DEF PendingWatched, HandsOn, Wakeful
<1> QED BY <1>2, <1>4, <1>5

\* Sets that differ in one element at most.
LEMMA OneElementMoves ==
    ASSUME NEW S, NEW T, IsFiniteSet(S), IsFiniteSet(T), NEW r, S \ {r} = T \ {r}
    PROVE  /\ Cardinality(S) \in Nat /\ Cardinality(T) \in Nat
           /\ Cardinality(T) + (IF r \in S THEN 1 ELSE 0) = Cardinality(S) + (IF r \in T THEN 1 ELSE 0)
<1> DEFINE size(X) == Cardinality(X)
<1>1. size(S) \in Nat /\ size(T) \in Nat
  BY FS_CardinalityType
<1>2. /\ size(S \ {r}) = IF r \in S THEN size(S) - 1 ELSE size(S)
      /\ size(T \ {r}) = IF r \in T THEN size(T) - 1 ELSE size(T)
  BY FS_RemoveElement
<1>3. size(S \ {r}) = size(T \ {r})
  OBVIOUS
<1> HIDE DEF size
<1>4. size(T) + (IF r \in S THEN 1 ELSE 0) = size(S) + (IF r \in T THEN 1 ELSE 0)
  BY <1>1, <1>2, <1>3
<1> QED BY <1>1, <1>4 DEF size

\* What a runtime may still log of a claim.
Charge(w, c) == (IF Emits(w, c) THEN 1 ELSE 0) + (IF Recovers(w) THEN 1 ELSE 0)

LEMMA PaidStep ==
    ASSUME NEW k, IsFiniteSet(k.runtimes), OutboxTyped(k), OutboxTyped(k)', RepeatsPaid(k),
           NEW r, NEW w, Steps(k, r, w),
           \A c \in k.claims :
             emitted'[c] + Charge(w, c) + Waits(c)' + faults + crashes + (IF NeverStarted(k) THEN 1 ELSE 0)
               <= emitted[c] + Charge(run[r], c) + Waits(c) + faults' + crashes'
    PROVE  RepeatsPaid(k)'
<1>1. r \in k.runtimes /\ run'[r] = w
  BY OthersStay DEF Steps
<1> SUFFICES ASSUME NEW c \in k.claims
             PROVE  emitted'[c] + Owed(k, c)'
                      <= faults' + crashes' + Cardinality(k.runtimes)
                           + (IF NeverStarted(k)' THEN 1 ELSE 0)
  BY DEF RepeatsPaid
<1> DEFINE e == Cardinality(Emitting(k, c)) f == Cardinality(Emitting(k, c)')
           g == Cardinality(Recovering(k)) h == Cardinality(Recovering(k)')
           n == Cardinality(k.runtimes)
<1>2. /\ IsFiniteSet(Emitting(k, c)) /\ IsFiniteSet(Emitting(k, c)')
      /\ IsFiniteSet(Recovering(k)) /\ IsFiniteSet(Recovering(k)')
  BY FS_Subset DEF Emitting, Recovering
<1>3. /\ r \in Emitting(k, c) <=> Emits(run[r], c)
      /\ r \in Emitting(k, c)' <=> Emits(w, c)
      /\ r \in Recovering(k) <=> Recovers(run[r])
      /\ r \in Recovering(k)' <=> Recovers(w)
  BY <1>1 DEF Emitting, Recovering, Emits, Recovers
<1>4. Emitting(k, c) \ {r} = Emitting(k, c)' \ {r}
  BY OthersStay DEF Emitting, Emits
<1>5. Recovering(k) \ {r} = Recovering(k)' \ {r}
  BY OthersStay DEF Recovering, Recovers
<1>6. /\ e \in Nat /\ f \in Nat
      /\ f + (IF Emits(run[r], c) THEN 1 ELSE 0) = e + (IF Emits(w, c) THEN 1 ELSE 0)
  BY <1>2, <1>3, <1>4, OneElementMoves
<1>7. /\ g \in Nat /\ h \in Nat
      /\ h + (IF Recovers(run[r]) THEN 1 ELSE 0) = g + (IF Recovers(w) THEN 1 ELSE 0)
  BY <1>2, <1>3, <1>5, OneElementMoves
<1>8. n \in Nat
  BY FS_CardinalityType
<1>9. /\ emitted[c] \in Nat /\ emitted'[c] \in Nat /\ Waits(c) \in Nat /\ Waits(c)' \in Nat
      /\ faults \in Nat /\ crashes \in Nat /\ faults' \in Nat /\ crashes' \in Nat
  BY DEF OutboxTyped, Waits
<1>10. emitted[c] + (e + g + Waits(c)) <= faults + crashes + n + (IF NeverStarted(k) THEN 1 ELSE 0)
  BY DEF RepeatsPaid, Owed
<1>11. emitted'[c] + Charge(w, c) + Waits(c)' + faults + crashes + (IF NeverStarted(k) THEN 1 ELSE 0)
         <= emitted[c] + Charge(run[r], c) + Waits(c) + faults' + crashes'
  OBVIOUS
<1>12. Owed(k, c)' = f + h + Waits(c)'
  BY DEF Owed
<1> DEFINE before == emitted[c] after == emitted'[c] wait == Waits(c) waits == Waits(c)'
           one == IF NeverStarted(k) THEN 1 ELSE 0
           emits == IF Emits(run[r], c) THEN 1 ELSE 0 emit == IF Emits(w, c) THEN 1 ELSE 0
           heals == IF Recovers(run[r]) THEN 1 ELSE 0 heal == IF Recovers(w) THEN 1 ELSE 0
<1>13. /\ one \in Nat /\ emits \in Nat /\ emit \in Nat /\ heals \in Nat /\ heal \in Nat
       /\ f + emits = e + emit /\ h + heals = g + heal
       /\ after + (emit + heal) + waits + faults + crashes + one
            <= before + (emits + heals) + wait + faults' + crashes'
       /\ before + (e + g + wait) <= faults + crashes + n + one
       /\ before \in Nat /\ after \in Nat /\ wait \in Nat /\ waits \in Nat
  BY <1>6, <1>7, <1>9, <1>10, <1>11 DEF Charge
<1> HIDE DEF e, f, g, h, n, before, after, wait, waits, one, emits, emit, heals, heal
<1>14. after + (f + h + waits) <= faults' + crashes' + n
  BY <1>6, <1>7, <1>8, <1>9, <1>13
<1>15. after + (f + h + waits) <= faults' + crashes' + n + (IF NeverStarted(k)' THEN 1 ELSE 0)
  BY <1>6, <1>7, <1>8, <1>9, <1>13, <1>14
<1> QED BY <1>12, <1>15 DEF n, after, waits

LEMMA NothingYetStep ==
    ASSUME NEW k, OutboxTyped(k), crashes' \in Nat, NEW r, NEW w, Steps(k, r, w), w.pc # "off" \/ crashes' # 0
    PROVE  NothingYet(k)'
BY OthersStay DEF NothingYet, NeverStarted, Steps

-----------------------------------------------------------------------------
(* The audit outbox: one lemma per action                                  *)

OutboxConstants(k) == Nobody \notin k.runtimes \union k.claims /\ IsFiniteSet(k.runtimes)

\* A step of a runtime that costs no more than it pays for.
Pays(k, r, w) ==
  \A c \in k.claims :
    emitted'[c] + Charge(w, c) + Waits(c)' + faults + crashes + (IF NeverStarted(k) THEN 1 ELSE 0)
      <= emitted[c] + Charge(run[r], c) + Waits(c) + faults' + crashes'

Valid(k, w) ==
  /\ w.pc \in {"claim", "emit", "deliver", "release"} => w.at \in k.claims
  /\ w.pc = "recover" => w.recover
  /\ w.pc = "deliver" => emitted'[w.at] > 0

LEMMA FromSound ==
    ASSUME NEW k, OutboxConstants(k), OutboxInvariant(k), NEW r, NEW w, Steps(k, r, w), OutboxSound(k)',
           Ordered(k) => HandsOn(k, r, w), Pays(k, r, w), w.pc # "off" \/ crashes' # 0
    PROVE  OutboxInvariant(k)'
<1>1. IntentsWatched(k)'
  BY WatchedStep DEF OutboxInvariant, OutboxSound, RowsAreInOrder
<1>2. NothingYet(k)'
  BY NothingYetStep DEF OutboxInvariant, OutboxSound, OutboxTyped
<1>3. RepeatsPaid(k)'
  BY PaidStep DEF OutboxInvariant, OutboxSound, OutboxConstants, Pays
<1> QED BY <1>1, <1>2, <1>3 DEF OutboxInvariant

\* A step that delivers and prunes nothing.
LEMMA EventsMove ==
    ASSUME NEW k, OutboxConstants(k), OutboxInvariant(k), NEW r, NEW w, Steps(k, r, w),
           UNCHANGED <<order, ripe>>, Logs(k), faults' \in Nat, crashes' \in Nat,
           out' \in [k.claims -> Row(k)], \A c \in k.claims : RowMoves(k, c),
           Valid(k, w), Ordered(k) => HandsOn(k, r, w), Pays(k, r, w), w.pc # "off" \/ crashes' # 0
    PROVE  OutboxInvariant(k)'
<1>1. OutboxSound(k)'
  BY SoundStep DEF OutboxInvariant, Valid
<1> QED BY <1>1, FromSound

LEMMA RowsMove ==
    ASSUME NEW k, OutboxConstants(k), OutboxInvariant(k), NEW r, NEW w, Steps(k, r, w),
           UNCHANGED <<order, ripe, emitted>>, faults' \in Nat, crashes' \in Nat,
           out' \in [k.claims -> Row(k)], \A c \in k.claims : RowMoves(k, c),
           Valid(k, w), Ordered(k) => HandsOn(k, r, w), Pays(k, r, w), w.pc # "off" \/ crashes' # 0
    PROVE  OutboxInvariant(k)'
<1>1. Logs(k)
  <2>1. emitted' = emitted /\ emitted \in [k.claims -> Nat]
    BY DEF OutboxInvariant, OutboxSound, OutboxTyped
  <2>2. \A c \in k.claims : emitted[c] <= emitted'[c]
    BY <2>1
  <2> QED BY <2>1, <2>2 DEF Logs
<1> QED BY <1>1, EventsMove

\* The same where no row changes but for what a runtime does, and faults and crashes may be counted.
LEMMA RowsStay ==
    ASSUME NEW k, OutboxConstants(k), OutboxInvariant(k), NEW r, NEW w, Steps(k, r, w),
           UNCHANGED <<out, order, ripe, emitted>>, faults' \in Nat, crashes' \in Nat,
           Valid(k, w), Ordered(k) => HandsOn(k, r, w), Pays(k, r, w), w.pc # "off" \/ crashes' # 0
    PROVE  OutboxInvariant(k)'
<1>1. out' \in [k.claims -> Row(k)]
  BY DEF OutboxInvariant, OutboxSound, OutboxTyped, Row
<1>2. \A c \in k.claims : RowMoves(k, c)
  BY DEF RowMoves
<1> QED BY <1>1, <1>2, RowsMove

LEMMA WorkerWell ==
    ASSUME NEW k, OutboxInvariant(k), NEW r \in k.runtimes
    PROVE  /\ run[r] \in Workers(k)
           /\ run[r].pc # "off" => ~NeverStarted(k)
           /\ Ordered(k) => run[r].pc # "answer"
           /\ run[r].pc \in {"claim", "emit", "deliver", "release"} => run[r].at \in k.claims
           /\ run[r].pc = "recover" => run[r].recover
           /\ run[r].pc = "deliver" => emitted[run[r].at] > 0
           /\ faults \in Nat /\ crashes \in Nat /\ \A c \in k.claims : emitted[c] \in Nat
BY DEF OutboxInvariant, OutboxSound, OutboxTyped, NeverStarted, IntentsWatched, RowsAreInOrder, LoggedFirst

LEMMA CommitKeepsOutbox ==
    ASSUME NEW k, OutboxConstants(k), OutboxInvariant(k), NEW r \in k.runtimes, NEW c \in k.claims,
           Outbox(k)!Commit(r, c)
    PROVE  OutboxInvariant(k)'
<1> DEFINE w == Outbox(k)!Drains(run[r])
<1>1. /\ run[r].pc # "off" /\ out[c].state = "none" /\ run' = [run EXCEPT ![r] = w]
      /\ out' = [out EXCEPT ![c] = [state |-> "pending", token |-> Nobody]]
      /\ UNCHANGED <<order, ripe, emitted, faults, crashes>>
  BY DEF Outbox!Commit, Outbox!Inserts, Outbox!Sets, Outbox!Row, Outbox!Goes, Outbox!At
<1>2. run[r] \in Workers(k) /\ ~NeverStarted(k)
  BY <1>1, WorkerWell
<1>3. /\ w \in Workers(k) /\ w.at = run[r].at /\ w.recover = run[r].recover /\ w.timer = run[r].timer
      /\ w.pc = run[r].pc \/ (run[r].pc = "idle" /\ w.pc \in {"recover", "select"})
      /\ w.pc # "idle" /\ (run[r].pc = "idle" /\ w.pc = "recover" => w.recover)
  BY <1>2, DrainsWell
<1> HIDE DEF w
<1>4. Steps(k, r, w)
  BY <1>1, <1>3 DEF Steps
<1>5. out' \in [k.claims -> Row(k)] /\ out'[c].state = "pending" /\ \A d \in k.claims : d # c => out'[d] = out[d]
  BY <1>1 DEF OutboxInvariant, OutboxSound, OutboxTyped, Row
<1>6. \A d \in k.claims : RowMoves(k, d)
  BY <1>1, <1>5 DEF RowMoves
<1>7. Valid(k, w)
  BY <1>1, <1>3, WorkerWell DEF Valid
<1>8. Ordered(k) => HandsOn(k, r, w)
  BY <1>1, <1>3, <1>5, WorkerWell DEF HandsOn, Wakeful, Recovers, Hands
<1>9. ASSUME NEW d \in k.claims
      PROVE  Charge(w, d) = Charge(run[r], d) /\ Waits(d)' = Waits(d)
  BY <1>1, <1>3, <1>5 DEF Charge, Emits, Recovers, Waits
<1>10. Pays(k, r, w)
  <2> SUFFICES ASSUME NEW d \in k.claims
               PROVE  emitted[d] + Charge(run[r], d) + Waits(d) + faults + crashes + 0
                        <= emitted[d] + Charge(run[r], d) + Waits(d) + faults + crashes
    BY <1>1, <1>2, <1>9 DEF Pays
  <2> QED BY WorkerWell DEF Charge, Waits
<1> QED BY <1>1, <1>3, <1>4, <1>5, <1>6, <1>7, <1>8, <1>10, RowsMove, WorkerWell

\* A runtime is already started, and the faults and crashes pay for what a claim costs.
LEMMA PaidFor ==
    ASSUME NEW k, OutboxInvariant(k), NEW r \in k.runtimes, NEW w, run[r].pc # "off", NEW n \in Nat,
           faults' + crashes' = faults + crashes + n, faults' \in Nat, crashes' \in Nat,
           emitted' \in [k.claims -> Nat],
           \A c \in k.claims :
             emitted'[c] + Charge(w, c) + Waits(c)' <= emitted[c] + Charge(run[r], c) + Waits(c) + n
    PROVE  Pays(k, r, w)
<1> SUFFICES ASSUME NEW c \in k.claims
             PROVE  emitted'[c] + Charge(w, c) + Waits(c)' + faults + crashes + 0
                      <= emitted[c] + Charge(run[r], c) + Waits(c) + faults' + crashes'
  BY WorkerWell DEF Pays
<1> DEFINE before == emitted[c] + Charge(run[r], c) + Waits(c)
           after == emitted'[c] + Charge(w, c) + Waits(c)'
<1>1. before \in Nat /\ after \in Nat /\ after <= before + n
  BY WorkerWell DEF Charge, Waits
<1>2. faults \in Nat /\ crashes \in Nat
  BY WorkerWell
<1> HIDE DEF before, after
<1>3. after + faults + crashes + 0 <= before + faults' + crashes'
  BY <1>1, <1>2
<1> QED BY <1>3 DEF before, after

LEMMA CommitUnansweredKeepsOutbox ==
    ASSUME NEW k, OutboxConstants(k), OutboxInvariant(k), NEW r \in k.runtimes, NEW c \in k.claims,
           Outbox(k)!CommitUnanswered(r, c)
    PROVE  OutboxInvariant(k)'
<1>1. /\ k.losesCommits /\ run[r].pc # "off" /\ out[c].state = "none" /\ run' = run
      /\ out' = [out EXCEPT ![c] = [state |-> "pending", token |-> Nobody]]
      /\ faults' = faults + 1 /\ UNCHANGED <<order, ripe, emitted, crashes>>
  BY DEF Outbox!CommitUnanswered, Outbox!Inserts, Outbox!Sets, Outbox!Row, Outbox!Faulty, Outbox!At
<1>2. run[r] \in Workers(k) /\ faults' \in Nat /\ crashes' \in Nat
  BY <1>1, WorkerWell
<1>3. Steps(k, r, run[r])
  BY <1>1, <1>2 DEF Steps, OutboxInvariant, OutboxSound, OutboxTyped
<1>4. out' \in [k.claims -> Row(k)] /\ out'[c].state = "pending" /\ \A d \in k.claims : d # c => out'[d] = out[d]
  BY <1>1 DEF OutboxInvariant, OutboxSound, OutboxTyped, Row
<1>5. \A d \in k.claims : RowMoves(k, d)
  BY <1>1, <1>4 DEF RowMoves
<1>6. Valid(k, run[r])
  BY <1>1, WorkerWell DEF Valid
<1>7. ASSUME NEW d \in k.claims
      PROVE  Waits(d)' = Waits(d)
  BY <1>1, <1>4 DEF Waits
<1>8. \A d \in k.claims : Waits(d) \in Nat /\ Charge(run[r], d) \in Nat /\ emitted[d] \in Nat
  BY WorkerWell DEF Charge, Waits
<1>9. Pays(k, r, run[r])
  <2>1. \A d \in k.claims :
          emitted'[d] + Charge(run[r], d) + Waits(d)' <= emitted[d] + Charge(run[r], d) + Waits(d) + 1
    BY <1>1, <1>7, <1>8
  <2>2. faults' + crashes' = faults + crashes + 1
    BY <1>1, WorkerWell
  <2> QED BY <1>1, <1>2, <2>1, <2>2, PaidFor DEF OutboxInvariant, OutboxSound, OutboxTyped
<1>10. ~Ordered(k)
  BY <1>1 DEF Ordered
<1> QED BY <1>1, <1>2, <1>3, <1>4, <1>5, <1>6, <1>9, <1>10, RowsMove

LEMMA FiresKeepsOutbox ==
    ASSUME NEW k, OutboxConstants(k), OutboxInvariant(k), NEW r \in k.runtimes, Outbox(k)!Fires(r)
    PROVE  OutboxInvariant(k)'
<1> DEFINE v == [run[r] EXCEPT !.timer = "none"] w == Outbox(k)!Drains(v)
<1>1. /\ run[r].pc # "off" /\ run' = [run EXCEPT ![r] = w]
      /\ UNCHANGED <<out, order, ripe, emitted, faults, crashes>>
  BY DEF Outbox!Fires, Outbox!Goes, Outbox!At
<1>2. run[r] \in Workers(k)
  BY WorkerWell
<1>3. /\ v \in Workers(k) /\ v.at = run[r].at /\ v.recover = run[r].recover /\ v.pc = run[r].pc
  BY <1>2 DEF Workers
<1> HIDE DEF v
<1>4. /\ w \in Workers(k) /\ w.at = run[r].at /\ w.recover = run[r].recover
      /\ w.pc = run[r].pc \/ (run[r].pc = "idle" /\ w.pc \in {"recover", "select"})
      /\ w.pc # "idle" /\ (run[r].pc = "idle" /\ w.pc = "recover" => w.recover)
  BY <1>3, DrainsWell
<1> HIDE DEF w
<1>5. Steps(k, r, w)
  BY <1>1, <1>4 DEF Steps
<1>6. Valid(k, w)
  BY <1>1, <1>4, WorkerWell DEF Valid
<1>7. Ordered(k) => HandsOn(k, r, w)
  BY <1>1, <1>4, WorkerWell DEF HandsOn, Wakeful, Recovers, Hands
<1>8. ASSUME NEW d \in k.claims
      PROVE  Charge(w, d) = Charge(run[r], d) /\ Waits(d)' = Waits(d)
  BY <1>1, <1>4 DEF Charge, Emits, Recovers, Waits
<1>9. \A d \in k.claims : Waits(d) \in Nat /\ Charge(run[r], d) \in Nat /\ emitted[d] \in Nat
  BY WorkerWell DEF Charge, Waits
<1>10. Pays(k, r, w)
  <2>1. \A d \in k.claims :
          emitted'[d] + Charge(w, d) + Waits(d)' <= emitted[d] + Charge(run[r], d) + Waits(d) + 0
    BY <1>1, <1>8, <1>9
  <2>2. faults' + crashes' = faults + crashes + 0 /\ faults' \in Nat /\ crashes' \in Nat
    BY <1>1, WorkerWell
  <2> QED BY <1>1, <2>1, <2>2, PaidFor DEF OutboxInvariant, OutboxSound, OutboxTyped
<1> QED BY <1>1, <1>4, <1>5, <1>6, <1>7, <1>10, RowsStay, WorkerWell

\* What was in delivery is pending again.
LEMMA RecoveredRows ==
    ASSUME NEW k, OutboxConstants(k), OutboxInvariant(k), NEW o, o \in {out, Outbox(k)!Recovered}
    PROVE  /\ o \in [k.claims -> Row(k)]
           /\ \A c \in k.claims :
                o[c] = out[c] \/ (out[c].state = "delivering" /\ o[c].state = "pending")
           /\ o = Outbox(k)!Recovered => \A c \in k.claims : o[c].state # "delivering"
<1>1. out \in [k.claims -> Row(k)]
  BY DEF OutboxInvariant, OutboxSound, OutboxTyped, Row
<1>2. Outbox(k)!Recovered = [c \in k.claims |-> IF out[c].state = "delivering"
                                                THEN [state |-> "pending", token |-> Nobody] ELSE out[c]]
  BY DEF Outbox!Recovered, Outbox!Row
<1>3. CASE o = out
  <2>1. \A c \in k.claims : out[c] = o[c]
    BY <1>3
  <2>2. o = Outbox(k)!Recovered => \A c \in k.claims : o[c].state # "delivering"
    BY <1>2
  <2> QED BY <1>1, <1>3, <2>1, <2>2
<1>4. CASE o = Outbox(k)!Recovered
  BY <1>1, <1>2, <1>4 DEF Row
<1> QED BY <1>3, <1>4

LEMMA RecoverKeepsOutbox ==
    ASSUME NEW k, OutboxConstants(k), OutboxInvariant(k), NEW r \in k.runtimes, Outbox(k)!Recover(r)
    PROVE  OutboxInvariant(k)'
<1> DEFINE w(recover) == [run[r] EXCEPT !.pc = "select", !.recover = recover]
<1>1. run[r] \in Workers(k) /\ run[r].pc = "recover" /\ UNCHANGED <<order, ripe, emitted, crashes>>
  BY WorkerWell DEF Outbox!Recover, Outbox!At
<1>2. PICK b \in BOOLEAN, n \in {0, 1} :
        /\ run' = [run EXCEPT ![r] = w(b)] /\ faults' = faults + n
        /\ out' \in {out, Outbox(k)!Recovered}
        /\ \/ b = FALSE /\ n = 0 /\ out' = Outbox(k)!Recovered
           \/ b = run[r].recover /\ n = 1
  <2>1. CASE /\ out' = Outbox(k)!Recovered /\ run' = [run EXCEPT ![r] = w(FALSE)] /\ faults' = faults
    <3>1. faults' = faults + 0
      BY <2>1, WorkerWell
    <3> QED BY <2>1, <3>1
  <2>2. CASE /\ out' \in {out, Outbox(k)!Recovered} /\ run' = [run EXCEPT ![r] = [run[r] EXCEPT !.pc = "select"]]
             /\ faults' = faults + 1
    <3>1. run[r].recover \in BOOLEAN /\ [run[r] EXCEPT !.pc = "select"] = w(run[r].recover)
      BY <1>1 DEF Workers
    <3> QED BY <2>2, <3>1
  <2> QED BY <2>1, <2>2 DEF Outbox!Recover, Outbox!Goes, Outbox!Faulty
<1> DEFINE x == w(b)
<1>3. x \in Workers(k) /\ x.pc = "select" /\ x.at = run[r].at /\ x.recover = b
  BY <1>1, <1>2 DEF Workers
<1>4. run' = [run EXCEPT ![r] = x]
  BY <1>2
<1> HIDE DEF x, w
<1>5. /\ out' \in [k.claims -> Row(k)]
      /\ \A c \in k.claims : out'[c] = out[c] \/ (out[c].state = "delivering" /\ out'[c].state = "pending")
      /\ out' = Outbox(k)!Recovered => \A c \in k.claims : out'[c].state # "delivering"
  BY <1>2, RecoveredRows
<1>6. Steps(k, r, x) /\ Valid(k, x) /\ \A c \in k.claims : RowMoves(k, c)
  BY <1>3, <1>4, <1>5 DEF Steps, Valid, RowMoves
<1>7. Ordered(k) => HandsOn(k, r, x)
  BY <1>1, <1>2, <1>3, <1>5 DEF HandsOn, Wakeful, Recovers, Hands
<1>8. ASSUME NEW d \in k.claims
      PROVE  emitted'[d] + Charge(x, d) + Waits(d)' <= emitted[d] + Charge(run[r], d) + Waits(d) + n
  <2>1. emitted[d] \in Nat /\ emitted'[d] = emitted[d]
    BY <1>1, WorkerWell
  <2>2. ~Emits(x, d) /\ ~Emits(run[r], d)
    BY <1>1, <1>3 DEF Emits
  <2>3. CASE b = FALSE /\ n = 0 /\ out' = Outbox(k)!Recovered
    <3>1. run[r].recover
      BY <1>1, WorkerWell
    <3>2. Charge(x, d) = 0 /\ Charge(run[r], d) = 1
      BY <1>1, <1>3, <2>2, <2>3, <3>1 DEF Charge, Recovers
    <3>3. Waits(d)' \in {0, 1} /\ Waits(d) \in {0, 1}
      BY DEF Waits
    <3> QED BY <2>1, <2>3, <3>2, <3>3
  <2>4. CASE b = run[r].recover /\ n = 1
    <3>1. Charge(x, d) = Charge(run[r], d) /\ Charge(x, d) \in Nat
      BY <1>1, <1>3, <2>2, <2>4 DEF Charge, Recovers
    <3>2. Waits(d)' \in {0, 1} /\ Waits(d) \in {0, 1}
      BY DEF Waits
    <3> QED BY <2>1, <2>4, <3>1, <3>2
  <2> QED BY <1>2, <2>3, <2>4
<1>9. faults' \in Nat /\ crashes' \in Nat /\ faults' + crashes' = faults + crashes + n
  BY <1>1, <1>2, WorkerWell
<1>10. Pays(k, r, x)
  BY <1>1, <1>2, <1>8, <1>9, PaidFor, WorkerWell DEF OutboxInvariant, OutboxSound, OutboxTyped
<1> QED BY <1>1, <1>3, <1>5, <1>6, <1>7, <1>9, <1>10, RowsMove

\* Counts of a claim are natural numbers.
LEMMA CountsAreNat ==
    ASSUME NEW k, OutboxInvariant(k), NEW w, NEW c \in k.claims
    PROVE  /\ emitted[c] \in Nat /\ Waits(c) \in {0, 1} /\ Waits(c)' \in {0, 1}
           /\ Charge(w, c) \in {0, 1, 2}
           /\ ~Emits(w, c) => Charge(w, c) = IF Recovers(w) THEN 1 ELSE 0
BY WorkerWell DEF Charge, Waits, OutboxInvariant, OutboxSound, OutboxTyped

WentOn(k, r, v, x) ==
  /\ Steps(k, r, x) /\ Valid(k, x) /\ Wakeful(x) /\ x.recover = v.recover
  /\ x.pc # "answer" /\ x.pc # "off" /\ \A c : ~Emits(x, c) /\ ~Hands(x, c)
  /\ Recovers(x) <=> v.recover

\* A runtime that goes on to its next claim, or to prune.
LEMMA GoesOn ==
    ASSUME NEW k, OutboxInvariant(k), NEW r \in k.runtimes, NEW v \in Workers(k), NEW x, x \in Outbox(k)!NextOf(v),
           run' = [run EXCEPT ![r] = x]
    PROVE  WentOn(k, r, v, x)
<1>1. /\ x \in Workers(k)
      /\ x.recover = v.recover
      /\ x.pc \in {"prune", "claim"} /\ (x.pc = "claim" => x.at \in k.claims)
  BY NextOfWell
<1> QED BY <1>1 DEF WentOn, Steps, Valid, Wakeful, Emits, Hands, Recovers

LEMMA SelectKeepsOutbox ==
    ASSUME NEW k, OutboxConstants(k), OutboxInvariant(k), NEW r \in k.runtimes, Outbox(k)!Select(r)
    PROVE  OutboxInvariant(k)'
<1>1. run[r] \in Workers(k) /\ run[r].pc = "select" /\ UNCHANGED <<out, order, ripe, emitted, crashes>>
  BY WorkerWell DEF Outbox!Select, Outbox!At
<1>2. faults \in Nat /\ crashes \in Nat /\ crashes' \in Nat
  BY <1>1, WorkerWell
<1>3. \A c : ~Emits(run[r], c) /\ ~Hands(run[r], c)
  BY <1>1 DEF Emits, Hands
<1>4. ASSUME NEW x, Steps(k, r, x), Valid(k, x), Wakeful(x), x.recover = run[r].recover, x.pc # "answer",
             x.pc # "off", \A c : ~Emits(x, c), NEW n \in {0, 1}, faults' = faults + n
      PROVE  OutboxInvariant(k)'
  <2>1. Recovers(x) <=> Recovers(run[r])
    BY <1>1, <1>4 DEF Recovers
  <2>2. Ordered(k) => HandsOn(k, r, x)
    BY <1>1, <1>3, <1>4, <2>1 DEF HandsOn
  <2>3. ASSUME NEW d \in k.claims
        PROVE  emitted'[d] + Charge(x, d) + Waits(d)' <= emitted[d] + Charge(run[r], d) + Waits(d) + n
    <3>1. Charge(x, d) = Charge(run[r], d) /\ Waits(d)' = Waits(d) /\ emitted'[d] = emitted[d]
      BY <1>1, <1>3, <1>4, <2>1 DEF Charge, Waits
    <3> QED BY <3>1, CountsAreNat
  <2>4. faults' \in Nat /\ faults' + crashes' = faults + crashes + n
    BY <1>1, <1>2, <1>4
  <2>5. Pays(k, r, x)
    BY <1>1, <1>2, <1>4, <2>3, <2>4, PaidFor DEF OutboxInvariant, OutboxSound, OutboxTyped
  <2> QED BY <1>1, <1>2, <1>4, <2>2, <2>4, <2>5, RowsStay
<1>5. CASE /\ run' \in {[run EXCEPT ![r] = w] : w \in
                         Outbox(k)!NextOf([run[r] EXCEPT !.batch = {c \in k.claims : out[c].state = "pending"}])}
           /\ faults' = faults
  <2> DEFINE v == [run[r] EXCEPT !.batch = {c \in k.claims : out[c].state = "pending"}]
  <2>1. v \in Workers(k) /\ v.recover = run[r].recover
    BY <1>1 DEF Workers
  <2>2. PICK x \in Outbox(k)!NextOf(v) : run' = [run EXCEPT ![r] = x]
    BY <1>5
  <2>3. faults' = faults + 0
    BY <1>2, <1>5
  <2> HIDE DEF v
  <2>4. /\ Steps(k, r, x) /\ Valid(k, x) /\ Wakeful(x) /\ x.recover = v.recover
        /\ x.pc # "answer" /\ x.pc # "off" /\ \A d : ~Emits(x, d)
    <3>1. WentOn(k, r, v, x)
      BY Zenon, <2>1, <2>2, GoesOn
    <3> QED BY <3>1 DEF WentOn
  <2> QED BY <1>4, <2>1, <2>3, <2>4
<1>6. CASE run' = [run EXCEPT ![r] = [run[r] EXCEPT !.pc = "refresh"]] /\ faults' = faults + 1
  <2> DEFINE x == [run[r] EXCEPT !.pc = "refresh"]
  <2>1. x \in Workers(k) /\ x.recover = run[r].recover /\ x.pc = "refresh"
    BY <1>1 DEF Workers
  <2>2. Steps(k, r, x)
    BY <1>6, <2>1 DEF Steps
  <2> HIDE DEF x
  <2>3. Valid(k, x) /\ Wakeful(x) /\ \A c : ~Emits(x, c)
    BY <2>1 DEF Valid, Wakeful, Emits
  <2> QED BY <1>4, <1>6, <2>1, <2>2, <2>3
<1> QED BY <1>5, <1>6 DEF Outbox!Select, Outbox!Goes, Outbox!Faulty

LEMMA ClaimKeepsOutbox ==
    ASSUME NEW k, OutboxConstants(k), OutboxInvariant(k), NEW r \in k.runtimes, Outbox(k)!Claim(r)
    PROVE  OutboxInvariant(k)'
<1>0. /\ run[r] \in Workers(k) /\ run[r].pc = "claim" /\ run[r].at \in k.claims
      /\ UNCHANGED <<order, ripe, emitted, crashes>>
  BY WorkerWell DEF Outbox!Claim, Outbox!At
<1> PICK c \in k.claims : c = run[r].at
  BY <1>0
<1>1. /\ run[r] \in Workers(k) /\ run[r].pc = "claim" /\ c \in k.claims /\ run[r].at = c
      /\ UNCHANGED <<order, ripe, emitted, crashes>>
  BY <1>0
<1>2. faults \in Nat /\ crashes \in Nat /\ crashes' \in Nat
  BY <1>1, WorkerWell
<1>3. \A d : ~Emits(run[r], d) /\ ~Hands(run[r], d)
  BY <1>1 DEF Emits, Hands
<1>4. \A d \in k.claims : Waits(d) \in {0, 1} /\ Charge(run[r], d) \in {0, 1} /\ emitted[d] \in Nat
  BY <1>3, CountsAreNat
\* The claim is taken.
<1>5. ASSUME out[c].state = "pending", out' = [out EXCEPT ![c] = [state |-> "delivering", token |-> r]]
      PROVE  /\ out' \in [k.claims -> Row(k)] /\ \A d \in k.claims : RowMoves(k, d)
             /\ out'[c] = [state |-> "delivering", token |-> r]
             /\ \A d \in k.claims : d # c => out'[d] = out[d]
             /\ Waits(c) = 1 /\ Waits(c)' = 0 /\ \A d \in k.claims : d # c => Waits(d)' = Waits(d)
  <2>1. /\ out' \in [k.claims -> Row(k)] /\ out'[c] = [state |-> "delivering", token |-> r]
        /\ \A d \in k.claims : d # c => out'[d] = out[d]
    BY <1>1, <1>5 DEF OutboxInvariant, OutboxSound, OutboxTyped, Row
  <2>2. \A d \in k.claims : RowMoves(k, d)
    BY <1>1, <1>5, <2>1 DEF RowMoves
  <2>3. Waits(c) = 1 /\ Waits(c)' = 0
    BY <1>5, <2>1 DEF Waits
  <2>4. \A d \in k.claims : d # c => Waits(d)' = Waits(d)
    BY <2>1 DEF Waits
  <2> QED BY <2>1, <2>2, <2>3, <2>4
\* The runtime goes on to the next claim.
<1>6. ASSUME NEW x \in Outbox(k)!NextOf(run[r]), run' = [run EXCEPT ![r] = x], NEW n \in {0, 1}, faults' = faults + n,
             \/ out' = out
             \/ /\ k.losesClaims /\ out[c].state = "pending"
                /\ out' = [out EXCEPT ![c] = [state |-> "delivering", token |-> r]]
      PROVE  OutboxInvariant(k)'
  <2>1. /\ Steps(k, r, x) /\ Valid(k, x) /\ Wakeful(x) /\ x.recover = run[r].recover
        /\ x.pc # "answer" /\ x.pc # "off" /\ \A d : ~Emits(x, d)
    <3>1. PICK v : v = run[r]
      OBVIOUS
    <3>2. v \in Workers(k) /\ x \in Outbox(k)!NextOf(v) /\ run' = [run EXCEPT ![r] = x]
      BY <1>1, <1>6, <3>1
    <3>3. WentOn(k, r, v, x)
      BY Zenon, <3>2, GoesOn
    <3> QED BY <3>1, <3>3 DEF WentOn
  <2>2. Recovers(x) <=> Recovers(run[r])
    BY <1>1, <2>1 DEF Recovers
  <2>3. out' \in [k.claims -> Row(k)] /\ (\A d \in k.claims : RowMoves(k, d)) /\ \A d \in k.claims : Waits(d)' <= Waits(d)
    <3>1. CASE out' = out
      BY <1>4, <3>1 DEF OutboxInvariant, OutboxSound, OutboxTyped, Row, RowMoves, Waits
    <3>2. CASE out[c].state = "pending" /\ out' = [out EXCEPT ![c] = [state |-> "delivering", token |-> r]]
      <4>1. \A d \in k.claims : Waits(d)' <= Waits(d)
        <5> SUFFICES ASSUME NEW d \in k.claims PROVE Waits(d)' <= Waits(d)
          OBVIOUS
        <5>1. CASE d = c
          BY <1>5, <3>2, <5>1
        <5>2. CASE d # c
          BY <1>4, <1>5, <3>2, <5>2
        <5> QED BY <5>1, <5>2
      <4> QED BY <1>5, <3>2, <4>1
    <3> QED BY <1>6, <3>1, <3>2
  <2>4. Ordered(k) => HandsOn(k, r, x)
    <3> SUFFICES ASSUME Ordered(k) PROVE HandsOn(k, r, x)
      OBVIOUS
    <3>1. out' = out
      BY <1>6 DEF Ordered
    <3> QED BY <1>3, <2>1, <2>2, <3>1 DEF HandsOn
  <2>5. ASSUME NEW d \in k.claims
        PROVE  emitted'[d] + Charge(x, d) + Waits(d)' <= emitted[d] + Charge(run[r], d) + Waits(d) + n
    <3>1. Charge(x, d) = Charge(run[r], d) /\ emitted'[d] = emitted[d]
      BY <1>1, <1>3, <2>1, <2>2 DEF Charge
    <3> QED BY <1>4, <2>3, <3>1, CountsAreNat
  <2>6. faults' \in Nat /\ faults' + crashes' = faults + crashes + n
    BY <1>1, <1>2, <1>6
  <2>7. Pays(k, r, x)
    BY <1>1, <1>2, <2>5, <2>6, PaidFor DEF OutboxInvariant, OutboxSound, OutboxTyped
  <2> QED BY <1>1, <1>2, <2>1, <2>3, <2>4, <2>6, <2>7, RowsMove
<1>7. CASE /\ out[c].state = "pending" /\ out' = [out EXCEPT ![c] = [state |-> "delivering", token |-> r]]
           /\ run' = [run EXCEPT ![r] = [run[r] EXCEPT !.pc = "emit"]] /\ faults' = faults
  <2> DEFINE x == [run[r] EXCEPT !.pc = "emit"]
  <2>1. x \in Workers(k) /\ x.pc = "emit" /\ x.at = c /\ x.recover = run[r].recover
    BY <1>1 DEF Workers
  <2>2. Steps(k, r, x)
    BY <1>7, <2>1 DEF Steps
  <2> HIDE DEF x
  <2>3. Valid(k, x) /\ Hands(x, c) /\ Wakeful(x) /\ (Recovers(x) <=> Recovers(run[r]))
    BY <1>1, <2>1 DEF Valid, Hands, Wakeful, Recovers
  <2>4. Ordered(k) => HandsOn(k, r, x)
    BY <1>3, <1>5, <1>7, <2>1, <2>3 DEF HandsOn
  <2>5. ASSUME NEW d \in k.claims
        PROVE  emitted'[d] + Charge(x, d) + Waits(d)' <= emitted[d] + Charge(run[r], d) + Waits(d) + 0
    <3>1. CASE d = c
      <4>1. Waits(d) = 1 /\ Waits(d)' = 0 /\ emitted'[d] = emitted[d]
        BY <1>1, <1>5, <1>7, <3>1
      <4>2. Emits(x, d) /\ ~Emits(run[r], d)
        BY <1>3, <2>1, <3>1 DEF Emits
      <4>3. Charge(x, d) = 1 + Charge(run[r], d)
        BY <2>3, <4>2 DEF Charge
      <4> QED BY <1>4, <4>1, <4>3
    <3>2. CASE d # c
      <4>1. Charge(x, d) = Charge(run[r], d) /\ Waits(d)' = Waits(d) /\ emitted'[d] = emitted[d]
        BY <1>1, <1>3, <1>5, <1>7, <2>1, <2>3, <3>2 DEF Charge, Emits
      <4> QED BY <1>4, <4>1
    <3> QED BY <3>1, <3>2
  <2>6. faults' \in Nat /\ faults' + crashes' = faults + crashes + 0
    BY <1>1, <1>2, <1>7
  <2>7. Pays(k, r, x)
    BY <1>1, <1>2, <2>5, <2>6, PaidFor DEF OutboxInvariant, OutboxSound, OutboxTyped
  <2> QED BY <1>1, <1>2, <1>5, <1>7, <2>1, <2>2, <2>3, <2>4, <2>6, <2>7, RowsMove
<1>8. CASE Outbox(k)!Continues(r) /\ out' = out /\ faults' = faults
  <2>1. PICK x \in Outbox(k)!NextOf(run[r]) : run' = [run EXCEPT ![r] = x]
    BY <1>8 DEF Outbox!Continues
  <2>2. faults' = faults + 0
    BY <1>2, <1>8
  <2> QED BY <1>6, <1>8, <2>1, <2>2
<1>9. CASE Outbox(k)!Continues(r) /\ out' = out /\ faults' = faults + 1
  <2>1. PICK x \in Outbox(k)!NextOf(run[r]) : run' = [run EXCEPT ![r] = x]
    BY <1>9 DEF Outbox!Continues
  <2> QED BY <1>6, <1>9, <2>1
<1>10. CASE /\ k.losesClaims /\ out[c].state = "pending" /\ Outbox(k)!Continues(r) /\ faults' = faults + 1
            /\ out' = [out EXCEPT ![c] = [state |-> "delivering", token |-> r]]
  <2>1. PICK x \in Outbox(k)!NextOf(run[r]) : run' = [run EXCEPT ![r] = x]
    BY <1>10 DEF Outbox!Continues
  <2> QED BY <1>6, <1>10, <2>1
<1> QED BY <1>7, <1>8, <1>9, <1>10 DEF Outbox!Claim, Outbox!Takes, Outbox!Sets, Outbox!Goes, Outbox!Faulty

LEMMA EmitKeepsOutbox ==
    ASSUME NEW k, OutboxConstants(k), OutboxInvariant(k), NEW r \in k.runtimes, Outbox(k)!Emit(r)
    PROVE  OutboxInvariant(k)'
<1>0. /\ run[r] \in Workers(k) /\ run[r].pc = "emit" /\ run[r].at \in k.claims
      /\ UNCHANGED <<out, order, ripe, crashes>>
  BY WorkerWell DEF Outbox!Emit, Outbox!At
<1> PICK c \in k.claims : c = run[r].at
  BY <1>0
<1>1. /\ run[r] \in Workers(k) /\ run[r].pc = "emit" /\ run[r].at = c
      /\ UNCHANGED <<out, order, ripe, crashes>>
  BY <1>0
<1>2. faults \in Nat /\ crashes \in Nat /\ crashes' \in Nat /\ emitted \in [k.claims -> Nat]
  BY <1>1, WorkerWell DEF OutboxInvariant, OutboxSound, OutboxTyped
<1>3. \A d \in k.claims : Emits(run[r], d) <=> d = c
  BY <1>1 DEF Emits
<1>4. PICK n \in {0, 1}, m \in {0, 1}, pc \in {"deliver", "release"} :
        /\ emitted' = [emitted EXCEPT ![c] = @ + m] /\ faults' = faults + n
        /\ run' = [run EXCEPT ![r] = [run[r] EXCEPT !.pc = pc]]
        /\ pc = "deliver" => m = 1 /\ n = 0
        /\ pc = "release" => n = 1
  <2>1. emitted = [emitted EXCEPT ![c] = @ + 0] /\ faults = faults + 0
    BY <1>2
  <2>2. CASE /\ emitted' = [emitted EXCEPT ![c] = @ + 1] /\ faults' = faults
             /\ run' = [run EXCEPT ![r] = [run[r] EXCEPT !.pc = "deliver"]]
    BY <2>1, <2>2
  <2>3. CASE /\ emitted' = [emitted EXCEPT ![c] = @ + 1] /\ faults' = faults + 1
             /\ run' = [run EXCEPT ![r] = [run[r] EXCEPT !.pc = "release"]]
    BY <2>3
  <2>4. CASE /\ emitted' = emitted /\ faults' = faults + 1
             /\ run' = [run EXCEPT ![r] = [run[r] EXCEPT !.pc = "release"]]
    BY <2>1, <2>4
  <2> QED BY <1>1, <2>2, <2>3, <2>4 DEF Outbox!Emit, Outbox!Logged, Outbox!Goes, Outbox!Faulty
<1> DEFINE x == [run[r] EXCEPT !.pc = pc]
<1>5. x \in Workers(k) /\ x.pc = pc /\ x.at = c /\ x.recover = run[r].recover
  BY <1>1 DEF Workers
<1>6. Steps(k, r, x)
  BY <1>4, <1>5 DEF Steps
<1> HIDE DEF x
<1>7. emitted'[c] = emitted[c] + m /\ \A d \in k.claims : d # c => emitted'[d] = emitted[d]
  BY <1>2, <1>4
<1>8. Logs(k)
  <2>1. emitted' \in [k.claims -> Nat]
    BY <1>2, <1>4
  <2>2. \A d \in k.claims : emitted[d] <= emitted'[d]
    BY <1>2, <1>7
  <2> QED BY <2>1, <2>2 DEF Logs
<1>9. Valid(k, x) /\ Hands(x, c) /\ Wakeful(x) /\ (Recovers(x) <=> Recovers(run[r]))
  BY <1>1, <1>2, <1>4, <1>5, <1>7 DEF Valid, Hands, Wakeful, Recovers
<1>10. Ordered(k) => HandsOn(k, r, x)
  BY <1>1, <1>5, <1>9 DEF HandsOn, Hands
<1>11. ASSUME NEW d \in k.claims
       PROVE  emitted'[d] + Charge(x, d) + Waits(d)' <= emitted[d] + Charge(run[r], d) + Waits(d) + n
  <2>1. Waits(d)' = Waits(d) /\ Waits(d) \in {0, 1} /\ emitted[d] \in Nat
    BY <1>1, CountsAreNat DEF Waits
  <2> DEFINE heal == IF Recovers(run[r]) THEN 1 ELSE 0
  <2>2. heal \in {0, 1} /\ Charge(x, d) = (IF Emits(x, d) THEN 1 ELSE 0) + heal
        /\ Charge(run[r], d) = (IF d = c THEN 1 ELSE 0) + heal
    BY <1>3, <1>9 DEF Charge
  <2> HIDE DEF heal
  <2>3. CASE d # c
    <3>1. ~Emits(x, d) /\ emitted'[d] = emitted[d]
      BY <1>5, <1>7, <2>3 DEF Emits
    <3> QED BY <2>1, <2>2, <2>3, <3>1
  <2>4. CASE d = c /\ pc = "deliver"
    <3>1. ~Emits(x, d) /\ emitted'[d] = emitted[d] + 1 /\ n = 0
      BY <1>4, <1>5, <1>7, <2>4 DEF Emits
    <3> QED BY <2>1, <2>2, <2>4, <3>1
  <2>5. CASE d = c /\ pc = "release"
    <3>1. Emits(x, d) /\ emitted'[d] = emitted[d] + m /\ n = 1
      BY <1>4, <1>5, <1>7, <2>5 DEF Emits
    <3> QED BY <2>1, <2>2, <2>5, <3>1
  <2> QED BY <2>3, <2>4, <2>5
<1>12. faults' \in Nat /\ faults' + crashes' = faults + crashes + n
  BY <1>1, <1>2, <1>4
<1>13. Pays(k, r, x)
  BY <1>1, <1>2, <1>8, <1>11, <1>12, PaidFor DEF Logs
<1>14. out' \in [k.claims -> Row(k)] /\ \A d \in k.claims : RowMoves(k, d)
  BY <1>1 DEF OutboxInvariant, OutboxSound, OutboxTyped, Row, RowMoves
<1> QED BY <1>1, <1>2, <1>4, <1>5, <1>6, <1>8, <1>9, <1>10, <1>12, <1>13, <1>14, EventsMove

\* A step in which a runtime has nothing in hand, and the rows and the events stay.
LEMMA IdleStep ==
    ASSUME NEW k, OutboxConstants(k), OutboxInvariant(k), NEW r \in k.runtimes, NEW x \in Workers(k),
           run' = [run EXCEPT ![r] = x], UNCHANGED <<out, order, ripe, emitted, crashes>>,
           run[r].pc \in {"refresh", "answer"}, x.pc \in {"refresh", "answer", "idle"},
           x.recover = run[r].recover, Ordered(k) => x.pc # "answer",
           Ordered(k) /\ (\E c \in k.claims : out[c].state = "pending") => Wakeful(x),
           NEW n \in {0, 1}, faults' = faults + n
    PROVE  OutboxInvariant(k)'
<1>1. /\ Steps(k, r, x) /\ Valid(k, x) /\ (Recovers(x) <=> Recovers(run[r]))
      /\ \A c : ~Emits(x, c) /\ ~Emits(run[r], c) /\ ~Hands(run[r], c)
  BY DEF Steps, Valid, Recovers, Emits, Hands
<1>2. Ordered(k) => HandsOn(k, r, x)
  BY <1>1 DEF HandsOn
<1>3. faults \in Nat /\ crashes \in Nat /\ faults' \in Nat /\ faults' + crashes' = faults + crashes + n
  BY WorkerWell
<1>4. ASSUME NEW d \in k.claims
      PROVE  emitted'[d] + Charge(x, d) + Waits(d)' <= emitted[d] + Charge(run[r], d) + Waits(d) + n
  <2>1. Charge(x, d) = Charge(run[r], d) /\ Waits(d)' = Waits(d) /\ emitted'[d] = emitted[d]
    BY <1>1 DEF Charge, Waits
  <2> QED BY <2>1, CountsAreNat
<1>5. Pays(k, r, x)
  BY <1>3, <1>4, PaidFor DEF OutboxInvariant, OutboxSound, OutboxTyped
<1> QED BY <1>1, <1>2, <1>3, <1>5, RowsStay

LEMMA RefreshKeepsOutbox ==
    ASSUME NEW k, OutboxConstants(k), OutboxInvariant(k), NEW r \in k.runtimes, Outbox(k)!Refresh(r)
    PROVE  OutboxInvariant(k)'
<1>1. run[r] \in Workers(k) /\ run[r].pc = "refresh" /\ UNCHANGED <<out, order, ripe, emitted, crashes>>
  BY WorkerWell DEF Outbox!Refresh, Outbox!At
<1> DEFINE asks == Outbox(k)!Asks
<1>2. /\ asks \in {"none", "soon", "later"}
      /\ (\E c \in k.claims : out[c].state = "pending") => asks = "soon"
  BY DEF Outbox!Asks
<1> HIDE DEF asks
<1>3. ASSUME NEW x, x \in {Outbox(k)!Ends(run[r], asks), Outbox(k)!Ends(run[r], "soon")}
      PROVE  /\ x \in Workers(k) /\ x.pc = "idle" /\ x.recover = run[r].recover
             /\ (\E c \in k.claims : out[c].state = "pending") => Wakeful(x)
  BY <1>1, <1>2, <1>3 DEF Outbox!Ends, Workers, Wakeful
<1>4. CASE run' = [run EXCEPT ![r] = Outbox(k)!Ends(run[r], asks)] /\ faults' = faults
  <2>1. faults' = faults + 0
    BY <1>4, WorkerWell
  <2> QED BY <1>1, <1>3, <1>4, <2>1, IdleStep
<1>5. CASE /\ run' = [run EXCEPT ![r] = [run[r] EXCEPT !.pc = "answer", !.wake = asks]]
           /\ ~k.oneWire /\ faults' = faults
  <2> DEFINE x == [run[r] EXCEPT !.pc = "answer", !.wake = asks]
  <2>1. x \in Workers(k) /\ x.pc = "answer" /\ x.recover = run[r].recover
    BY <1>1, <1>2 DEF Workers
  <2>2. faults' = faults + 0 /\ ~Ordered(k)
    BY <1>5, WorkerWell DEF Ordered
  <2>3. run' = [run EXCEPT ![r] = x]
    BY <1>5
  <2> HIDE DEF x
  <2> QED BY <1>1, <2>1, <2>2, <2>3, IdleStep
<1>6. CASE run' = [run EXCEPT ![r] = Outbox(k)!Ends(run[r], "soon")] /\ faults' = faults + 1
  BY <1>1, <1>3, <1>6, IdleStep
<1> QED BY <1>1, <1>4, <1>5, <1>6 DEF Outbox!Refresh, Outbox!Goes, Outbox!Faulty, asks

LEMMA RefreshAnsweredKeepsOutbox ==
    ASSUME NEW k, OutboxConstants(k), OutboxInvariant(k), NEW r \in k.runtimes, Outbox(k)!RefreshAnswered(r)
    PROVE  OutboxInvariant(k)'
<1> DEFINE x == Outbox(k)!Ends(run[r], run[r].wake)
<1>1. /\ run[r] \in Workers(k) /\ run[r].pc = "answer" /\ UNCHANGED <<out, order, ripe, emitted, crashes>>
      /\ run' = [run EXCEPT ![r] = x] /\ faults' = faults + 0 /\ ~Ordered(k)
  BY WorkerWell DEF Outbox!RefreshAnswered, Outbox!At, Outbox!Goes
<1>2. x \in Workers(k) /\ x.pc = "idle" /\ x.recover = run[r].recover
  BY <1>1 DEF Workers, Outbox!Ends
<1> HIDE DEF x
<1> QED BY <1>1, <1>2, IdleStep

LEMMA DiesKeepsOutbox ==
    ASSUME NEW k, OutboxConstants(k), OutboxInvariant(k), NEW r \in k.runtimes, Outbox(k)!Dies(r)
    PROVE  OutboxInvariant(k)'
<1> DEFINE x == [pc |-> "off", batch |-> {}, at |-> Nobody, recover |-> FALSE, wake |-> "none", timer |-> "none"]
<1>1. /\ run[r].pc # "off" /\ run' = [run EXCEPT ![r] = x]
      /\ UNCHANGED <<out, order, ripe, emitted, faults>> /\ crashes' = crashes + 1
  BY DEF Outbox!Dies, Outbox!At, Outbox!Goes, Outbox!Off
<1>2. x \in Workers(k) /\ x.pc = "off" /\ x.recover = FALSE
  BY DEF Workers
<1> HIDE DEF x
<1>3. Steps(k, r, x) /\ Valid(k, x) /\ Recovers(x) /\ Wakeful(x) /\ \A c : ~Emits(x, c)
  BY <1>1, <1>2 DEF Steps, Valid, Recovers, Wakeful, Emits
<1>4. Ordered(k) => HandsOn(k, r, x)
  BY <1>2, <1>3 DEF HandsOn
<1>5. /\ faults \in Nat /\ crashes \in Nat /\ faults' \in Nat /\ crashes' \in Nat /\ crashes' # 0
      /\ faults' + crashes' = faults + crashes + 1
  BY <1>1, WorkerWell
<1>6. ASSUME NEW d \in k.claims
      PROVE  emitted'[d] + Charge(x, d) + Waits(d)' <= emitted[d] + Charge(run[r], d) + Waits(d) + 1
  <2>1. Charge(x, d) = 1 /\ Waits(d)' = Waits(d) /\ emitted'[d] = emitted[d]
    BY <1>1, <1>3 DEF Charge, Waits
  <2> QED BY <2>1, CountsAreNat
<1>7. Pays(k, r, x)
  BY <1>1, <1>5, <1>6, PaidFor DEF OutboxInvariant, OutboxSound, OutboxTyped
<1> QED BY <1>1, <1>3, <1>4, <1>5, <1>7, RowsStay

LEMMA StartKeepsOutbox ==
    ASSUME NEW k, OutboxConstants(k), OutboxInvariant(k), NEW r \in k.runtimes, Outbox(k)!Start(r)
    PROVE  OutboxInvariant(k)'
<1> DEFINE asks == Outbox(k)!Asks
           w == [[pc |-> "off", batch |-> {}, at |-> Nobody, recover |-> FALSE, wake |-> "none", timer |-> "none"]
                  EXCEPT !.pc = "idle", !.recover = asks = "soon"]
           x == IF Outbox(k)!Due(asks) THEN Outbox(k)!Drains(w) ELSE [w EXCEPT !.timer = asks]
<1>1. /\ run[r].pc = "off" /\ run' = [run EXCEPT ![r] = x]
      /\ UNCHANGED <<out, order, ripe, emitted, faults, crashes>>
  BY DEF Outbox!Start, Outbox!At, Outbox!Goes, Outbox!Off
<1>2. /\ asks \in {"none", "soon", "later"}
      /\ (\E c \in k.claims : out[c].state \in {"pending", "delivering"}) <=> asks = "soon"
      /\ asks = "soon" => Outbox(k)!Due(asks)
  BY DEF Outbox!Asks, Outbox!Due
<1>3. w \in Workers(k) /\ w.pc = "idle" /\ w.recover = (asks = "soon")
  <2> HIDE DEF asks
  <2>1. PICK b \in BOOLEAN : b = (asks = "soon")
    OBVIOUS
  <2>2. w = [[pc |-> "off", batch |-> {}, at |-> Nobody, recover |-> FALSE, wake |-> "none", timer |-> "none"]
               EXCEPT !.pc = "idle", !.recover = b]
    BY Zenon, <2>1
  <2> HIDE DEF w
  <2>3. w = [pc |-> "idle", batch |-> {}, at |-> Nobody, recover |-> b, wake |-> "none", timer |-> "none"]
    BY <2>2
  <2> QED BY <2>1, <2>3 DEF Workers
<1> HIDE DEF w
<1>4. /\ x \in Workers(k) /\ x.recover = (asks = "soon") /\ x.pc \in {"idle", "recover", "select"}
      /\ x.pc = "recover" => x.recover
      /\ asks = "soon" => x.pc # "idle"
  <2> HIDE DEF asks
  <2>1. CASE Outbox(k)!Due(asks)
    BY <1>3, <2>1, DrainsWell
  <2>2. CASE ~Outbox(k)!Due(asks)
    BY <1>2, <1>3, <2>2 DEF Workers
  <2> QED BY <2>1, <2>2
<1> HIDE DEF x, asks
<1>5. Steps(k, r, x) /\ Valid(k, x) /\ (\A c : ~Emits(x, c) /\ ~Emits(run[r], c)) /\ (Recovers(x) <=> asks = "soon")
  BY <1>1, <1>4 DEF Steps, Valid, Emits, Recovers
<1>6. Ordered(k) => HandsOn(k, r, x)
  BY <1>1, <1>2, <1>4, <1>5 DEF HandsOn, Wakeful
<1>7. Pays(k, r, x)
  <2> SUFFICES ASSUME NEW c \in k.claims
               PROVE  emitted[c] + Charge(x, c) + Waits(c) + faults + crashes + (IF NeverStarted(k) THEN 1 ELSE 0)
                        <= emitted[c] + Charge(run[r], c) + Waits(c) + faults + crashes
    BY <1>1 DEF Pays, Waits
  <2>1. Charge(run[r], c) = 1 /\ Charge(x, c) = IF asks = "soon" THEN 1 ELSE 0
    BY <1>1, <1>5 DEF Charge, Recovers
  <2>2. emitted[c] \in Nat /\ Waits(c) \in {0, 1} /\ faults \in Nat /\ crashes \in Nat
    BY CountsAreNat, WorkerWell
  <2>3. NeverStarted(k) => asks # "soon"
    BY <1>2 DEF OutboxInvariant, NothingYet
  <2> QED BY <2>1, <2>2, <2>3
<1> QED BY <1>1, <1>4, <1>5, <1>6, <1>7, RowsStay, WorkerWell

LEMMA ReleaseKeepsOutbox ==
    ASSUME NEW k, OutboxConstants(k), OutboxInvariant(k), NEW r \in k.runtimes, Outbox(k)!Release(r)
    PROVE  OutboxInvariant(k)'
<1>0. /\ run[r] \in Workers(k) /\ run[r].pc = "release" /\ run[r].at \in k.claims
      /\ UNCHANGED <<order, ripe, emitted, crashes>>
  BY WorkerWell DEF Outbox!Release, Outbox!At
<1> PICK c \in k.claims : c = run[r].at
  BY <1>0
<1>1. /\ run[r] \in Workers(k) /\ run[r].pc = "release" /\ run[r].at = c
      /\ UNCHANGED <<order, ripe, emitted, crashes>>
  BY <1>0
<1>2. faults \in Nat /\ crashes \in Nat /\ crashes' \in Nat
  BY <1>1, WorkerWell
<1> DEFINE holds == out[c].state = "delivering" /\ out[c].token = r
           given == [out EXCEPT ![c] = [state |-> "pending", token |-> Nobody]]
           Gives == (holds /\ out' = given) \/ (~holds /\ out' = out)
<1>3. Outbox(k)!LetsGo(r, c) <=> Gives
  BY DEF Outbox!LetsGo, Outbox!Holds, Outbox!Sets, Outbox!Row
<1>4. ASSUME Gives \/ out' = out
      PROVE  /\ out' \in [k.claims -> Row(k)] /\ \A d \in k.claims : RowMoves(k, d)
             /\ \A d \in k.claims : out'[d] = out[d] \/ (d = c /\ out'[d].state = "pending")
             /\ Gives => ~(out'[c].state = "delivering" /\ out'[c].token = r)
             /\ \A d \in k.claims : (d = c \/ Waits(d)' = Waits(d)) /\ Waits(d)' \in {0, 1}
  <2>1. CASE out' = out
    <3>1. out' \in [k.claims -> Row(k)]
      BY <2>1 DEF OutboxInvariant, OutboxSound, OutboxTyped, Row
    <3>2. \A d \in k.claims : out'[d] = out[d]
      BY <2>1
    <3>3. Gives => ~(out'[c].state = "delivering" /\ out'[c].token = r)
      <4>1. SUFFICES ASSUME holds, out' = given PROVE out'[c].state # "delivering"
        BY <2>1
      <4> QED BY <3>1, <4>1 DEF OutboxInvariant, OutboxSound, OutboxTyped
    <3> HIDE DEF Gives
    <3> QED BY <3>1, <3>2, <3>3 DEF RowMoves, Waits
  <2>2. CASE holds /\ out' = given
    <3>1. /\ out' \in [k.claims -> Row(k)] /\ out'[c].state = "pending"
          /\ \A d \in k.claims : d # c => out'[d] = out[d]
      BY <2>2 DEF OutboxInvariant, OutboxSound, OutboxTyped, Row
    <3>2. out[c].state = "delivering"
      BY <2>2
    <3> HIDE DEF Gives, holds, given
    <3> QED BY <3>1, <3>2 DEF RowMoves, Waits
  <2> QED BY <1>4, <2>1, <2>2
<1> HIDE DEF Gives, holds, given
<1>5. /\ Emits(run[r], c) /\ \A d \in k.claims : d # c => ~Emits(run[r], d) /\ ~Hands(run[r], d)
  BY <1>1 DEF Emits, Hands
<1>6. ASSUME Gives, NEW x \in Outbox(k)!NextOf(run[r]), run' = [run EXCEPT ![r] = x], faults' = faults
      PROVE  OutboxInvariant(k)'
  <2>1. /\ Steps(k, r, x) /\ Valid(k, x) /\ Wakeful(x)
        /\ x.pc # "answer" /\ x.pc # "off" /\ \A d : ~Emits(x, d)
    <3>1. run[r] \in Workers(k) /\ x \in Outbox(k)!NextOf(run[r]) /\ run' = [run EXCEPT ![r] = x]
      BY <1>1, <1>6
    <3>2. WentOn(k, r, run[r], x)
      BY Zenon, <3>1, GoesOn
    <3> QED BY <3>2 DEF WentOn
  <2>2. Recovers(x) <=> Recovers(run[r])
    <3>1. Recovers(x) <=> run[r].recover
      BY <1>1, <1>6, GoesOn DEF WentOn
    <3> QED BY <1>1, <3>1 DEF Recovers
  <2>3. Ordered(k) => HandsOn(k, r, x)
    BY <1>4, <1>5, <1>6, <2>1, <2>2 DEF HandsOn
  <2>4. ASSUME NEW d \in k.claims
        PROVE  emitted'[d] + Charge(x, d) + Waits(d)' <= emitted[d] + Charge(run[r], d) + Waits(d) + 0
    <3> DEFINE heal == IF Recovers(run[r]) THEN 1 ELSE 0
    <3>1. /\ heal \in {0, 1} /\ Charge(x, d) = heal
          /\ Charge(run[r], d) = (IF d = c THEN 1 ELSE 0) + heal
      BY <1>5, <2>1, <2>2 DEF Charge
    <3> HIDE DEF heal
    <3>2. /\ emitted[d] \in Nat /\ Waits(d) \in {0, 1} /\ Waits(d)' \in {0, 1} /\ emitted'[d] = emitted[d]
          /\ d = c \/ Waits(d)' = Waits(d)
      BY <1>1, <1>4, <1>6, CountsAreNat
    <3> QED BY <3>1, <3>2
  <2>5. faults' \in Nat /\ faults' + crashes' = faults + crashes + 0
    BY <1>1, <1>2, <1>6
  <2>6. Pays(k, r, x)
    BY <1>1, <1>2, <2>4, <2>5, PaidFor DEF OutboxInvariant, OutboxSound, OutboxTyped
  <2> QED BY <1>1, <1>2, <1>4, <1>6, <2>1, <2>3, <2>5, <2>6, RowsMove
<1>7. ASSUME Gives \/ out' = out, NEW v \in Outbox(k)!NextOf(run[r]), faults' = faults + 1,
             run' = [run EXCEPT ![r] = [v EXCEPT !.recover = TRUE]]
      PROVE  OutboxInvariant(k)'
  <2> DEFINE x == [v EXCEPT !.recover = TRUE]
  <2>1. v \in Workers(k) /\ v.pc \in {"prune", "claim"} /\ (v.pc = "claim" => v.at \in k.claims)
    BY <1>1, <1>7, NextOfWell
  <2>2. /\ x \in Workers(k) /\ x.pc \in {"prune", "claim"} /\ (x.pc = "claim" => x.at \in k.claims) /\ x.recover
    BY <2>1 DEF Workers
  <2>3. run' = [run EXCEPT ![r] = x]
    BY <1>7
  <2> HIDE DEF x
  <2>4. Steps(k, r, x) /\ Valid(k, x) /\ Wakeful(x) /\ Recovers(x) /\ \A d : ~Emits(x, d)
    BY <2>2, <2>3 DEF Steps, Valid, Wakeful, Recovers, Emits
  <2>5. Ordered(k) => HandsOn(k, r, x)
    BY <2>2, <2>4 DEF HandsOn
  <2>6. ASSUME NEW d \in k.claims
        PROVE  emitted'[d] + Charge(x, d) + Waits(d)' <= emitted[d] + Charge(run[r], d) + Waits(d) + 1
    <3>1. Charge(x, d) = 1 /\ (d = c => Charge(run[r], d) \in {1, 2}) /\ Charge(run[r], d) \in {0, 1, 2}
      BY <1>5, <2>4 DEF Charge
    <3>2. /\ emitted[d] \in Nat /\ Waits(d) \in {0, 1} /\ Waits(d)' \in {0, 1} /\ emitted'[d] = emitted[d]
          /\ d = c \/ Waits(d)' = Waits(d)
      BY <1>1, <1>4, <1>7, CountsAreNat
    <3> QED BY <3>1, <3>2
  <2>7. faults' \in Nat /\ faults' + crashes' = faults + crashes + 1
    BY <1>1, <1>2, <1>7
  <2>8. Pays(k, r, x)
    BY <1>1, <1>2, <2>6, <2>7, PaidFor DEF OutboxInvariant, OutboxSound, OutboxTyped
  <2> QED BY <1>1, <1>2, <1>4, <1>7, <2>2, <2>4, <2>5, <2>7, <2>8, RowsMove
<1>8. CASE Gives /\ Outbox(k)!Continues(r) /\ faults' = faults
  <2>1. PICK x \in Outbox(k)!NextOf(run[r]) : run' = [run EXCEPT ![r] = x]
    BY <1>8 DEF Outbox!Continues
  <2> QED BY <1>6, <1>8, <2>1
<1>9. CASE /\ Gives \/ out' = out
           /\ run' \in {[run EXCEPT ![r] = [w EXCEPT !.recover = TRUE]] : w \in Outbox(k)!NextOf(run[r])}
           /\ faults' = faults + 1
  BY <1>7, <1>9
<1> QED BY <1>1, <1>3, <1>8, <1>9 DEF Outbox!Release, Outbox!Faulty

\* A claim is acknowledged: it joins the rows that await pruning.
LEMMA AcknowledgedIsSound ==
    ASSUME NEW k, OutboxSound(k), NEW r, NEW x, Steps(k, r, x), NEW c \in k.claims,
           out[c].state = "delivering", emitted[c] > 0,
           out' = [out EXCEPT ![c] = [state |-> "delivered", token |-> Nobody]], order' = Append(order, c),
           UNCHANGED <<ripe, emitted>>, faults' \in Nat, crashes' \in Nat,
           x.pc \in {"claim", "emit", "deliver", "release"} => x.at \in k.claims,
           x.pc = "recover" => x.recover, x.pc # "deliver"
    PROVE  OutboxSound(k)'
<1>1. /\ out \in [k.claims -> Row(k)] /\ order \in Seq(k.claims) /\ ripe \in 0..Len(order)
      /\ emitted \in [k.claims -> Nat]
  BY DEF OutboxSound, OutboxTyped, Row
<1>2. /\ out' \in [k.claims -> Row(k)] /\ out'[c].state = "delivered"
      /\ \A d \in k.claims : d # c => out'[d] = out[d]
  BY <1>1 DEF Row
<1>3. /\ order' \in Seq(k.claims) /\ Len(order') = Len(order) + 1 /\ order'[Len(order) + 1] = c
      /\ \A i \in 1..Len(order) : order'[i] = order[i]
  BY <1>1, AppendProperties
<1>4. Len(order) \in Nat
  BY <1>1
<1>5. \A i \in 1..Len(order) : order[i] \in k.claims /\ out[order[i]].state = "delivered" /\ order[i] # c
  <2> SUFFICES ASSUME NEW i \in 1..Len(order)
               PROVE  order[i] \in k.claims /\ out[order[i]].state = "delivered" /\ order[i] # c
    OBVIOUS
  <2>1. order[i] \in k.claims
    BY <1>1, ElementOfSeq
  <2>2. out[order[i]].state = "delivered"
    BY DEF OutboxSound, RowsAreInOrder
  <2> QED BY <2>1, <2>2
<1>6. OutboxTyped(k)'
  <2>1. ripe' \in 0..Len(order')
    BY <1>1, <1>3, <1>4
  <2>2. run' \in [k.runtimes -> Workers(k)]
    BY OthersStay DEF OutboxSound
  <2>3. emitted' \in [k.claims -> Nat]
    BY <1>1
  <2> QED BY <1>2, <1>3, <2>1, <2>2, <2>3 DEF OutboxTyped, Row
<1>7. RowsAreInOrder(k)'
  <2>1. \A d \in k.claims : out'[d].state = "delivering" => out'[d].token \in k.runtimes
    BY <1>2 DEF OutboxSound, RowsAreInOrder
  <2>2. ASSUME NEW i \in 1..Len(order') PROVE out'[order'[i]].state = "delivered"
    <3>1. i \in 1..Len(order) \/ i = Len(order) + 1
      BY <1>3, <1>4
    <3> QED BY <1>2, <1>3, <1>5, <3>1
  <2>3. ASSUME NEW i \in 1..Len(order'), NEW j \in 1..Len(order'), order'[i] = order'[j] PROVE i = j
    <3>1. (i \in 1..Len(order) \/ i = Len(order) + 1) /\ (j \in 1..Len(order) \/ j = Len(order) + 1)
      BY <1>3, <1>4
    <3>2. i \in 1..Len(order) /\ j \in 1..Len(order) => i = j
      BY <1>3, <2>3 DEF OutboxSound, RowsAreInOrder
    <3> QED BY <1>3, <1>5, <2>3, <3>1, <3>2
  <2>4. \A s \in k.runtimes : run'[s].pc \in {"claim", "emit", "deliver", "release"} => run'[s].at \in k.claims
    BY OthersStay DEF OutboxSound, RowsAreInOrder
  <2>5. \A s \in k.runtimes : run'[s].pc = "recover" => run'[s].recover
    BY OthersStay DEF OutboxSound, RowsAreInOrder
  <2> QED BY <2>1, <2>2, <2>3, <2>4, <2>5 DEF RowsAreInOrder
<1>8. LoggedFirst(k)'
  <2>1. \A d \in k.claims : out'[d].state \in {"delivered", "pruned"} => emitted[d] > 0
    BY <1>2 DEF OutboxSound, LoggedFirst
  <2>2. \A s \in k.runtimes : run'[s].pc = "deliver" => emitted[run'[s].at] > 0
    BY OthersStay DEF OutboxSound, LoggedFirst
  <2> QED BY <2>1, <2>2 DEF LoggedFirst
<1> QED BY <1>6, <1>7, <1>8 DEF OutboxSound

LEMMA DeliverKeepsOutbox ==
    ASSUME NEW k, OutboxConstants(k), OutboxInvariant(k), NEW r \in k.runtimes, Outbox(k)!Deliver(r)
    PROVE  OutboxInvariant(k)'
<1>0. /\ run[r] \in Workers(k) /\ run[r].pc = "deliver" /\ run[r].at \in k.claims
      /\ UNCHANGED <<ripe, emitted, crashes>>
  BY WorkerWell DEF Outbox!Deliver, Outbox!At
<1> PICK c \in k.claims : c = run[r].at
  BY <1>0
<1>1. /\ run[r] \in Workers(k) /\ run[r].pc = "deliver" /\ run[r].at = c /\ emitted[c] > 0
      /\ UNCHANGED <<ripe, emitted, crashes>>
  BY <1>0, WorkerWell
<1>2. faults \in Nat /\ crashes \in Nat /\ crashes' \in Nat
  BY <1>1, WorkerWell
<1>3. /\ \A d : ~Emits(run[r], d)
      /\ \A d \in k.claims : d # c => ~Hands(run[r], d)
  BY <1>1 DEF Emits, Hands
<1> DEFINE Holds == out[c].state = "delivering" /\ out[c].token = r
           Acks == /\ Holds /\ order' = Append(order, c)
                   /\ out' = [out EXCEPT ![c] = [state |-> "delivered", token |-> Nobody]]
           Stays == UNCHANGED <<out, order>>
<1>4. Outbox(k)!Acknowledges(r, c) => Acks \/ (~Holds /\ Stays)
  BY DEF Outbox!Acknowledges, Outbox!Holds, Outbox!Sets, Outbox!Row
<1>5. ASSUME Acks \/ Stays
      PROVE  /\ \A d \in k.claims : out'[d] = out[d] \/ (d = c /\ out'[d].state = "delivered" /\ Acks)
             /\ \A d \in k.claims : Waits(d)' = Waits(d)
  <2>1. CASE Stays
    BY <2>1 DEF Waits
  <2>2. CASE Acks
    <3>1. /\ out'[c].state = "delivered" /\ out[c].state = "delivering"
          /\ \A d \in k.claims : d # c => out'[d] = out[d]
      BY <2>2 DEF OutboxInvariant, OutboxSound, OutboxTyped
    <3> HIDE DEF Acks
    <3> QED BY <2>2, <3>1 DEF Waits
  <2> QED BY <1>5, <2>1, <2>2
\* Whatever the runtime does then, it may be acknowledged or not.
<1>6. ASSUME Acks \/ Stays, NEW x, Steps(k, r, x), Valid(k, x), Wakeful(x), x.pc \notin {"answer", "off", "deliver"},
             Recovers(x) <=> Recovers(run[r]), NEW n \in {0, 1}, faults' = faults + n,
             Hands(x, c) \/ Acks \/ ~Holds,
             \A d \in k.claims : Emits(x, d) => n = 1
      PROVE  OutboxInvariant(k)'
  <2>1. faults' \in Nat /\ faults' + crashes' = faults + crashes + n
    BY <1>1, <1>2, <1>6
  <2>2. OutboxSound(k)'
    <3>1. CASE Acks
      BY <1>1, <1>2, <1>6, <2>1, <3>1, AcknowledgedIsSound DEF OutboxInvariant, Valid
    <3>2. CASE Stays
      <4>1. Logs(k) /\ out' \in [k.claims -> Row(k)] /\ \A d \in k.claims : RowMoves(k, d)
        BY <1>1, <3>2 DEF Logs, RowMoves, OutboxInvariant, OutboxSound, OutboxTyped, Row
      <4> QED BY <1>1, <1>2, <1>6, <2>1, <3>2, <4>1, SoundStep DEF OutboxInvariant, Valid
    <3> QED BY <1>6, <3>1, <3>2
  <2>3. ASSUME Ordered(k) PROVE HandsOn(k, r, x)
    <3> SUFFICES ASSUME NEW d \in k.claims, out'[d].state = "delivering"
                 PROVE  \/ Recovers(x)
                        \/ out'[d].token = r /\ Hands(x, d)
                        \/ out'[d] = out[d] /\ ~Recovers(run[r]) /\ ~(out[d].token = r /\ Hands(run[r], d))
      BY <1>6 DEF HandsOn
    <3>1. out'[d] = out[d]
      BY <1>5, <1>6
    <3>2. CASE d # c
      BY <1>3, <1>6, <3>1, <3>2
    <3>3. CASE d = c
      <4>1. ~Acks
        BY <3>1, <3>3 DEF OutboxInvariant, OutboxSound, OutboxTyped
      <4>2. CASE out[d].token = r
        BY <1>6, <3>1, <3>3, <4>1, <4>2
      <4>3. CASE out[d].token # r
        BY <1>6, <3>1, <4>3
      <4> QED BY <4>2, <4>3
    <3> QED BY <3>2, <3>3
  <2>4. ASSUME NEW d \in k.claims
        PROVE  emitted'[d] + Charge(x, d) + Waits(d)' <= emitted[d] + Charge(run[r], d) + Waits(d) + n
    <3> DEFINE heal == IF Recovers(run[r]) THEN 1 ELSE 0 emit == IF Emits(x, d) THEN 1 ELSE 0
    <3>1. heal \in {0, 1} /\ emit \in {0, 1} /\ Charge(x, d) = emit + heal /\ Charge(run[r], d) = heal /\ emit <= n
      BY <1>3, <1>6 DEF Charge
    <3> HIDE DEF heal, emit
    <3>2. /\ emitted[d] \in Nat /\ Waits(d) \in {0, 1} /\ Waits(d)' = Waits(d) /\ emitted'[d] = emitted[d]
      BY <1>1, <1>5, <1>6, CountsAreNat
    <3> QED BY <3>1, <3>2
  <2>5. Pays(k, r, x)
    BY <1>1, <1>2, <2>1, <2>4, PaidFor DEF OutboxInvariant, OutboxSound, OutboxTyped
  <2> QED BY <1>6, <2>2, <2>3, <2>5, FromSound
<1> HIDE DEF Acks, Stays, Holds
<1>7. CASE Outbox(k)!Acknowledges(r, c) /\ Outbox(k)!Continues(r) /\ faults' = faults
  <2>1. PICK x \in Outbox(k)!NextOf(run[r]) : run' = [run EXCEPT ![r] = x]
    BY <1>7 DEF Outbox!Continues
  <2>2. /\ Steps(k, r, x) /\ Valid(k, x) /\ Wakeful(x)
        /\ x.pc # "answer" /\ x.pc # "off" /\ \A d : ~Emits(x, d)
    <3>1. run[r] \in Workers(k) /\ x \in Outbox(k)!NextOf(run[r]) /\ run' = [run EXCEPT ![r] = x]
      BY <1>1, <2>1
    <3>2. WentOn(k, r, run[r], x)
      BY Zenon, <3>1, GoesOn
    <3> QED BY <3>2 DEF WentOn
  <2>3. Recovers(x) <=> Recovers(run[r])
    <3>1. Recovers(x) <=> run[r].recover
      BY <1>1, <2>1, GoesOn DEF WentOn
    <3> QED BY <1>1, <3>1 DEF Recovers
  <2>4. x.pc # "deliver"
    BY <1>1, <2>1, NextOfWell
  <2>5. faults' = faults + 0
    BY <1>2, <1>7
  <2> QED BY <1>4, <1>6, <1>7, <2>2, <2>3, <2>4, <2>5
<1>8. CASE /\ Outbox(k)!Acknowledges(r, c) \/ Stays
           /\ run' = [run EXCEPT ![r] = [run[r] EXCEPT !.pc = "release"]] /\ faults' = faults + 1
  <2> DEFINE x == [run[r] EXCEPT !.pc = "release"]
  <2>1. x \in Workers(k) /\ x.pc = "release" /\ x.at = c /\ x.recover = run[r].recover
    BY <1>1 DEF Workers
  <2>2. Steps(k, r, x)
    BY <1>8, <2>1 DEF Steps
  <2> HIDE DEF x
  <2>3. Valid(k, x) /\ Wakeful(x) /\ Hands(x, c) /\ (Recovers(x) <=> Recovers(run[r]))
    BY <1>1, <2>1 DEF Valid, Wakeful, Hands, Recovers
  <2> QED BY <1>4, <1>6, <1>8, <2>1, <2>2, <2>3
<1> QED BY <1>1, <1>7, <1>8 DEF Outbox!Deliver, Outbox!Goes, Outbox!Faulty, Stays

\* What is left of a sequence without its first elements.
LEMMA SuffixOf ==
    ASSUME NEW S, NEW s \in Seq(S), NEW m \in 0..Len(s), NEW t, t = SubSeq(s, m + 1, Len(s))
    PROVE  t \in Seq(S) /\ Len(t) = Len(s) - m /\ \A i \in 1..(Len(s) - m) : t[i] = s[m + i]
<1>1. Len(s) \in Nat /\ m \in Nat /\ m + 1 \in Int /\ Len(s) \in Int
  OBVIOUS
<1>2. \A i \in (m + 1)..Len(s) : s[i] \in S
  BY <1>1
<1>3. t \in Seq(S)
  BY <1>1, <1>2
<1>4. Len(t) = Len(s) - m
  BY <1>1, <1>2
<1>5. \A i \in 1..(Len(s) - m) : t[i] = s[m + i]
  BY <1>1, <1>2
<1> QED BY <1>3, <1>4, <1>5

\* The rows that are a day old leave the table, the earliest ones.
LEMMA PruneKeepsOutbox ==
    ASSUME NEW k, OutboxConstants(k), OutboxInvariant(k), NEW r \in k.runtimes, Outbox(k)!Prune(r)
    PROVE  OutboxInvariant(k)'
<1> DEFINE x == [run[r] EXCEPT !.pc = "refresh"]
<1>1. /\ run[r] \in Workers(k) /\ run[r].pc = "prune" /\ run' = [run EXCEPT ![r] = x]
      /\ UNCHANGED <<emitted, crashes>>
  BY WorkerWell DEF Outbox!Prune, Outbox!At, Outbox!Goes
<1>2. x \in Workers(k) /\ x.pc = "refresh" /\ x.recover = run[r].recover
  BY <1>1 DEF Workers
<1> HIDE DEF x
<1>3. /\ Steps(k, r, x) /\ Valid(k, x) /\ Wakeful(x) /\ (Recovers(x) <=> Recovers(run[r]))
      /\ \A c : ~Emits(x, c) /\ ~Emits(run[r], c) /\ ~Hands(run[r], c)
  BY <1>1, <1>2 DEF Steps, Valid, Wakeful, Recovers, Emits, Hands
<1>4. faults \in Nat /\ crashes \in Nat /\ crashes' \in Nat
  BY <1>1, WorkerWell
<1>5. ASSUME NEW n \in {0, 1}, faults' = faults + n, \A c \in k.claims : Waits(c)' = Waits(c)
      PROVE  Pays(k, r, x) /\ faults' \in Nat
  <2>1. faults' \in Nat /\ faults' + crashes' = faults + crashes + n
    BY <1>1, <1>4, <1>5
  <2>2. ASSUME NEW d \in k.claims
        PROVE  emitted'[d] + Charge(x, d) + Waits(d)' <= emitted[d] + Charge(run[r], d) + Waits(d) + n
    <3>1. Charge(x, d) = Charge(run[r], d) /\ Waits(d)' = Waits(d) /\ emitted'[d] = emitted[d]
      BY <1>1, <1>3, <1>5 DEF Charge
    <3> QED BY <3>1, CountsAreNat
  <2> QED BY <1>1, <1>4, <2>1, <2>2, PaidFor DEF OutboxInvariant, OutboxSound, OutboxTyped
<1>6. CASE UNCHANGED <<out, order, ripe>> /\ faults' = faults + 1
  <2>1. Ordered(k) => HandsOn(k, r, x)
    BY <1>2, <1>3, <1>6 DEF HandsOn
  <2>2. \A c \in k.claims : Waits(c)' = Waits(c)
    BY <1>6 DEF Waits
  <2> QED BY <1>1, <1>2, <1>3, <1>4, <1>5, <1>6, <2>1, <2>2, RowsStay
<1>7. CASE /\ out' = Outbox(k)!Pruned /\ order' = SubSeq(order, ripe + 1, Len(order)) /\ ripe' = 0
           /\ faults' = faults
  <2> DEFINE old == {order[i] : i \in 1..ripe}
  <2>1. /\ out \in [k.claims -> Row(k)] /\ order \in Seq(k.claims) /\ ripe \in 0..Len(order) /\ Len(order) \in Nat
        /\ emitted \in [k.claims -> Nat]
    BY DEF OutboxInvariant, OutboxSound, OutboxTyped, Row
  <2>2. out' = [c \in k.claims |-> IF c \in old THEN [state |-> "pruned", token |-> Nobody] ELSE out[c]]
    BY <1>7 DEF Outbox!Pruned, Outbox!Old, Outbox!Row
  <2>3. \A c \in old : out[c].state = "delivered"
    BY <2>1 DEF OutboxInvariant, OutboxSound, RowsAreInOrder
  <2> DEFINE n == Len(order) - ripe
  <2>4. /\ order' \in Seq(k.claims) /\ Len(order') = n
        /\ \A i \in 1..n : order'[i] = order[ripe + i]
    <3> DEFINE claims == k.claims
    <3>1. order \in Seq(claims) /\ ripe \in 0..Len(order) /\ order' = SubSeq(order, ripe + 1, Len(order))
      BY <1>7, <2>1
    <3> HIDE DEF claims
    <3>2. order' \in Seq(claims) /\ Len(order') = Len(order) - ripe
          /\ \A i \in 1..(Len(order) - ripe) : order'[i] = order[ripe + i]
      BY <3>1, SuffixOf
    <3> QED BY <3>2 DEF claims
  <2>5. ASSUME NEW i \in 1..n
        PROVE  ripe + i \in 1..Len(order) /\ order[ripe + i] \in k.claims /\ order[ripe + i] \notin old
    <3>1. ripe + i \in 1..Len(order) /\ ripe + i \notin 1..ripe
      BY <2>1
    <3>2. order[ripe + i] \in k.claims
      BY <2>1, <3>1, ElementOfSeq
    <3>3. \A j \in 1..ripe : order[j] # order[ripe + i]
      BY <2>1, <3>1 DEF OutboxInvariant, OutboxSound, RowsAreInOrder
    <3> QED BY <3>1, <3>2, <3>3
  <2>6. /\ out' \in [k.claims -> Row(k)]
        /\ \A c \in k.claims : out'[c] = out[c] \/ (out[c].state = "delivered" /\ out'[c].state = "pruned")
    BY <2>1, <2>2, <2>3 DEF Row
  <2>7. \A c \in k.claims : c \notin old => out'[c] = out[c]
    BY <2>2
  <2> HIDE DEF old
  <2>8. OutboxTyped(k)'
    <3>1. run' \in [k.runtimes -> Workers(k)]
      BY <1>3, OthersStay DEF OutboxInvariant, OutboxSound
    <3>2. ripe' \in 0..Len(order')
      BY <1>7, <2>1, <2>4
    <3>3. emitted' \in [k.claims -> Nat] /\ faults' \in Nat /\ crashes' \in Nat
      BY <1>1, <1>4, <1>7, <2>1
    <3> QED BY <2>4, <2>6, <3>1, <3>2, <3>3 DEF OutboxTyped, Row
  <2>9. RowsAreInOrder(k)'
    <3>1. \A c \in k.claims : out'[c].state = "delivering" => out'[c].token \in k.runtimes
      BY <2>6 DEF OutboxInvariant, OutboxSound, RowsAreInOrder
    <3>2. ASSUME NEW i \in 1..Len(order') PROVE out'[order'[i]].state = "delivered"
      <4>1. i \in 1..n /\ order'[i] = order[ripe + i]
        BY <2>4
      <4>2. out[order[ripe + i]].state = "delivered"
        BY <2>5, <4>1 DEF OutboxInvariant, OutboxSound, RowsAreInOrder
      <4> QED BY <2>5, <2>7, <4>1, <4>2
    <3>3. ASSUME NEW i \in 1..Len(order'), NEW j \in 1..Len(order'), order'[i] = order'[j] PROVE i = j
      <4>1. i \in 1..n /\ j \in 1..n /\ order[ripe + i] = order[ripe + j]
        BY <2>4, <3>3
      <4>2. ripe + i = ripe + j
        BY <2>5, <4>1 DEF OutboxInvariant, OutboxSound, RowsAreInOrder
      <4> QED BY <2>1, <4>1, <4>2
    <3>4. \A s \in k.runtimes : run'[s].pc \in {"claim", "emit", "deliver", "release"} => run'[s].at \in k.claims
      BY <1>2, <1>3, OthersStay DEF OutboxInvariant, OutboxSound, RowsAreInOrder
    <3>5. \A s \in k.runtimes : run'[s].pc = "recover" => run'[s].recover
      BY <1>2, <1>3, OthersStay DEF OutboxInvariant, OutboxSound, RowsAreInOrder
    <3> QED BY <3>1, <3>2, <3>3, <3>4, <3>5 DEF RowsAreInOrder
  <2>10. LoggedFirst(k)'
    <3>1. \A d \in k.claims : out'[d].state \in {"delivered", "pruned"} => emitted[d] > 0
      BY <2>6 DEF OutboxInvariant, OutboxSound, LoggedFirst
    <3>2. \A s \in k.runtimes : run'[s].pc = "deliver" => emitted[run'[s].at] > 0
      BY <1>2, <1>3, OthersStay DEF OutboxInvariant, OutboxSound, LoggedFirst
    <3> QED BY <1>1, <3>1, <3>2 DEF LoggedFirst
  <2>11. OutboxSound(k)'
    BY <2>8, <2>9, <2>10 DEF OutboxSound
  <2>12. Ordered(k) => HandsOn(k, r, x)
    BY <1>2, <1>3, <2>6 DEF HandsOn
  <2>13. \A c \in k.claims : Waits(c)' = Waits(c)
    BY <2>6 DEF Waits
  <2>14. Pays(k, r, x)
    <3>1. faults' = faults + 0
      BY <1>4, <1>7
    <3> QED BY <1>5, <2>13, <3>1
  <2> QED BY <1>2, <1>3, <2>11, <2>12, <2>14, FromSound
<1> QED BY <1>6, <1>7 DEF Outbox!Prune, Outbox!Faulty

LEMMA RipenKeepsOutbox ==
    ASSUME NEW k, OutboxInvariant(k), Outbox(k)!Ripen
    PROVE  OutboxInvariant(k)'
<1>1. ripe < Len(order) /\ ripe' = ripe + 1 /\ UNCHANGED <<out, order, emitted, run, faults, crashes>>
  BY DEF Outbox!Ripen
<1>2. ripe' \in 0..Len(order) /\ order \in Seq(k.claims)
  BY <1>1 DEF OutboxInvariant, OutboxSound, OutboxTyped
<1>3. OutboxSound(k)'
  BY <1>1, <1>2 DEF OutboxInvariant, OutboxSound, OutboxTyped, RowsAreInOrder, LoggedFirst
<1>4. IntentsWatched(k)' /\ NothingYet(k)'
  BY <1>1 DEF OutboxInvariant, IntentsWatched, Ordered, PendingWatched, DeliveringWatched, Handed, Wakeful, Hands,
              Recovers, NothingYet, NeverStarted
<1>5. RepeatsPaid(k)'
  <2>1. \A c : Owed(k, c)' = Owed(k, c)
    BY <1>1 DEF Owed, Emitting, Recovering, Waits, Emits, Recovers
  <2> QED BY <1>1, <2>1 DEF OutboxInvariant, RepeatsPaid, NeverStarted
<1> QED BY <1>3, <1>4, <1>5 DEF OutboxInvariant

-----------------------------------------------------------------------------
(* The audit outbox: the theorem                                           *)

LEMMA OutboxNext ==
    ASSUME NEW k, OutboxConstants(k), OutboxInvariant(k), Outbox(k)!Next
    PROVE  OutboxInvariant(k)'
<1>1. ASSUME NEW r \in k.runtimes, Outbox(k)!DrainStep(r) PROVE OutboxInvariant(k)'
  BY <1>1, RecoverKeepsOutbox, SelectKeepsOutbox, ClaimKeepsOutbox, EmitKeepsOutbox, DeliverKeepsOutbox,
     ReleaseKeepsOutbox, PruneKeepsOutbox, RefreshKeepsOutbox, RefreshAnsweredKeepsOutbox DEF Outbox!DrainStep
<1>2. ASSUME NEW r \in k.runtimes, Outbox(k)!Fires(r) \/ Outbox(k)!Start(r) \/ Outbox(k)!Dies(r)
      PROVE  OutboxInvariant(k)'
  BY <1>2, FiresKeepsOutbox, StartKeepsOutbox, DiesKeepsOutbox
<1>3. ASSUME NEW r \in k.runtimes, NEW c \in k.claims, Outbox(k)!Commit(r, c) \/ Outbox(k)!CommitUnanswered(r, c)
      PROVE  OutboxInvariant(k)'
  BY <1>3, CommitKeepsOutbox, CommitUnansweredKeepsOutbox
<1> QED BY <1>1, <1>2, <1>3, RipenKeepsOutbox DEF Outbox!Next

LEMMA OutboxInit ==
    ASSUME NEW k, OutboxConstants(k), Outbox(k)!Init
    PROVE  OutboxInvariant(k)
<1>1. /\ out = [c \in k.claims |-> [state |-> "none", token |-> Nobody]] /\ order = <<>> /\ ripe = 0
      /\ emitted = [c \in k.claims |-> 0] /\ faults = 0 /\ crashes = 0
      /\ run = [r \in k.runtimes |-> [pc |-> "off", batch |-> {}, at |-> Nobody, recover |-> FALSE,
                                      wake |-> "none", timer |-> "none"]]
  BY DEF Outbox!Init, Outbox!NoRow, Outbox!Off
<1>2. order \in Seq(k.claims) /\ Len(order) = 0
  BY <1>1, EmptySeq
<1>3. OutboxTyped(k)
  <2>1. ripe \in 0..Len(order)
    BY <1>1, <1>2
  <2> QED BY <1>1, <1>2, <2>1 DEF OutboxTyped, Workers
<1>4. (\A r \in k.runtimes : run[r].pc = "off" /\ Recovers(run[r])) /\ \A c \in k.claims : out[c].state = "none"
  BY <1>1 DEF Recovers
<1>5. RowsAreInOrder(k) /\ LoggedFirst(k)
  BY <1>2, <1>4 DEF RowsAreInOrder, LoggedFirst
<1>6. IntentsWatched(k)
  BY <1>4 DEF IntentsWatched, PendingWatched, DeliveringWatched
<1>7. NothingYet(k)
  BY <1>1 DEF NothingYet
<1>8. RepeatsPaid(k)
  <2> SUFFICES ASSUME NEW c \in k.claims
               PROVE  emitted[c] + Owed(k, c)
                        <= faults + crashes + Cardinality(k.runtimes) + (IF NeverStarted(k) THEN 1 ELSE 0)
    BY DEF RepeatsPaid
  <2>1. Emitting(k, c) = {} /\ Recovering(k) = k.runtimes /\ NeverStarted(k)
    BY <1>1, <1>4 DEF Emitting, Recovering, Emits, NeverStarted
  <2>2. Cardinality(Emitting(k, c)) = 0 /\ Waits(c) = 1 /\ emitted[c] = 0
    BY <1>1, <1>4, <2>1, FS_EmptySet DEF Waits
  <2>3. Cardinality(k.runtimes) \in Nat
    BY FS_CardinalityType DEF OutboxConstants
  <2> DEFINE n == Cardinality(k.runtimes)
  <2>4. Owed(k, c) = 0 + n + 1
    BY <2>1, <2>2 DEF Owed
  <2> QED BY <1>1, <2>1, <2>2, <2>3, <2>4
<1> QED BY <1>3, <1>5, <1>6, <1>7, <1>8 DEF OutboxInvariant, OutboxSound

LEMMA OutboxConclusions ==
    ASSUME NEW k, OutboxConstants(k), OutboxInvariant(k)
    PROVE  /\ Outbox(k)!TypeOK /\ EventsAreLogged(k)
           /\ Ordered(k) => IntentsAreCovered(k)
<1>1. OutboxTyped(k) /\ RowsAreInOrder(k) /\ LoggedFirst(k) /\ IntentsWatched(k) /\ RepeatsPaid(k)
  BY DEF OutboxInvariant, OutboxSound
<1>2. Outbox(k)!TypeOK
  <2>1. DOMAIN order = 1..Len(order)
    BY <1>1 DEF OutboxTyped
  <2>2. \A r \in k.runtimes : run[r] \in Workers(k)
    BY <1>1 DEF OutboxTyped
  <2>3. \A i, j \in DOMAIN order : order[i] = order[j] => i = j
    BY <1>1, <2>1 DEF RowsAreInOrder
  <2>4. \A c \in k.claims : /\ out[c].state \in {"none", "pending", "delivering", "delivered", "pruned"}
                            /\ out[c].token \in k.runtimes \union {Nobody}
    BY <1>1 DEF OutboxTyped
  <2>5. \A r \in k.runtimes : /\ run[r].batch \subseteq k.claims /\ run[r].at \in k.claims \union {Nobody}
                              /\ run[r].timer \in {"none", "soon", "later"} /\ run[r].wake \in {"none", "soon", "later"}
    BY <2>2 DEF Workers
  <2> QED BY <1>1, <2>3, <2>4, <2>5 DEF Outbox!TypeOK, Outbox!Waking, OutboxTyped
<1>3. Outbox(k)!DeliveredIsLogged
  BY <1>1 DEF LoggedFirst, Outbox!DeliveredIsLogged
<1>4. Outbox(k)!RepeatsAreCaused
  <2> SUFFICES ASSUME NEW c \in k.claims
               PROVE  emitted[c] <= 1 + faults + crashes + (Cardinality(k.runtimes) - 1)
    BY DEF Outbox!RepeatsAreCaused, Outbox!Cardinality, Cardinality
  <2> DEFINE n == Cardinality(k.runtimes)
  <2>1. n \in Nat
    BY FS_CardinalityType DEF OutboxConstants
  <2>2. IsFiniteSet(Emitting(k, c)) /\ IsFiniteSet(Recovering(k))
    BY FS_Subset DEF Emitting, Recovering, OutboxConstants
  <2>3. Cardinality(Emitting(k, c)) \in Nat /\ Cardinality(Recovering(k)) \in Nat /\ Waits(c) \in Nat
    BY <2>2, FS_CardinalityType DEF Waits
  <2> DEFINE owed == Owed(k, c)
  <2>4. owed \in Nat /\ emitted[c] \in Nat /\ faults \in Nat /\ crashes \in Nat
    BY <1>1, <2>3 DEF Owed, OutboxTyped
  <2>5. emitted[c] + owed <= faults + crashes + n + (IF NeverStarted(k) THEN 1 ELSE 0)
    BY <1>1 DEF RepeatsPaid
  <2>6. NeverStarted(k) => emitted[c] = 0
    BY DEF OutboxInvariant, NothingYet
  <2>7. emitted[c] <= 1 + faults + crashes + (n - 1)
    <3> HIDE DEF n, owed
    <3>1. CASE NeverStarted(k)
      BY <2>1, <2>4, <2>6, <3>1
    <3>2. CASE ~NeverStarted(k)
      BY <2>1, <2>4, <2>5, <3>2
    <3> QED BY <3>1, <3>2
  <2> QED BY <2>7
<1>5. Ordered(k) => Outbox(k)!PendingIsCovered
  BY <1>1 DEF IntentsWatched, PendingWatched, Wakeful, Outbox!PendingIsCovered, Outbox!InFlight, Outbox!At
<1>6. Ordered(k) => Outbox(k)!DeliveringIsCovered
  BY <1>1 DEF IntentsWatched, DeliveringWatched, Handed, Hands, Recovers, Outbox!DeliveringIsCovered, Outbox!At
<1> QED BY <1>2, <1>3, <1>4, <1>5, <1>6 DEF EventsAreLogged, IntentsAreCovered

LEMMA OutboxRests ==
    ASSUME NEW k, OutboxInvariant(k), UNCHANGED <<outboxVars, faults, crashes>>
    PROVE  OutboxInvariant(k)'
<1>1. UNCHANGED <<out, order, ripe, emitted, run, faults, crashes>>
  BY DEF outboxVars
<1>2. OutboxSound(k)'
  BY <1>1 DEF OutboxInvariant, OutboxSound, OutboxTyped, RowsAreInOrder, LoggedFirst
<1>3. IntentsWatched(k)' /\ NothingYet(k)'
  BY <1>1 DEF OutboxInvariant, IntentsWatched, Ordered, PendingWatched, DeliveringWatched, Handed, Wakeful, Hands,
              Recovers, NothingYet, NeverStarted
<1>4. RepeatsPaid(k)'
  <2>1. \A c : Owed(k, c)' = Owed(k, c)
    BY <1>1 DEF Owed, Emitting, Recovering, Waits, Emits, Recovers
  <2> QED BY <1>1, <2>1 DEF OutboxInvariant, RepeatsPaid, NeverStarted
<1> QED BY <1>2, <1>3, <1>4 DEF OutboxInvariant

\* An audit intent is acknowledged, and pruned, only when its event is in the log, and is never
\* left alone where statements are answered in order and none is lost; an event is repeated only
\* for a failure, an end, or a start: for any runtimes, claims, failures and crashes.
THEOREM OutboxStaysSafe == MCSpec => []OutboxIsSafe
<1> DEFINE I == /\ part = "outbox" => OutboxInvariant(Shared)
                /\ part = "lossy outbox" => OutboxInvariant(Lossy)
                /\ part = "fair outbox" => OutboxInvariant(Single)
<1>1. \A k \in {Shared, Lossy, Single} : OutboxConstants(k)
  BY OutboxAssumption DEF OutboxConstants, Outbox!OutboxAssumption, Outbox!IsFiniteSet, IsFiniteSet
<1>2. Ordered(Shared) /\ Ordered(Single)
  BY OutboxAssumption DEF Ordered
<1>3. ASSUME MCInit PROVE I
  BY <1>1, <1>3, OutboxInit DEF MCInit
<1>4. ASSUME I, [MCNext]_allVars PROVE I'
  <2>1. CASE UNCHANGED <<part, outboxVars, faults, crashes>>
    BY <1>4, <2>1, OutboxRests
  <2>2. CASE part \notin {"outbox", "lossy outbox", "fair outbox"} /\ part' = part
    BY <2>2
  <2>3. CASE part = "outbox" /\ Outbox(Shared)!Next /\ part' = part
    BY <1>1, <1>4, <2>3, OutboxNext
  <2>4. CASE part = "lossy outbox" /\ Outbox(Lossy)!Next /\ part' = part
    BY <1>1, <1>4, <2>4, OutboxNext
  <2>5. CASE part = "fair outbox" /\ Outbox(Single)!Next /\ part' = part
    BY <1>1, <1>4, <2>5, OutboxNext
  <2> HIDE DEF I
  <2>6. CASE UNCHANGED allVars
    BY <2>1, <2>6 DEF allVars, vars
  <2>7. CASE MCNext
    BY <2>2, <2>3, <2>4, <2>5, <2>7 DEF MCNext, IngressMoves, UploadsMove, OutboxMoves
  <2> QED BY <1>4, <2>6, <2>7
<1>5. ASSUME I PROVE OutboxIsSafe
  BY <1>1, <1>2, <1>5, OutboxConclusions DEF OutboxIsSafe
<1> QED BY <1>3, <1>4, <1>5, PTL DEF MCSpec

-----------------------------------------------------------------------------
(* Ingress: the inductive invariant                                        *)

LastOf(S) == CHOOSE x \in S : \A y \in S : x >= y
FirstOf(S) == CHOOSE x \in S : \A y \in S : x <= y

IngressConstants(k) ==
  k.parts \subseteq Nat /\ IsFiniteSet(k.parts) /\ k.parts # {} /\ Nobody \notin k.requests \union k.sweepers

RequestStates(k) ==
  [pc : {"insert", "read", "write", "publish", "undo", "cleanup", "erase", "staged", "claimed", "failed", "dead"},
   part : k.parts \union {LastOf(k.parts) + 1}, won : SUBSET k.parts,
   adopted : [k.parts -> k.requests \union {Nobody}], claims : SUBSET k.parts]

\* A request that stages has a current part, one that erases won a receipt, and only one that
\* committed has claims.
RequestWell(k, q) ==
  /\ q \in RequestStates(k)
  /\ q.pc \in {"insert", "read", "write", "publish", "undo"} => q.part \in k.parts
  /\ q.pc = "erase" => q.won # {}
  /\ q.claims # {} => q.pc = "claimed"

SweepStates(k) ==
  [pc : {"idle", "arm", "delete", "retire"}, queue : SUBSET (k.parts \X k.requests),
   at : k.parts \X (k.requests \union {Nobody})]

SweepWell(k, w) ==
  /\ w \in SweepStates(k)
  /\ w.pc \in {"delete", "retire"} => w.at \in k.parts \X k.requests

ReceiptStates(k) ==
  [state : {"none", "staging", "leased", "sweeping", "complete"}, lease : k.requests \union {Nobody},
   token : k.sweepers \union {Nobody}]

\* A receipt names the request that made it.
ReceiptWell(k, x) ==
  x \in ReceiptStates(k) /\ (x.state = "none" <=> x.lease = Nobody)

IngressTyped(k) ==
  /\ receipts \in [k.parts -> ReceiptStates(k)] /\ req \in [k.requests -> RequestStates(k)]
  /\ sweep \in [k.sweepers -> SweepStates(k)]
  /\ \A p \in k.parts : ReceiptWell(k, receipts[p])
  /\ stored \in [k.parts -> SUBSET k.requests] /\ expired \in [k.parts -> SUBSET k.requests]
  /\ \A r \in k.requests : RequestWell(k, req[r])
  /\ \A s \in k.sweepers : SweepWell(k, sweep[s])
  /\ faults \in Nat /\ crashes \in Nat

\* An identity is a request and a part. What becomes of it: the receipt that names it, the step of
\* its request, and the sweeps that have it in hand.
Status(p, r) == IF receipts[p].lease = r THEN receipts[p].state ELSE "absent"
Unspent(q, p) ==
  q.pc \in {"insert", "read", "write", "publish"} /\ (q.part < p \/ (q.part = p /\ q.pc = "insert"))
InHand(q, p, pcs) == q.part = p /\ q.pc \in pcs
Erases(q, p) == q.pc = "erase" /\ LastOf(q.won) = p
Cleans(k, p, r, pcs) == \E s \in k.sweepers : sweep[s].pc \in pcs /\ sweep[s].at = <<p, r>>
Quiet == faults = 0 /\ crashes = 0

\* An identity is inserted once. Until it is published its receipt is staging or lost to a sweep;
\* a lease has its bytes, and nobody who may remove them has one in hand. Where nothing failed,
\* bytes have a receipt, or somebody who removes them.
IdentityOK(k, p, r) ==
  /\ Unspent(req[r], p) => Status(p, r) = "absent" /\ ~Cleans(k, p, r, {"delete", "retire"})
  /\ InHand(req[r], p, {"write", "publish", "undo"}) => Status(p, r) \notin {"leased", "complete"}
  /\ InHand(req[r], p, {"publish"}) /\ Status(p, r) = "staging" => r \in stored[p]
  /\ Erases(req[r], p) => Status(p, r) = "absent"
  /\ Cleans(k, p, r, {"delete", "retire"}) => Status(p, r) \in {"absent", "sweeping"}
  /\ Status(p, r) \in {"leased", "complete"} => r \in stored[p]

IdentityKnown(k, p, r) ==
  /\ r \in stored[p] => \/ Status(p, r) # "absent" \/ InHand(req[r], p, {"publish", "undo"})
                        \/ Erases(req[r], p) \/ Cleans(k, p, r, {"delete"})
  /\ r \in stored[p] /\ Cleans(k, p, r, {"retire"}) => InHand(req[r], p, {"publish", "undo"})

IdentitiesOK(k) ==
  \A p \in k.parts, r \in k.requests : IdentityOK(k, p, r) /\ (Quiet => IdentityKnown(k, p, r))

\* A File's identity is that of a completed receipt, which stays; who was told of Files was told
\* of these.
FilesComplete(k) ==
  /\ handed \in [k.parts -> SUBSET k.requests]
  /\ \A p \in k.parts : handed[p] = IF receipts[p].state = "complete" THEN {receipts[p].lease} ELSE {}
ClaimsComplete(k) ==
  \A r \in k.requests : \A p \in req[r].claims :
    receipts[p].state = "complete" /\ receipts[p].lease = req[r].adopted[p]

IngressInvariant(k) == IngressTyped(k) /\ IdentitiesOK(k) /\ FilesComplete(k) /\ ClaimsComplete(k)

-----------------------------------------------------------------------------
(* The parts of a request have a first and a last one                      *)

LEMMA LeastOf ==
    ASSUME NEW T, T \subseteq Nat, T # {}
    PROVE  \E t \in T : \A s \in T : t <= s
<1> DEFINE smaller == OpToRel(<, Nat)
<1>1. IsWellFoundedOn(smaller, Nat)
  BY NatLessThanWellFounded
<1>2. \A s, t \in Nat : <<s, t>> \in smaller <=> s < t
  BY DEF OpToRel
<1> HIDE DEF smaller
<1>3. PICK t \in T : \A s \in T : ~(<<s, t>> \in smaller)
  BY <1>1, WFMin
<1>4. \A s \in T : ~(s < t) /\ s \in Nat /\ t \in Nat
  BY <1>2, <1>3
<1>5. \A s \in T : t <= s
  BY <1>4
<1> QED BY <1>3, <1>5

LEMMA LastOfSet ==
    ASSUME NEW S, S \subseteq Nat, IsFiniteSet(S), S # {}
    PROVE  LastOf(S) \in S /\ \A y \in S : LastOf(S) >= y
<1> DEFINE Endless(T) == T \in SUBSET S /\ T # {} /\ ~\E x \in T : \A y \in T : x >= y
           Sizes == {n \in Nat : \E T \in SUBSET S : Endless(T) /\ Cardinality(T) = n}
<1>1. \A T \in SUBSET S : IsFiniteSet(T) /\ Cardinality(T) \in Nat
  BY FS_Subset, FS_CardinalityType
<1>2. ASSUME Sizes # {} PROVE FALSE
  <2>1. PICK n \in Sizes : \A m \in Sizes : n <= m
    BY <1>2, LeastOf
  <2>2. PICK T \in SUBSET S : Endless(T) /\ Cardinality(T) = n
    OBVIOUS
  <2>3. PICK x \in T : TRUE
    BY <2>2
  <2> DEFINE U == T \ {x}
  <2>4. Cardinality(U) = n - 1 /\ IsFiniteSet(U)
    BY <1>1, <2>2, <2>3, FS_RemoveElement
  <2>5. n \in Nat /\ n - 1 \in Nat
    BY <1>1, <2>4
  <2>6. n - 1 \notin Sizes
    BY <2>1, <2>5
  <2>7. ~Endless(U)
    BY <2>4, <2>5, <2>6
  <2>8. CASE U = {}
    BY <2>2, <2>3, <2>8
  <2>9. CASE U # {}
    <3>1. PICK z \in U : \A y \in U : z >= y
      BY <2>7, <2>9
    <3>2. x \in Nat /\ z \in Nat /\ (x >= z \/ z >= x) /\ \A y \in U : y \in Nat
      BY <2>3, <3>1
    <3>3. CASE z >= x
      BY <2>2, <2>3, <3>1, <3>3
    <3>4. CASE x >= z
      <4>1. \A y \in T : x >= y
        BY <3>1, <3>2, <3>4
      <4> QED BY <2>2, <2>3, <4>1
    <3> QED BY <3>2, <3>3, <3>4
  <2> QED BY <2>8, <2>9
<1>3. ~Endless(S)
  BY <1>1, <1>2
<1>4. \E x \in S : \A y \in S : x >= y
  BY <1>3
<1> QED BY <1>4 DEF LastOf

LEMMA FirstOfSet ==
    ASSUME NEW S, S \subseteq Nat, S # {}
    PROVE  FirstOf(S) \in S /\ \A y \in S : FirstOf(S) <= y
<1>1. \E x \in S : \A y \in S : x <= y
  BY LeastOf
<1> QED BY <1>1 DEF FirstOf

LEMMA LastsAreThese ==
    ASSUME NEW k, NEW S
    PROVE  Ingress(k)!Max(S) = LastOf(S) /\ Ingress(k)!Min(S) = FirstOf(S)
BY DEF Ingress!Max, Ingress!Min, LastOf, FirstOf

-----------------------------------------------------------------------------
(* Ingress: what a step of a request leaves to prove                       *)

\* The request has nothing of this part in hand.
Busy == {"write", "publish", "undo"}
Away(q, p) == ~InHand(q, p, Busy) /\ ~InHand(q, p, {"publish"}) /\ ~InHand(q, p, {"publish", "undo"}) /\ ~Erases(q, p)

LEMMA NobodyNear ==
    ASSUME NEW q, NEW p, q.part # p \/ q.pc \notin Busy, q.pc # "erase" \/ LastOf(q.won) # p
    PROVE  Away(q, p)
BY DEF Away, InHand, Erases, Busy

LEMMA SameCleaning ==
    ASSUME NEW k, sweep' = sweep, NEW p, NEW r, NEW pcs
    PROVE  Cleans(k, p, r, pcs)' <=> Cleans(k, p, r, pcs)
BY DEF Cleans

\* An identity whose request did not turn to it.
LEMMA OtherIdentity ==
    ASSUME NEW k, NEW p, NEW r,
           IdentityOK(k, p, r), Quiet => IdentityKnown(k, p, r), Quiet' => Quiet,
           \A pcs \in SUBSET {"delete", "retire"} : Cleans(k, p, r, pcs)' <=> Cleans(k, p, r, pcs),
           (r \in stored[p])' <=> r \in stored[p],
           Status(p, r)' = Status(p, r) \/ (Status(p, r) = "leased" /\ Status(p, r)' = "complete"),
           \/ (req[r])' = req[r]
           \/ /\ Unspent(req[r], p)' => Unspent(req[r], p)
              /\ Away(req[r], p)' /\ (Quiet' => Away(req[r], p))
    PROVE  IdentityOK(k, p, r)' /\ (Quiet' => IdentityKnown(k, p, r)')
<1>1. PICK st : st = Status(p, r)
  OBVIOUS
<1>2. PICK su : su = Status(p, r)'
  OBVIOUS
<1>3. /\ su = st \/ (st = "leased" /\ su = "complete")
      /\ Cleans(k, p, r, {"delete", "retire"})' <=> Cleans(k, p, r, {"delete", "retire"})
      /\ Cleans(k, p, r, {"delete"})' <=> Cleans(k, p, r, {"delete"})
      /\ Cleans(k, p, r, {"retire"})' <=> Cleans(k, p, r, {"retire"})
  BY <1>1, <1>2
<1>4. CASE (req[r])' = req[r]
  <2>1. IdentityOK(k, p, r)'
    BY <1>1, <1>2, <1>3, <1>4 DEF IdentityOK, Unspent, InHand, Erases
  <2>2. IdentityKnown(k, p, r) => IdentityKnown(k, p, r)'
    BY <1>1, <1>2, <1>3, <1>4 DEF IdentityKnown, InHand, Erases
  <2> QED BY <2>1, <2>2
<1>5. CASE /\ Unspent(req[r], p)' => Unspent(req[r], p)
           /\ Away(req[r], p)' /\ (Quiet' => Away(req[r], p))
  <2>1. ~InHand(req[r], p, Busy)' /\ ~InHand(req[r], p, {"publish"})' /\ ~Erases(req[r], p)'
    BY <1>5 DEF Away
  <2>2. IdentityOK(k, p, r)'
    BY <1>1, <1>2, <1>3, <1>5, <2>1 DEF IdentityOK, Busy
  <2>3. ASSUME Quiet' PROVE IdentityKnown(k, p, r)'
    <3>1. IdentityKnown(k, p, r) /\ Away(req[r], p)
      BY <1>5, <2>3
    <3>2. ~InHand(req[r], p, {"publish", "undo"}) /\ ~Erases(req[r], p)
      BY <3>1 DEF Away
    <3> QED BY <1>1, <1>2, <1>3, <3>1, <3>2 DEF IdentityKnown
  <2> QED BY <2>2, <2>3
<1> QED BY <1>4, <1>5

\* What a step of request r at its part p has to show: about its own identity only.
LEMMA RequestMoves ==
    ASSUME NEW k, IngressConstants(k), IngressInvariant(k), NEW r \in k.requests, NEW p \in k.parts,
           NEW n, RequestWell(k, n), n.claims = {}, req[r].claims = {},
           req' = [req EXCEPT ![r] = n], sweep' = sweep, expired' = expired, handed' = handed,
           faults' \in Nat, crashes' \in Nat, Quiet' => Quiet,
           receipts' \in [k.parts -> ReceiptStates(k)], ReceiptWell(k, receipts'[p]),
           \A x \in k.parts \ {p} : receipts'[x] = receipts[x] /\ stored'[x] = stored[x],
           stored' \in [k.parts -> SUBSET k.requests],
           \A y \in k.requests \ {r} : y \in stored'[p] <=> y \in stored[p],
           \/ receipts'[p] = receipts[p]
           \/ /\ receipts[p].lease \in {r, Nobody} /\ receipts'[p].lease \in {r, Nobody}
              /\ receipts[p].state # "complete" /\ receipts'[p].state # "complete",
           \A x \in k.parts \ {p} :
             /\ Unspent(n, x) => Unspent(req[r], x)
             /\ Away(n, x) /\ (Quiet' => Away(req[r], x)),
           IdentityOK(k, p, r)', Quiet' => IdentityKnown(k, p, r)'
    PROVE  IngressInvariant(k)'
<1>1. Nobody \notin k.requests
  BY DEF IngressConstants
<1>2. req'[r] = n /\ \A y \in k.requests \ {r} : req'[y] = req[y]
  BY DEF IngressInvariant, IngressTyped
<1>3. IngressTyped(k)'
  <2>1. req' \in [k.requests -> RequestStates(k)] /\ \A y \in k.requests : RequestWell(k, req'[y])
    BY <1>2 DEF IngressInvariant, IngressTyped, RequestWell
  <2>2. \A x \in k.parts : ReceiptWell(k, receipts'[x])
    BY DEF IngressInvariant, IngressTyped
  <2> QED BY <2>1, <2>2 DEF IngressInvariant, IngressTyped, SweepWell, SweepStates, RequestStates, RequestWell,
             ReceiptStates, ReceiptWell
<1>4. IdentitiesOK(k)'
  <2>1. SUFFICES ASSUME NEW x \in k.parts, NEW y \in k.requests, x # p \/ y # r
                 PROVE  IdentityOK(k, x, y)' /\ (Quiet' => IdentityKnown(k, x, y)')
    BY DEF IdentitiesOK
  <2>2. IdentityOK(k, x, y) /\ (Quiet => IdentityKnown(k, x, y))
    BY DEF IngressInvariant, IdentitiesOK
  <2>3. \A pcs : Cleans(k, x, y, pcs)' <=> Cleans(k, x, y, pcs)
    BY SameCleaning
  <2>4. (y \in stored[x])' <=> y \in stored[x]
    BY <2>1
  <2>5. Status(x, y)' = Status(x, y)
    BY <1>1, <2>1 DEF Status
  <2>6. \/ (req[y])' = req[y]
        \/ /\ Unspent(req[y], x)' => Unspent(req[y], x)
           /\ Away(req[y], x)' /\ (Quiet' => Away(req[y], x))
    <3>1. CASE y # r
      BY <1>2, <3>1
    <3>2. CASE y = r
      <4>1. x # p
        BY <2>1, <3>2
      <4>2. Unspent(req[y], x)' <=> Unspent(n, x)
        BY <1>2, <3>2 DEF Unspent
      <4>3. Away(req[y], x)' <=> Away(n, x)
        BY <1>2, <3>2 DEF Away, InHand, Erases, LastOf
      <4> QED BY <3>2, <4>1, <4>2, <4>3
    <3> QED BY <3>1, <3>2
  <2> QED BY <2>2, <2>3, <2>4, <2>5, <2>6, OtherIdentity
<1>5. FilesComplete(k)'
  <2>1. \A x \in k.parts : \/ receipts'[x] = receipts[x]
                           \/ receipts[x].state # "complete" /\ receipts'[x].state # "complete"
    OBVIOUS
  <2>2. FilesComplete(k) /\ handed' = handed
    BY DEF IngressInvariant
  <2>3. SUFFICES ASSUME NEW x \in k.parts
                 PROVE  handed'[x] = IF receipts'[x].state = "complete" THEN {receipts'[x].lease} ELSE {}
    BY <2>2 DEF FilesComplete
  <2>4. handed[x] = IF receipts[x].state = "complete" THEN {receipts[x].lease} ELSE {}
    BY <2>2 DEF FilesComplete
  <2> QED BY <2>1, <2>2, <2>4
<1>6. ClaimsComplete(k)'
  <2>1. SUFFICES ASSUME NEW y \in k.requests, NEW x \in req'[y].claims
                 PROVE  receipts'[x].state = "complete" /\ receipts'[x].lease = req'[y].adopted[x]
    BY DEF ClaimsComplete
  <2>2. y # r /\ req'[y] = req[y]
    BY <1>2
  <2>3. receipts[x].state = "complete" /\ receipts[x].lease = req[y].adopted[x] /\ x \in k.parts
    BY <2>2 DEF IngressInvariant, ClaimsComplete, IngressTyped, RequestStates
  <2>4. receipts'[x] = receipts[x]
    BY <2>3
  <2> QED BY <2>2, <2>3, <2>4
<1> QED BY <1>3, <1>4, <1>5, <1>6 DEF IngressInvariant

-----------------------------------------------------------------------------
(* Ingress: the steps that stage                                           *)

\* A request that adopts a lease of its part has this part behind it.
LEMMA Adopts ==
    ASSUME NEW k, IngressConstants(k), NEW q, RequestWell(k, q), q.claims = {},
           q.pc \in {"read", "publish"}, NEW lease \in k.requests \union {Nobody},
           NEW n, n = Ingress(k)!Adopt(q, lease)
    PROVE  /\ RequestWell(k, n) /\ n.claims = {} /\ ~Unspent(n, q.part)
           /\ \A x \in k.parts : Away(n, x)
           /\ \A x \in k.parts \ {q.part} : Unspent(n, x) => Unspent(q, x)
<1>1. PICK last : last = LastOf(k.parts)
  OBVIOUS
<1>2. last \in k.parts /\ (\A y \in k.parts : last >= y) /\ k.parts \subseteq Nat /\ q.part \in k.parts
  BY <1>1, LastOfSet DEF IngressConstants, RequestWell
<1>3. PICK later : later = {p \in k.parts : p > q.part}
  OBVIOUS
<1>4. PICK next : next = IF q.part = last THEN last + 1 ELSE FirstOf(later)
  OBVIOUS
<1>5. next \in k.parts \union {last + 1} /\ next > q.part /\ (next \notin k.parts => next = last + 1)
  <2>1. CASE q.part = last
    BY <1>2, <1>4, <2>1
  <2>2. CASE q.part # last
    <3>1. last \in later /\ later \subseteq Nat
      BY <1>2, <1>3, <2>2
    <3>2. FirstOf(later) \in later
      BY <3>1, FirstOfSet
    <3> QED BY <1>2, <1>3, <1>4, <2>2, <3>2
  <2> QED BY <2>1, <2>2
<1>6. PICK pc : pc = IF next = last + 1 THEN "staged" ELSE "insert"
  OBVIOUS
<1>7. n = [q EXCEPT !.adopted[q.part] = lease, !.part = next, !.pc = pc]
  <2>1. Ingress(k)!Max(k.parts) = last /\ Ingress(k)!Min(later) = FirstOf(later)
    BY <1>1, LastsAreThese
  <2> QED BY <1>3, <1>4, <1>6, <2>1 DEF Ingress!Adopt, Ingress!Beyond
<1>8. n.part = next /\ n.pc = pc /\ n.claims = {} /\ n.won = q.won
      /\ n.adopted = [q.adopted EXCEPT ![q.part] = lease] /\ n \in RequestStates(k)
  <2>1. q \in RequestStates(k) /\ pc \in {"staged", "insert"} /\ next \in k.parts \union {LastOf(k.parts) + 1}
    BY <1>1, <1>5, <1>6 DEF RequestWell
  <2>2. PICK rest : rest = k.parts \union {LastOf(k.parts) + 1}
    OBVIOUS
  <2>3. n.part = next /\ n.pc = pc /\ n.claims = {} /\ n.won = q.won
        /\ n.adopted = [q.adopted EXCEPT ![q.part] = lease]
        /\ n = [pc |-> pc, part |-> next, won |-> q.won, adopted |-> [q.adopted EXCEPT ![q.part] = lease],
                claims |-> {}]
    BY <1>7, <2>1 DEF RequestStates
  <2>4. [q.adopted EXCEPT ![q.part] = lease] \in [k.parts -> k.requests \union {Nobody}] /\ q.won \subseteq k.parts
    BY <2>1 DEF RequestStates
  <2> QED BY <2>1, <2>3, <2>4 DEF RequestStates
<1>9. RequestWell(k, n)
  BY <1>5, <1>6, <1>8 DEF RequestWell
<1>10. ~Unspent(n, q.part)
  BY <1>2, <1>5, <1>8 DEF Unspent
<1>11. \A x \in k.parts : Away(n, x)
  BY <1>6, <1>8 DEF Away, InHand, Erases, Busy
<1>12. ASSUME NEW x \in k.parts \ {q.part}, Unspent(n, x) PROVE Unspent(q, x)
  <2>1. next <= x /\ x \in Nat /\ next \in Nat /\ q.part \in Nat
    BY <1>2, <1>5, <1>8, <1>12 DEF Unspent
  <2>2. q.part < x
    BY <1>5, <2>1
  <2> QED BY <2>2 DEF Unspent
<1> QED BY <1>8, <1>9, <1>10, <1>11, <1>12

\* What an action starts from: the request is well formed, and so is what it will read.
LEMMA RequestIs ==
    ASSUME NEW k, IngressInvariant(k), NEW r \in k.requests
    PROVE  /\ RequestWell(k, req[r]) /\ req[r] \in RequestStates(k) /\ faults \in Nat /\ crashes \in Nat
           /\ \A p \in k.parts : /\ ReceiptWell(k, receipts[p]) /\ receipts[p] \in ReceiptStates(k)
                                 /\ IdentityOK(k, p, r) /\ (Quiet => IdentityKnown(k, p, r))
BY DEF IngressInvariant, IngressTyped, IdentitiesOK, RequestWell, ReceiptWell

LEMMA InsertKeeps ==
    ASSUME NEW k, IngressConstants(k), IngressInvariant(k), NEW r \in k.requests, Ingress(k)!Insert(r)
    PROVE  IngressInvariant(k)'
<1>1. PICK q, p : q = req[r] /\ p = q.part
  OBVIOUS
<1>2. q.pc = "insert" /\ p \in k.parts /\ RequestWell(k, q) /\ q \in RequestStates(k) /\ q.claims = {}
      /\ k.parts \subseteq Nat
  BY <1>1, RequestIs DEF Ingress!Insert, Ingress!AtStep, RequestWell, IngressConstants
<1>3. PICK c \in BOOLEAN : c = (receipts[p].state = "none")
  OBVIOUS
<1>4. PICK n : n = IF c THEN [q EXCEPT !.pc = "write", !.won = @ \union {p}] ELSE [q EXCEPT !.pc = "read"]
  OBVIOUS
<1>5. req' = [req EXCEPT ![r] = n] /\ sweep' = sweep /\ expired' = expired /\ handed' = handed
      /\ stored' = stored /\ faults' = faults /\ crashes' = crashes
      /\ receipts' = IF c THEN [receipts EXCEPT ![p] = [state |-> "staging", lease |-> r, token |-> Nobody]]
                     ELSE receipts
  BY <1>1, <1>3, <1>4 DEF Ingress!Insert, Ingress!Goes, Ingress!Sound
<1>6. n.part = p /\ n.claims = {} /\ n.pc = (IF c THEN "write" ELSE "read") /\ RequestWell(k, n)
  BY <1>1, <1>2, <1>4 DEF RequestWell, RequestStates
<1>7. receipts' \in [k.parts -> ReceiptStates(k)] /\ ReceiptWell(k, receipts'[p])
      /\ (\A x \in k.parts \ {p} : receipts'[x] = receipts[x])
      /\ (~c => receipts'[p] = receipts[p])
      /\ (c => receipts'[p] = [state |-> "staging", lease |-> r, token |-> Nobody]
               /\ receipts[p].lease = Nobody /\ receipts[p].state = "none")
  <2>1. receipts \in [k.parts -> ReceiptStates(k)] /\ ReceiptWell(k, receipts[p]) /\ r # Nobody
    BY <1>2 DEF IngressInvariant, IngressTyped, IngressConstants
  <2>2. PICK x : x = [state |-> "staging", lease |-> r, token |-> Nobody]
    OBVIOUS
  <2>3. x \in ReceiptStates(k) /\ ReceiptWell(k, x)
    BY <2>1, <2>2 DEF ReceiptStates, ReceiptWell
  <2>4. receipts' = IF c THEN [receipts EXCEPT ![p] = x] ELSE receipts
    BY <1>5, <2>2
  <2>5. c => receipts[p].lease = Nobody /\ receipts[p].state = "none"
    BY <1>3, <2>1 DEF ReceiptWell
  <2> QED BY <1>2, <2>1, <2>2, <2>3, <2>4, <2>5
<1>8. \A x \in k.parts \ {p} :
        (Unspent(n, x) => Unspent(q, x)) /\ Away(n, x) /\ Away(q, x)
  BY <1>1, <1>2, <1>6, NobodyNear DEF Unspent, Away, InHand, Erases
<1>9. Unspent(q, p)
  BY <1>1, <1>2 DEF Unspent
<1>10. (~\E s \in k.sweepers : sweep[s].pc \in {"delete", "retire"} /\ sweep[s].at = <<p, r>>)
       /\ Status(p, r) = "absent" /\ IdentityOK(k, p, r) /\ (Quiet => IdentityKnown(k, p, r))
  BY <1>1, <1>2, <1>9, RequestIs DEF IdentityOK, Cleans
<1>11. Status(p, r)' = (IF c THEN "staging" ELSE "absent") /\ req'[r] = n
  BY <1>2, <1>5, <1>7, <1>10 DEF Status, IngressInvariant, IngressTyped
<1>12. IdentityOK(k, p, r)'
  BY <1>2, <1>5, <1>6, <1>10, <1>11 DEF IdentityOK, Unspent, InHand, Erases, Cleans
<1>13. Quiet' => IdentityKnown(k, p, r)'
  BY <1>1, <1>2, <1>5, <1>6, <1>10, <1>11 DEF IdentityKnown, Quiet, InHand, Erases, Cleans
<1> QED BY <1>1, <1>2, <1>5, <1>6, <1>7, <1>8, <1>12, <1>13, RequestMoves, RequestIs
        DEF IngressInvariant, IngressTyped, Quiet

\* A request that stages, at its current part.
LEMMA AtPart ==
    ASSUME NEW k, IngressConstants(k), IngressInvariant(k), NEW r \in k.requests, NEW q, q = req[r],
           q.pc \in {"insert", "read", "write", "publish", "undo"}, NEW p, p = q.part
    PROVE  /\ p \in k.parts /\ k.parts \subseteq Nat /\ r # Nobody
           /\ RequestWell(k, q) /\ q \in RequestStates(k) /\ q.claims = {}
           /\ \A x \in k.parts \ {p} : Away(q, x)
           /\ ReceiptWell(k, receipts[p]) /\ receipts[p] \in ReceiptStates(k)
           /\ IdentityOK(k, p, r) /\ (Quiet => IdentityKnown(k, p, r))
<1>1. RequestWell(k, q) /\ p \in k.parts /\ k.parts \subseteq Nat /\ r # Nobody
  BY RequestIs DEF RequestWell, IngressConstants
<1>2. q \in RequestStates(k) /\ q.claims = {}
  BY <1>1 DEF RequestWell
<1>3. \A x \in k.parts \ {p} : Away(q, x)
  BY DEF Away, InHand, Erases
<1> QED BY <1>1, <1>2, <1>3, RequestIs

LEMMA ReceiptWritten ==
    ASSUME NEW k, IngressInvariant(k), NEW p \in k.parts, NEW x, ReceiptWell(k, x),
           receipts' \in {receipts, [receipts EXCEPT ![p] = x]}
    PROVE  /\ receipts' \in [k.parts -> ReceiptStates(k)] /\ ReceiptWell(k, receipts'[p])
           /\ \A y \in k.parts \ {p} : receipts'[y] = receipts[y]
           /\ receipts'[p] \in {receipts[p], x}
           /\ receipts' = [receipts EXCEPT ![p] = x] => receipts'[p] = x
<1>1. receipts \in [k.parts -> ReceiptStates(k)] /\ ReceiptWell(k, receipts[p]) /\ x \in ReceiptStates(k)
  BY DEF IngressInvariant, IngressTyped, ReceiptWell
<1> QED BY <1>1

LEMMA BytesWritten ==
    ASSUME NEW k, IngressInvariant(k), NEW p \in k.parts, NEW r \in k.requests,
           stored' \in {stored, [stored EXCEPT ![p] = @ \union {r}], [stored EXCEPT ![p] = @ \ {r}]}
    PROVE  /\ stored' \in [k.parts -> SUBSET k.requests]
           /\ \A y \in k.parts \ {p} : stored'[y] = stored[y]
           /\ \A y \in k.requests \ {r} : y \in stored'[p] <=> y \in stored[p]
           /\ stored' = [stored EXCEPT ![p] = @ \union {r}] => r \in stored'[p]
           /\ stored' = [stored EXCEPT ![p] = @ \ {r}] => r \notin stored'[p]
BY DEF IngressInvariant, IngressTyped

LEMMA RequestIsNow ==
    ASSUME NEW k, IngressInvariant(k), NEW r \in k.requests, NEW n, req' = [req EXCEPT ![r] = n]
    PROVE  req'[r] = n
BY DEF IngressInvariant, IngressTyped

\* The receipt of the part becomes x, or stays; the request takes another step with its part.
Rewrites(p, r, x) ==
  \/ receipts' = receipts
  \/ /\ receipts' = [receipts EXCEPT ![p] = x]
     /\ receipts[p].lease \in {r, Nobody} /\ x.lease \in {r, Nobody}
     /\ receipts[p].state # "complete" /\ x.state # "complete"
\* What a request leaves alone, counts and stores.
Rests == sweep' = sweep /\ expired' = expired /\ handed' = handed
Stores(p, r) ==
  stored' \in {stored, [stored EXCEPT ![p] = @ \union {r}], [stored EXCEPT ![p] = @ \ {r}]}
Counted == faults' \in Nat /\ crashes' \in Nat /\ (Quiet' => Quiet)

\* A request that only goes on to the step z.
Turned(q, z) == [q EXCEPT !.pc = z]

LEMMA Turns ==
    ASSUME NEW k, IngressConstants(k), IngressInvariant(k), NEW r \in k.requests, NEW q, q = req[r],
           q.pc \in {"insert", "read", "write", "publish", "undo"}, NEW p, p = q.part,
           NEW z \in {"read", "write", "publish", "undo", "cleanup"},
           z \in {"cleanup", "undo"} \/ q.pc # "undo",
           NEW n, n = Turned(q, z), req' = [req EXCEPT ![r] = n],
           NEW x, ReceiptWell(k, x), Rewrites(p, r, x), Rests, Counted,
           Stores(p, r), IdentityOK(k, p, r)', Quiet' => IdentityKnown(k, p, r)'
    PROVE  IngressInvariant(k)'
<1>1. p \in k.parts /\ RequestWell(k, q) /\ q \in RequestStates(k) /\ q.claims = {} /\ k.parts \subseteq Nat
      /\ \A y \in k.parts \ {p} : Away(q, y)
  BY AtPart
<1>2. n.pc = z /\ n.part = p /\ n.claims = {} /\ n.won = q.won /\ RequestWell(k, n)
  BY <1>1 DEF RequestWell, RequestStates, Turned
<1>3. req'[r] = n
  BY RequestIsNow
<1>4. \A y \in k.parts \ {p} : (Unspent(n, y) => Unspent(q, y)) /\ Away(n, y)
  BY <1>1, <1>2 DEF Unspent, Away, InHand, Erases
<1>5. receipts' \in {receipts, [receipts EXCEPT ![p] = x]}
  BY DEF Rewrites
<1>6. /\ receipts' \in [k.parts -> ReceiptStates(k)] /\ ReceiptWell(k, receipts'[p])
      /\ \A y \in k.parts \ {p} : receipts'[y] = receipts[y]
      /\ receipts' = [receipts EXCEPT ![p] = x] => receipts'[p] = x
  BY <1>1, <1>5, ReceiptWritten
<1>7. /\ stored' \in [k.parts -> SUBSET k.requests]
      /\ \A y \in k.parts \ {p} : stored'[y] = stored[y]
      /\ \A y \in k.requests \ {r} : y \in stored'[p] <=> y \in stored[p]
  BY <1>1, BytesWritten DEF Stores
<1>8. \/ receipts'[p] = receipts[p]
      \/ /\ receipts[p].lease \in {r, Nobody} /\ receipts'[p].lease \in {r, Nobody}
         /\ receipts[p].state # "complete" /\ receipts'[p].state # "complete"
  BY <1>6 DEF Rewrites
<1> QED BY <1>1, <1>2, <1>3, <1>4, <1>6, <1>7, <1>8, RequestMoves DEF Rests, Counted

LEMMA AdoptionKeeps ==
    ASSUME NEW k, IngressConstants(k), IngressInvariant(k), NEW r \in k.requests, NEW q, q = req[r],
           q.pc \in {"read", "publish"}, NEW p, p = q.part,
           NEW lease \in k.requests \union {Nobody}, req' = [req EXCEPT ![r] = Ingress(k)!Adopt(q, lease)],
           NEW x, ReceiptWell(k, x), Rewrites(p, r, x), Rests, UNCHANGED <<stored, faults, crashes>>,
           \/ receipts' = receipts /\ q.pc = "read"
           \/ /\ receipts' = [receipts EXCEPT ![p] = x] /\ x.lease = r /\ x.state = "leased"
              /\ r \in stored[p] /\ ~Cleans(k, p, r, {"delete", "retire"})
    PROVE  IngressInvariant(k)'
<1>1. p \in k.parts /\ RequestWell(k, q) /\ q.claims = {} /\ (\A y \in k.parts \ {p} : Away(q, y))
      /\ IdentityOK(k, p, r) /\ (Quiet => IdentityKnown(k, p, r)) /\ r # Nobody
  BY AtPart
<1>2. PICK n : n = Ingress(k)!Adopt(q, lease)
  OBVIOUS
<1>3. RequestWell(k, n) /\ n.claims = {} /\ ~Unspent(n, p) /\ (\A y \in k.parts : Away(n, y))
      /\ \A y \in k.parts \ {p} : Unspent(n, y) => Unspent(q, y)
  BY <1>1, <1>2, Adopts
<1>4. req'[r] = n
  BY <1>2, RequestIsNow
<1>5. receipts' \in {receipts, [receipts EXCEPT ![p] = x]}
  BY DEF Rewrites
<1>6. /\ receipts' \in [k.parts -> ReceiptStates(k)] /\ ReceiptWell(k, receipts'[p])
      /\ \A y \in k.parts \ {p} : receipts'[y] = receipts[y]
      /\ receipts' = [receipts EXCEPT ![p] = x] => receipts'[p] = x
  BY <1>1, <1>5, ReceiptWritten
<1>7. \/ receipts'[p] = receipts[p]
      \/ /\ receipts[p].lease \in {r, Nobody} /\ receipts'[p].lease \in {r, Nobody}
         /\ receipts[p].state # "complete" /\ receipts'[p].state # "complete"
  BY <1>6 DEF Rewrites
<1>8. PICK c, d, e \in BOOLEAN :
        /\ c = Cleans(k, p, r, {"delete", "retire"}) /\ d = Cleans(k, p, r, {"delete"}) /\ e = Cleans(k, p, r, {"retire"})
  BY DEF Cleans
<1>9. /\ c = Cleans(k, p, r, {"delete", "retire"})' /\ d = Cleans(k, p, r, {"delete"})'
      /\ e = Cleans(k, p, r, {"retire"})' /\ (~c => ~d /\ ~e)
  BY <1>8 DEF Cleans, Rests
<1>10. /\ Unspent(req[r], p)' = Unspent(n, p)
      /\ InHand(req[r], p, {"publish", "undo"})' = InHand(n, p, {"publish", "undo"})
       /\ InHand(req[r], p, {"publish"})' = InHand(n, p, {"publish"}) /\ Erases(req[r], p)' = Erases(n, p)
       /\ InHand(req[r], p, {"write", "publish", "undo"})' = InHand(n, p, Busy)
  BY <1>4 DEF Unspent, InHand, Erases, Busy, LastOf
<1>11. PICK st, su : st = Status(p, r) /\ su = Status(p, r)'
  OBVIOUS
<1>12. /\ ~Unspent(req[r], p)' /\ ~InHand(req[r], p, {"write", "publish", "undo"})'
       /\ ~InHand(req[r], p, {"publish"})' /\ ~Erases(req[r], p)' 
  BY <1>1, <1>3, <1>10 DEF Away
<1>13. CASE receipts' = receipts /\ q.pc = "read"
  <2>1. su = st
    BY <1>11, <1>13 DEF Status
  <2>2. IdentityOK(k, p, r)'
    BY <1>1, <1>8, <1>9, <1>11, <1>12, <2>1 DEF IdentityOK
  <2>3. Quiet' => IdentityKnown(k, p, r)'
    <3>1. ~InHand(q, p, {"publish", "undo"}) /\ ~Erases(q, p)
      BY <1>13 DEF InHand, Erases
    <3> QED BY <1>1, <1>8, <1>9, <1>11, <2>1, <3>1 DEF IdentityKnown, Quiet
  <2> QED BY <1>1, <1>2, <1>3, <1>4, <1>6, <1>7, <2>2, <2>3, RequestMoves
         DEF Rests, Quiet, IngressInvariant, IngressTyped
<1>14. CASE /\ receipts' = [receipts EXCEPT ![p] = x] /\ x.lease = r /\ x.state = "leased"
            /\ r \in stored[p] /\ ~Cleans(k, p, r, {"delete", "retire"})
  <2>1. su = "leased" /\ ~c
    BY <1>6, <1>8, <1>11, <1>14 DEF Status
  <2>2. IdentityOK(k, p, r)'
    BY <1>9, <1>11, <1>12, <1>14, <2>1 DEF IdentityOK
  <2>3. IdentityKnown(k, p, r)'
    BY <1>9, <1>11, <2>1 DEF IdentityKnown
  <2> QED BY <1>1, <1>2, <1>3, <1>4, <1>6, <1>7, <2>2, <2>3, RequestMoves
         DEF Rests, Quiet, IngressInvariant, IngressTyped
<1> QED BY <1>13, <1>14

\* What there is to say of a request's own identity when it has gone on, not to an insertion.
LEMMA OwnIdentity ==
    ASSUME NEW k, NEW r, NEW p \in Nat, NEW n, req'[r] = n,
           n.pc \notin {"insert", "read", "write", "erase"}, n.pc \in {"publish", "undo"} => n.part = p,
           NEW c, NEW d, NEW e, c = Cleans(k, p, r, {"delete", "retire"}), d = Cleans(k, p, r, {"delete"}),
           e = Cleans(k, p, r, {"retire"}), sweep' = sweep,
           NEW su, su = Status(p, r)',
           n.pc \in {"publish", "undo"} => su \notin {"leased", "complete"},
           n.pc = "publish" \/ su \in {"leased", "complete"} => r \in stored'[p],
           c => su \in {"absent", "sweeping"},
           Quiet' => /\ r \in stored'[p] => su # "absent" \/ n.pc \in {"publish", "undo"} \/ d
                     /\ r \in stored'[p] /\ e => n.pc \in {"publish", "undo"}
    PROVE  IdentityOK(k, p, r)' /\ (Quiet' => IdentityKnown(k, p, r)')
<1>1. /\ c = Cleans(k, p, r, {"delete", "retire"})' /\ d = Cleans(k, p, r, {"delete"})'
      /\ e = Cleans(k, p, r, {"retire"})'
  BY DEF Cleans
<1>2. /\ Unspent(req[r], p)' = Unspent(n, p)
      /\ InHand(req[r], p, {"publish", "undo"})' = InHand(n, p, {"publish", "undo"})
      /\ InHand(req[r], p, {"publish"})' = InHand(n, p, {"publish"}) /\ Erases(req[r], p)' = Erases(n, p)
      /\ InHand(req[r], p, {"write", "publish", "undo"})' = InHand(n, p, {"write", "publish", "undo"})
  BY DEF Unspent, InHand, Erases, LastOf
<1>3. ~Erases(n, p)
  BY DEF Erases
<1>4. ~Unspent(n, p)
  BY DEF Unspent
<1>5. IdentityOK(k, p, r)'
  BY <1>1, <1>2, <1>3, <1>4 DEF IdentityOK, InHand
<1>6. Quiet' => IdentityKnown(k, p, r)'
  BY <1>1, <1>2 DEF IdentityKnown, InHand
<1> QED BY <1>5, <1>6

\* What the steps below need of an identity, in terms that a step does not prime.
LEMMA IdentityIs ==
    ASSUME NEW k, IngressConstants(k), IngressInvariant(k), NEW r \in k.requests, NEW q, q = req[r],
           q.pc \in {"insert", "read", "write", "publish", "undo"}, NEW p, p = q.part
    PROVE  \E st, c, d, e :
             /\ st = Status(p, r) /\ c = Cleans(k, p, r, {"delete", "retire"})
             /\ d = Cleans(k, p, r, {"delete"}) /\ e = Cleans(k, p, r, {"retire"})
             /\ (d => c) /\ (e => c) /\ {c, d, e} \subseteq BOOLEAN
             /\ c => st \in {"absent", "sweeping"}
             /\ st \in {"leased", "complete"} => r \in stored[p]
             /\ q.pc = "insert" => st = "absent" /\ ~c
             /\ q.pc \in {"write", "publish", "undo"} => st \notin {"leased", "complete"}
             /\ q.pc = "publish" /\ st = "staging" => r \in stored[p]
             /\ Quiet => /\ r \in stored[p] => st # "absent" \/ q.pc \in {"publish", "undo"} \/ d
                         /\ r \in stored[p] /\ e => q.pc \in {"publish", "undo"}
<1>1. IdentityOK(k, p, r) /\ (Quiet => IdentityKnown(k, p, r)) /\ p \in Nat
  BY AtPart
<1>2. Cleans(k, p, r, {"delete"}) \/ Cleans(k, p, r, {"retire"}) => Cleans(k, p, r, {"delete", "retire"})
  BY DEF Cleans
<1>3. {Cleans(k, p, r, {"delete", "retire"}), Cleans(k, p, r, {"delete"}), Cleans(k, p, r, {"retire"})} \subseteq BOOLEAN
  BY DEF Cleans
<1>4. q.pc = "insert" => Unspent(q, p)
  BY DEF Unspent
<1>5. ~Erases(q, p) /\ (\A pcs : InHand(q, p, pcs) <=> q.pc \in pcs)
  BY DEF Erases, InHand
<1> QED BY <1>1, <1>2, <1>3, <1>4, <1>5 DEF IdentityOK, IdentityKnown

LEMMA StatusIs ==
    ASSUME NEW p, NEW r
    PROVE  /\ Status(p, r) = IF receipts[p].lease = r THEN receipts[p].state ELSE "absent"
           /\ Status(p, r)' = IF receipts'[p].lease = r THEN receipts'[p].state ELSE "absent"
BY DEF Status

LEMMA InsertFailsKeeps ==
    ASSUME NEW k, IngressConstants(k), IngressInvariant(k), NEW r \in k.requests, Ingress(k)!InsertFails(r)
    PROVE  IngressInvariant(k)'
<1>1. PICK q, p : q = req[r] /\ p = q.part
  OBVIOUS
<1>2. q.pc = "insert"
  BY <1>1 DEF Ingress!InsertFails, Ingress!AtStep
<1>3. p \in k.parts /\ q \in RequestStates(k) /\ p \in Nat /\ r # Nobody /\ ReceiptWell(k, receipts[p])
      /\ faults \in Nat /\ crashes \in Nat
  BY <1>1, <1>2, AtPart, RequestIs
<1>4. PICK n, x : n = Turned(q, "cleanup") /\ x = [state |-> "staging", lease |-> r, token |-> Nobody]
  OBVIOUS
<1>5. req' = [req EXCEPT ![r] = n] /\ Rests /\ stored' = stored /\ Stores(p, r) /\ Counted /\ ~Quiet'
      /\ (receipts' = receipts \/ (receipts[p].state = "none" /\ receipts' = [receipts EXCEPT ![p] = x]))
  BY <1>1, <1>3, <1>4
     DEF Ingress!InsertFails, Ingress!Goes, Ingress!Sound, Ingress!Faulty, Rests, Counted, Quiet, Stores, Turned
<1>6. ReceiptWell(k, x)
  BY <1>3, <1>4 DEF ReceiptWell, ReceiptStates
<1>7. Rewrites(p, r, x)
  BY <1>3, <1>4, <1>5 DEF Rewrites, ReceiptWell
<1>8. receipts'[p] \in {receipts[p], x}
  BY <1>3, <1>5, <1>6, ReceiptWritten
<1>9. PICK st, c, d, e :
        /\ st = Status(p, r) /\ c = Cleans(k, p, r, {"delete", "retire"})
        /\ d = Cleans(k, p, r, {"delete"}) /\ e = Cleans(k, p, r, {"retire"}) /\ st = "absent" /\ ~c
  BY <1>1, <1>2, IdentityIs
<1>10. PICK su : su = Status(p, r)'
  OBVIOUS
<1>11. su \in {"absent", "staging"}
  BY <1>4, <1>8, <1>9, <1>10 DEF Status
<1>12. n.pc = "cleanup" /\ n.part = p /\ req'[r] = n
  <2>1. n.pc = "cleanup" /\ n.part = p
    BY <1>1, <1>3, <1>4, <1>5 DEF Turned, RequestStates
  <2> QED BY <2>1, <1>1, <1>3, <1>4, <1>5, RequestIsNow
<1>13. IdentityOK(k, p, r)' /\ (Quiet' => IdentityKnown(k, p, r)')
  BY <1>3, <1>5, <1>9, <1>10, <1>11, <1>12, OwnIdentity DEF Rests
<1> QED BY <1>1, <1>2, <1>4, <1>5, <1>6, <1>7, <1>13, Turns

LEMMA RefuseKeeps ==
    ASSUME NEW k, IngressConstants(k), IngressInvariant(k), NEW r \in k.requests, Ingress(k)!Refuse(r)
    PROVE  IngressInvariant(k)'
<1>1. PICK q, p : q = req[r] /\ p = q.part
  OBVIOUS
<1>2. q.pc = "insert"
  BY <1>1 DEF Ingress!Refuse, Ingress!AtStep
<1>3. p \in k.parts /\ q \in RequestStates(k) /\ p \in Nat /\ ReceiptWell(k, receipts[p])
      /\ faults \in Nat /\ crashes \in Nat
  BY <1>1, <1>2, AtPart, RequestIs
<1>4. PICK n : n = Turned(q, "cleanup")
  OBVIOUS
<1>5. req' = [req EXCEPT ![r] = n] /\ Rests /\ stored' = stored /\ Stores(p, r) /\ Counted /\ receipts' = receipts
      /\ (Quiet' => Quiet)
  BY <1>1, <1>3, <1>4 DEF Ingress!Refuse, Ingress!Goes, Ingress!Sound, Rests, Counted, Quiet, Stores, Turned
<1>6. Rewrites(p, r, receipts[p])
  BY <1>5 DEF Rewrites
<1>7. PICK st, c, d, e :
        /\ st = Status(p, r) /\ c = Cleans(k, p, r, {"delete", "retire"})
        /\ d = Cleans(k, p, r, {"delete"}) /\ e = Cleans(k, p, r, {"retire"}) /\ st = "absent" /\ ~c
        /\ (d => c) /\ (Quiet => r \notin stored[p])
  BY <1>1, <1>2, IdentityIs
<1>8. st = Status(p, r)'
  BY <1>5, <1>7, StatusIs
<1>9. n.pc = "cleanup" /\ n.part = p /\ req'[r] = n
  <2>1. n.pc = "cleanup" /\ n.part = p
    BY <1>1, <1>3, <1>4, <1>5 DEF Turned, RequestStates
  <2> QED BY <2>1, <1>1, <1>3, <1>4, <1>5, RequestIsNow
<1>10. IdentityOK(k, p, r)' /\ (Quiet' => IdentityKnown(k, p, r)')
  BY <1>3, <1>5, <1>7, <1>8, <1>9, OwnIdentity DEF Rests
<1> QED BY <1>1, <1>2, <1>3, <1>4, <1>5, <1>6, <1>10, Turns

LEMMA AwaitReceiptKeeps ==
    ASSUME NEW k, IngressConstants(k), IngressInvariant(k), NEW r \in k.requests, Ingress(k)!AwaitReceipt(r)
    PROVE  IngressInvariant(k)'
<1>1. PICK q, p : q = req[r] /\ p = q.part
  OBVIOUS
<1>2. q.pc = "read"
  BY <1>1 DEF Ingress!AwaitReceipt, Ingress!AtStep
<1>3. p \in k.parts /\ q \in RequestStates(k) /\ p \in Nat /\ ReceiptWell(k, receipts[p])
      /\ faults \in Nat /\ crashes \in Nat
  BY <1>1, <1>2, AtPart, RequestIs
<1>4. Rests /\ stored' = stored /\ Stores(p, r) /\ Counted /\ receipts' = receipts /\ (Quiet' => Quiet)
      /\ UNCHANGED <<stored, faults, crashes>>
  BY <1>3 DEF Ingress!AwaitReceipt, Ingress!Sound, Rests, Counted, Quiet, Stores, Turned
<1>5. Rewrites(p, r, receipts[p])
  BY <1>4 DEF Rewrites
<1>6. PICK lease \in k.requests \union {Nobody} : lease = receipts[p].lease
  BY <1>3 DEF ReceiptWell, ReceiptStates
<1>7. CASE receipts[p].state \in {"leased", "complete"}
  <2>1. req' = [req EXCEPT ![r] = Ingress(k)!Adopt(q, lease)]
    BY <1>1, <1>6, <1>7 DEF Ingress!AwaitReceipt, Ingress!Goes
  <2> QED BY <1>1, <1>2, <1>3, <1>4, <1>5, <2>1, AdoptionKeeps
<1>8. CASE receipts[p].state \notin {"leased", "complete"}
  <2>1. PICK n : n = Turned(q, "cleanup")
    OBVIOUS
  <2>2. req' = [req EXCEPT ![r] = n]
    BY <1>1, <1>8, <2>1 DEF Ingress!AwaitReceipt, Ingress!Goes, Turned
  <2>3. PICK st, c, d, e :
          /\ st = Status(p, r) /\ c = Cleans(k, p, r, {"delete", "retire"})
          /\ d = Cleans(k, p, r, {"delete"}) /\ e = Cleans(k, p, r, {"retire"})
          /\ c => st \in {"absent", "sweeping"}
          /\ st \in {"leased", "complete"} => r \in stored[p]
          /\ Quiet => /\ r \in stored[p] => st # "absent" \/ d
                      /\ ~(r \in stored[p] /\ e)
    BY <1>1, <1>2, IdentityIs
  <2>4. st = Status(p, r)'
    BY <1>4, <2>3, StatusIs
  <2>5. n.pc = "cleanup" /\ n.part = p /\ req'[r] = n
    <3>1. n.pc = "cleanup" /\ n.part = p
      BY <1>1, <1>3, <2>1, <2>2 DEF Turned, RequestStates
    <3> QED BY <3>1, <1>1, <1>3, <2>1, <2>2, RequestIsNow
  <2>6. IdentityOK(k, p, r)' /\ (Quiet' => IdentityKnown(k, p, r)')
    BY <1>3, <1>4, <2>3, <2>4, <2>5, OwnIdentity DEF Rests
  <2> QED BY <1>1, <1>2, <1>3, <1>4, <1>5, <2>1, <2>2, <2>6, Turns
<1> QED BY <1>7, <1>8

LEMMA WriteKeeps ==
    ASSUME NEW k, IngressConstants(k), IngressInvariant(k), NEW r \in k.requests,
           Ingress(k)!WriteBytes(r) \/ Ingress(k)!WriteFails(r)
    PROVE  IngressInvariant(k)'
<1>1. PICK q, p : q = req[r] /\ p = q.part
  OBVIOUS
<1>2. q.pc = "write"
  BY <1>1 DEF Ingress!WriteBytes, Ingress!WriteFails, Ingress!AtStep
<1>3. p \in k.parts /\ p \in Nat /\ q \in RequestStates(k) /\ ReceiptWell(k, receipts[p])
      /\ faults \in Nat /\ crashes \in Nat
  BY <1>1, <1>2, AtPart, RequestIs
<1>4. PICK z, n : z \in {"publish", "cleanup"} /\ n = Turned(q, z) /\ req' = [req EXCEPT ![r] = n]
                  /\ (z = "publish" => stored' = [stored EXCEPT ![p] = @ \union {r}])
                  /\ (z = "cleanup" => ~Quiet')
  <2>1. CASE Ingress(k)!WriteBytes(r)
    <3>1. PICK z, n : z = "publish" /\ n = Turned(q, z)
      OBVIOUS
    <3>2. req' = [req EXCEPT ![r] = n] /\ stored' = [stored EXCEPT ![p] = @ \union {r}]
      BY <1>1, <2>1, <3>1 DEF Ingress!WriteBytes, Ingress!Goes, Turned
    <3>3. z \in {"publish", "cleanup"} /\ n = Turned(q, z) /\ req' = [req EXCEPT ![r] = n]
          /\ (z = "publish" => stored' = [stored EXCEPT ![p] = @ \union {r}])
          /\ (z = "cleanup" => ~Quiet')
      BY <3>1, <3>2
    <3> QED BY Zenon, <3>3
  <2>2. CASE Ingress(k)!WriteFails(r)
    <3>1. PICK z, n : z = "cleanup" /\ n = Turned(q, z)
      OBVIOUS
    <3>2. req' = [req EXCEPT ![r] = n] /\ ~Quiet'
      BY <1>1, <1>3, <2>2, <3>1 DEF Ingress!WriteFails, Ingress!Goes, Ingress!Faulty, Turned, Quiet
    <3>3. z \in {"publish", "cleanup"} /\ n = Turned(q, z) /\ req' = [req EXCEPT ![r] = n]
          /\ (z = "publish" => stored' = [stored EXCEPT ![p] = @ \union {r}])
          /\ (z = "cleanup" => ~Quiet')
      BY <3>1, <3>2
    <3> QED BY Zenon, <3>3
  <2> QED BY <2>1, <2>2
<1>5. Rests /\ Stores(p, r) /\ Counted /\ receipts' = receipts
  BY <1>1, <1>3
     DEF Ingress!WriteBytes, Ingress!WriteFails, Ingress!Goes, Ingress!Sound, Ingress!Faulty, Rests, Counted,
     Quiet, Stores
<1>6. Rewrites(p, r, receipts[p])
  BY <1>5 DEF Rewrites
<1>7. z = "publish" => r \in stored'[p]
  BY <1>3, <1>4, BytesWritten
<1>8. PICK st, c, d, e :
        /\ st = Status(p, r) /\ c = Cleans(k, p, r, {"delete", "retire"})
        /\ d = Cleans(k, p, r, {"delete"}) /\ e = Cleans(k, p, r, {"retire"})
        /\ (c => st \in {"absent", "sweeping"}) /\ st \notin {"leased", "complete"}
  BY <1>1, <1>2, IdentityIs
<1>9. st = Status(p, r)'
  BY <1>5, <1>8, StatusIs
<1>10. n.pc = z /\ n.part = p /\ req'[r] = n
  <2>1. n.pc = z /\ n.part = p
    BY <1>1, <1>3, <1>4 DEF Turned, RequestStates
  <2> QED BY <2>1, <1>4, RequestIsNow
<1>11. IdentityOK(k, p, r)' /\ (Quiet' => IdentityKnown(k, p, r)')
  BY <1>3, <1>4, <1>5, <1>7, <1>8, <1>9, <1>10, OwnIdentity DEF Rests
<1> QED BY <1>1, <1>2, <1>3, <1>4, <1>5, <1>6, <1>11, Turns

\* A receipt that is published has its bytes, and no sweep has seen it expire.
LEMMA PublishKeeps ==
    ASSUME NEW k, IngressConstants(k), IngressInvariant(k), NEW r \in k.requests, Ingress(k)!Publish(r)
    PROVE  IngressInvariant(k)'
<1>1. PICK q, p : q = req[r] /\ p = q.part
  OBVIOUS
<1>2. q.pc = "publish"
  BY <1>1 DEF Ingress!Publish, Ingress!AtStep
<1>3. p \in k.parts /\ p \in Nat /\ q \in RequestStates(k) /\ ReceiptWell(k, receipts[p]) /\ r # Nobody
      /\ faults \in Nat /\ crashes \in Nat
  BY <1>1, <1>2, AtPart, RequestIs
<1>4. Rests /\ Stores(p, r) /\ Counted /\ UNCHANGED <<stored, faults, crashes>>
  BY <1>3 DEF Ingress!Publish, Ingress!Sound, Rests, Counted, Quiet, Stores
<1>5. PICK st, c, d, e :
        /\ st = Status(p, r) /\ c = Cleans(k, p, r, {"delete", "retire"})
        /\ d = Cleans(k, p, r, {"delete"}) /\ e = Cleans(k, p, r, {"retire"})
        /\ (c => st \in {"absent", "sweeping"}) /\ st \notin {"leased", "complete"}
        /\ (st = "staging" => r \in stored[p])
  BY <1>1, <1>2, IdentityIs
<1>6. CASE receipts[p].lease = r /\ receipts[p].state = "staging" /\ r \notin expired[p]
  <2>1. PICK x : x = [receipts[p] EXCEPT !.state = "leased"]
    OBVIOUS
  <2>2. receipts' = [receipts EXCEPT ![p] = x] /\ req' = [req EXCEPT ![r] = Ingress(k)!Adopt(q, r)]
    BY <1>1, <1>6, <2>1 DEF Ingress!Publish, Ingress!Owns, Ingress!Goes
  <2>3. ReceiptWell(k, x) /\ x.lease = r /\ x.state = "leased"
    BY <1>3, <1>6, <2>1 DEF ReceiptWell, ReceiptStates
  <2>4. Rewrites(p, r, x)
    BY <1>6, <2>2, <2>3 DEF Rewrites
  <2>5. st = "staging" /\ r \in stored[p] /\ ~Cleans(k, p, r, {"delete", "retire"})
    BY <1>5, <1>6, StatusIs
  <2> QED BY <1>1, <1>2, <1>4, <2>2, <2>3, <2>4, <2>5, AdoptionKeeps
<1>7. CASE ~(receipts[p].lease = r /\ receipts[p].state = "staging" /\ r \notin expired[p])
  <2>1. ~(receipts[p].lease = r /\ receipts[p].state = "complete")
    BY <1>5, StatusIs
  <2>2. PICK n : n = Turned(q, "undo")
    OBVIOUS
  <2>3. req' = [req EXCEPT ![r] = n] /\ receipts' = receipts
    BY <1>1, <1>7, <2>1, <2>2 DEF Ingress!Publish, Ingress!Owns, Ingress!Goes, Turned
  <2>4. Rewrites(p, r, receipts[p])
    BY <2>3 DEF Rewrites
  <2>5. st = Status(p, r)'
    BY <1>5, <2>3, StatusIs
  <2>6. n.pc = "undo" /\ n.part = p
    BY <1>1, <1>3, <2>2 DEF Turned, RequestStates
  <2>7. req'[r] = n
    BY <2>3, RequestIsNow
  <2>8. IdentityOK(k, p, r)' /\ (Quiet' => IdentityKnown(k, p, r)')
    BY <1>3, <1>4, <1>5, <2>5, <2>6, <2>7, OwnIdentity DEF Rests
  <2> QED BY <1>1, <1>2, <1>3, <1>4, <2>2, <2>3, <2>4, <2>8, Turns
<1> QED BY <1>6, <1>7

LEMMA PublishFailsKeeps ==
    ASSUME NEW k, IngressConstants(k), IngressInvariant(k), NEW r \in k.requests, Ingress(k)!PublishFails(r)
    PROVE  IngressInvariant(k)'
<1>1. PICK q, p : q = req[r] /\ p = q.part
  OBVIOUS
<1>2. q.pc = "publish"
  BY <1>1 DEF Ingress!PublishFails, Ingress!AtStep
<1>3. p \in k.parts /\ p \in Nat /\ q \in RequestStates(k) /\ ReceiptWell(k, receipts[p]) /\ r # Nobody
      /\ faults \in Nat /\ crashes \in Nat
  BY <1>1, <1>2, AtPart, RequestIs
<1>4. PICK n, x : n = Turned(q, "cleanup") /\ x = IF receipts[p].state = "staging" /\ receipts[p].lease = r
                                                  THEN [receipts[p] EXCEPT !.state = "leased"] ELSE receipts[p]
  OBVIOUS
<1>5. req' = [req EXCEPT ![r] = n] /\ Rests /\ stored' = stored /\ Stores(p, r) /\ Counted /\ ~Quiet'
  BY <1>1, <1>3, <1>4 DEF Ingress!PublishFails, Ingress!Goes, Ingress!Sound, Ingress!Faulty, Rests, Counted, Quiet,
     Stores, Turned
<1>6. \/ receipts' = receipts
      \/ /\ receipts[p].lease = r /\ receipts[p].state = "staging"
         /\ receipts' = [receipts EXCEPT ![p] = x]
  BY <1>1, <1>4 DEF Ingress!PublishFails, Ingress!Owns
<1>7. ReceiptWell(k, x) /\ x.lease = receipts[p].lease
      /\ (receipts[p].lease = r /\ receipts[p].state = "staging" => x.state = "leased")
  BY <1>3, <1>4 DEF ReceiptWell, ReceiptStates
<1>8. Rewrites(p, r, x)
  BY <1>6, <1>7 DEF Rewrites
<1>9. PICK st, c, d, e :
        /\ st = Status(p, r) /\ c = Cleans(k, p, r, {"delete", "retire"})
        /\ d = Cleans(k, p, r, {"delete"}) /\ e = Cleans(k, p, r, {"retire"})
        /\ (c => st \in {"absent", "sweeping"}) /\ st \notin {"leased", "complete"}
        /\ (st = "staging" => r \in stored[p])
  BY <1>1, <1>2, IdentityIs
<1>10. PICK su : su = Status(p, r)'
  OBVIOUS
<1>11. su = st \/ (st = "staging" /\ su = "leased")
  <2>1. CASE receipts' = receipts
    BY <1>9, <1>10, <2>1 DEF Status
  <2>2. CASE /\ receipts[p].lease = r /\ receipts[p].state = "staging"
             /\ receipts' = [receipts EXCEPT ![p] = x]
    <3>1. receipts'[p] = x
      BY <1>3, <1>7, <2>2, ReceiptWritten
    <3> QED BY <1>7, <1>9, <1>10, <2>2, <3>1 DEF Status
  <2> QED BY <1>6, <2>1, <2>2
<1>12. n.pc = "cleanup" /\ n.part = p
  BY <1>1, <1>3, <1>4 DEF Turned, RequestStates
<1>13. req'[r] = n
  BY <1>5, RequestIsNow
<1>14. IdentityOK(k, p, r)' /\ (Quiet' => IdentityKnown(k, p, r)')
  BY <1>3, <1>5, <1>9, <1>10, <1>11, <1>12, <1>13, OwnIdentity DEF Rests
<1> QED BY <1>1, <1>2, <1>4, <1>5, <1>7, <1>8, <1>14, Turns

LEMMA TakeBackKeeps ==
    ASSUME NEW k, IngressConstants(k), IngressInvariant(k), NEW r \in k.requests, Ingress(k)!Undo(r)
    PROVE  IngressInvariant(k)'
<1>1. PICK q, p : q = req[r] /\ p = q.part
  OBVIOUS
<1>2. q.pc = "undo"
  BY <1>1 DEF Ingress!Undo, Ingress!AtStep
<1>3. p \in k.parts /\ p \in Nat /\ q \in RequestStates(k) /\ ReceiptWell(k, receipts[p])
      /\ faults \in Nat /\ crashes \in Nat
  BY <1>1, <1>2, AtPart, RequestIs
<1>4. PICK n : n = Turned(q, "cleanup")
  OBVIOUS
<1>5. req' = [req EXCEPT ![r] = n] /\ Rests /\ receipts' = receipts
      /\ (stored' = [stored EXCEPT ![p] = @ \ {r}] \/ (stored' = stored /\ faults' = faults + 1))
      /\ faults' \in {faults, faults + 1} /\ crashes' = crashes
  BY <1>1, <1>4 DEF Ingress!Undo, Ingress!Goes, Ingress!Sound, Ingress!Faulty, Rests, Turned
<1>6. Rewrites(p, r, receipts[p]) /\ Stores(p, r) /\ Counted /\ (Quiet' => stored' = [stored EXCEPT ![p] = @ \ {r}])
  BY <1>3, <1>5 DEF Rewrites, Stores, Counted, Quiet
<1>7. Quiet' => r \notin stored'[p]
  BY <1>3, <1>6, BytesWritten
<1>8. PICK st, c, d, e :
        /\ st = Status(p, r) /\ c = Cleans(k, p, r, {"delete", "retire"})
        /\ d = Cleans(k, p, r, {"delete"}) /\ e = Cleans(k, p, r, {"retire"})
        /\ (c => st \in {"absent", "sweeping"}) /\ st \notin {"leased", "complete"}
  BY <1>1, <1>2, IdentityIs
<1>9. st = Status(p, r)'
  BY <1>5, <1>8, StatusIs
<1>10. n.pc = "cleanup" /\ n.part = p
  BY <1>1, <1>3, <1>4 DEF Turned, RequestStates
<1>11. req'[r] = n
  BY <1>5, RequestIsNow
<1>12. IdentityOK(k, p, r)' /\ (Quiet' => IdentityKnown(k, p, r)')
  BY <1>3, <1>5, <1>7, <1>8, <1>9, <1>10, <1>11, OwnIdentity DEF Rests
<1> QED BY <1>1, <1>2, <1>3, <1>4, <1>5, <1>6, <1>12, Turns

-----------------------------------------------------------------------------
(* Ingress: the steps of a request that is over                            *)

\* A request withdraws the part p, or ends.
LEMMA Winds ==
    ASSUME NEW k, IngressConstants(k), IngressInvariant(k), NEW r \in k.requests, NEW q, q = req[r],
           q.claims = {}, NEW p \in k.parts,
           Quiet' => q.pc \in {"cleanup", "erase", "staged"} /\ (q.pc = "erase" => LastOf(q.won) = p),
           NEW n, RequestWell(k, n), n.claims = {}, n.pc \in {"cleanup", "erase", "failed", "dead"},
           n.pc = "erase" => LastOf(n.won) = p, req' = [req EXCEPT ![r] = n],
           NEW x, ReceiptWell(k, x), Rewrites(p, r, x), Rests, Counted, Stores(p, r),
           IdentityOK(k, p, r)', Quiet' => IdentityKnown(k, p, r)'
    PROVE  IngressInvariant(k)'
<1>1. \A y \in k.parts \ {p} : (Unspent(n, y) => Unspent(q, y)) /\ Away(n, y) /\ (Quiet' => Away(q, y))
  BY DEF Unspent, Away, InHand, Erases, Busy
<1>2. receipts' \in {receipts, [receipts EXCEPT ![p] = x]}
  BY DEF Rewrites
<1>3. /\ receipts' \in [k.parts -> ReceiptStates(k)] /\ ReceiptWell(k, receipts'[p])
      /\ \A y \in k.parts \ {p} : receipts'[y] = receipts[y]
      /\ receipts' = [receipts EXCEPT ![p] = x] => receipts'[p] = x
  BY <1>2, ReceiptWritten
<1>4. /\ stored' \in [k.parts -> SUBSET k.requests]
      /\ \A y \in k.parts \ {p} : stored'[y] = stored[y]
      /\ \A y \in k.requests \ {r} : y \in stored'[p] <=> y \in stored[p]
  BY BytesWritten DEF Stores
<1>5. \/ receipts'[p] = receipts[p]
      \/ /\ receipts[p].lease \in {r, Nobody} /\ receipts'[p].lease \in {r, Nobody}
         /\ receipts[p].state # "complete" /\ receipts'[p].state # "complete"
  BY <1>3 DEF Rewrites
<1> QED BY <1>1, <1>3, <1>4, <1>5, RequestMoves DEF Rests, Counted

\* What the steps below need of the identity at p, which the request does not have in hand.
LEMMA WithdrawnIs ==
    ASSUME NEW k, IngressConstants(k), IngressInvariant(k), NEW r \in k.requests, NEW q, q = req[r],
           q.pc \in {"cleanup", "erase", "staged"}, NEW p \in k.parts, q.pc = "erase" => LastOf(q.won) = p
    PROVE  \E st, c, d, e :
             /\ st = Status(p, r) /\ c = Cleans(k, p, r, {"delete", "retire"})
             /\ d = Cleans(k, p, r, {"delete"}) /\ e = Cleans(k, p, r, {"retire"})
             /\ (d => c) /\ (e => c) /\ {c, d, e} \subseteq BOOLEAN
             /\ c => st \in {"absent", "sweeping"}
             /\ st \in {"leased", "complete"} => r \in stored[p]
             /\ q.pc = "erase" => st = "absent"
             /\ Quiet => /\ r \in stored[p] => st # "absent" \/ q.pc = "erase" \/ d
                         /\ ~(r \in stored[p] /\ e)
<1>1. IdentityOK(k, p, r) /\ (Quiet => IdentityKnown(k, p, r))
  BY RequestIs
<1>2. Cleans(k, p, r, {"delete"}) \/ Cleans(k, p, r, {"retire"}) => Cleans(k, p, r, {"delete", "retire"})
  BY DEF Cleans
<1>3. {Cleans(k, p, r, {"delete", "retire"}), Cleans(k, p, r, {"delete"}), Cleans(k, p, r, {"retire"})} \subseteq BOOLEAN
  BY DEF Cleans
<1>4. ~InHand(q, p, {"publish", "undo"}) /\ (Erases(q, p) <=> q.pc = "erase")
  BY DEF Erases, InHand
<1> QED BY <1>1, <1>2, <1>3, <1>4 DEF IdentityOK, IdentityKnown

\* A request that cleans up: its last receipt is one it can name.
LEMMA LastWon ==
    ASSUME NEW k, IngressConstants(k), IngressInvariant(k), NEW r \in k.requests, req[r].won # {}
    PROVE  /\ Ingress(k)!Max(req[r].won) = LastOf(req[r].won) /\ LastOf(req[r].won) \in k.parts
           /\ LastOf(req[r].won) \in Nat
<1>1. req[r].won \subseteq k.parts /\ k.parts \subseteq Nat /\ IsFiniteSet(k.parts)
  BY RequestIs DEF RequestStates, IngressConstants
<1>2. req[r].won \subseteq Nat /\ IsFiniteSet(req[r].won)
  BY <1>1, FS_Subset
<1>3. LastOf(req[r].won) \in req[r].won
  BY <1>2, LastOfSet
<1> QED BY <1>1, <1>3, LastsAreThese

LEMMA WithdrawKeeps ==
    ASSUME NEW k, IngressConstants(k), IngressInvariant(k), NEW r \in k.requests, Ingress(k)!Withdraw(r)
    PROVE  IngressInvariant(k)'
<1>1. PICK q, p : q = req[r] /\ p = LastOf(q.won)
  OBVIOUS
<1>2. q.pc = "cleanup" /\ q.won # {}
  BY <1>1 DEF Ingress!Withdraw, Ingress!AtStep
<1>3. p \in k.parts /\ p \in Nat /\ q \in RequestStates(k) /\ RequestWell(k, q)
      /\ ReceiptWell(k, receipts[p]) /\ r # Nobody
      /\ faults \in Nat /\ crashes \in Nat /\ q.claims = {} /\ Ingress(k)!Max(q.won) = p /\ Nobody \notin k.requests
  BY <1>1, <1>2, LastWon, RequestIs DEF RequestWell, IngressConstants
<1>4. Rests /\ Stores(p, r) /\ Counted /\ UNCHANGED <<stored, faults, crashes>> /\ (Quiet' => Quiet)
  BY <1>3 DEF Ingress!Withdraw, Ingress!Sound, Rests, Counted, Quiet, Stores
<1>5. PICK st, c, d, e :
        /\ st = Status(p, r) /\ c = Cleans(k, p, r, {"delete", "retire"})
        /\ d = Cleans(k, p, r, {"delete"}) /\ e = Cleans(k, p, r, {"retire"}) /\ (d => c) /\ (e => c)
        /\ c => st \in {"absent", "sweeping"}
        /\ st \in {"leased", "complete"} => r \in stored[p]
        /\ Quiet => /\ r \in stored[p] => st # "absent" \/ d
                    /\ ~(r \in stored[p] /\ e)
  BY <1>1, <1>2, <1>3, WithdrawnIs
<1>6. CASE receipts[p].lease = r /\ receipts[p].state \in {"staging", "leased"}
  <2>1. PICK n, x : n = Turned(q, "erase") /\ x = [state |-> "none", lease |-> Nobody, token |-> Nobody]
    OBVIOUS
  <2>2. receipts' = [receipts EXCEPT ![p] = x] /\ req' = [req EXCEPT ![r] = n]
    BY <1>1, <1>3, <1>6, <2>1 DEF Ingress!Withdraw, Ingress!Owns, Ingress!Goes, Ingress!NoReceipt, Turned
  <2>3. ReceiptWell(k, x)
    BY <2>1 DEF ReceiptWell, ReceiptStates
  <2>4. Rewrites(p, r, x)
    BY <1>6, <2>1, <2>2 DEF Rewrites
  <2>5. n.pc = "erase" /\ n.won = q.won /\ n.claims = {} /\ RequestWell(k, n)
    BY <1>2, <1>3, <2>1 DEF Turned, RequestStates, RequestWell
  <2>6. req'[r] = n
    BY <2>2, RequestIsNow
  <2>7. receipts'[p] = x
    BY <1>3, <2>2, <2>3, ReceiptWritten
  <2>8. Status(p, r)' = "absent" /\ st \in {"staging", "leased"} /\ ~c
    BY <1>3, <1>5, <1>6, <2>1, <2>7 DEF Status
  <2>9. Erases(req[r], p)' /\ ~Unspent(req[r], p)' /\ (\A pcs : InHand(req[r], p, pcs)' => "erase" \in pcs)
    BY <1>1, <2>5, <2>6 DEF Erases, Unspent, InHand, LastOf
  <2>10. \A pcs : Cleans(k, p, r, pcs)' <=> Cleans(k, p, r, pcs)
    BY <1>4, SameCleaning DEF Rests
  <2>11. IdentityOK(k, p, r)'
    BY <2>8, <2>9 DEF IdentityOK
  <2>12. IdentityKnown(k, p, r)'
    BY <1>5, <2>8, <2>9, <2>10 DEF IdentityKnown
  <2> QED BY <1>1, <1>2, <1>3, <1>4, <2>2, <2>3, <2>4, <2>5, <2>11, <2>12, Winds
<1>7. CASE ~(receipts[p].lease = r /\ receipts[p].state \in {"staging", "leased"})
  <2>1. PICK n : n = [q EXCEPT !.won = @ \ {p}]
    OBVIOUS
  <2>2. receipts' = receipts /\ req' = [req EXCEPT ![r] = n]
    BY <1>1, <1>3, <1>7, <2>1 DEF Ingress!Withdraw, Ingress!Owns, Ingress!Goes
  <2>3. Rewrites(p, r, receipts[p])
    BY <2>2 DEF Rewrites
  <2>4. n.pc = "cleanup" /\ n.claims = {} /\ RequestWell(k, n)
    BY <1>2, <1>3, <2>1 DEF RequestStates, RequestWell
  <2>5. req'[r] = n
    BY <2>2, RequestIsNow
  <2>6. st = Status(p, r)'
    BY <1>5, <2>2, StatusIs
  <2>7. IdentityOK(k, p, r)' /\ (Quiet' => IdentityKnown(k, p, r)')
    BY <1>3, <1>4, <1>5, <2>4, <2>5, <2>6, OwnIdentity DEF Rests
  <2> QED BY <1>1, <1>2, <1>3, <1>4, <2>2, <2>3, <2>4, <2>7, Winds
<1> QED BY <1>6, <1>7

LEMMA WithdrawFailsKeeps ==
    ASSUME NEW k, IngressConstants(k), IngressInvariant(k), NEW r \in k.requests, Ingress(k)!WithdrawFails(r)
    PROVE  IngressInvariant(k)'
<1>1. PICK q, p : q = req[r] /\ p = LastOf(q.won)
  OBVIOUS
<1>2. q.pc = "cleanup" /\ q.won # {}
  BY <1>1 DEF Ingress!WithdrawFails, Ingress!AtStep
<1>3. p \in k.parts /\ p \in Nat /\ q \in RequestStates(k) /\ RequestWell(k, q)
      /\ ReceiptWell(k, receipts[p]) /\ r # Nobody
      /\ faults \in Nat /\ crashes \in Nat /\ q.claims = {} /\ Ingress(k)!Max(q.won) = p /\ Nobody \notin k.requests
  BY <1>1, <1>2, LastWon, RequestIs DEF RequestWell, IngressConstants
<1>4. PICK n, x : n = [q EXCEPT !.won = @ \ {p}] /\ x = [state |-> "none", lease |-> Nobody, token |-> Nobody]
  OBVIOUS
<1>5. Rests /\ stored' = stored /\ Stores(p, r) /\ Counted /\ ~Quiet' /\ req' = [req EXCEPT ![r] = n]
      /\ \/ receipts' = receipts
         \/ /\ receipts[p].lease = r /\ receipts[p].state \in {"staging", "leased"}
            /\ receipts' = [receipts EXCEPT ![p] = x]
  BY <1>1, <1>3, <1>4 DEF Ingress!WithdrawFails, Ingress!Goes, Ingress!Owns, Ingress!NoReceipt, Ingress!Sound,
     Ingress!Faulty, Rests, Counted, Quiet, Stores
<1>6. ReceiptWell(k, x)
  BY <1>4 DEF ReceiptWell, ReceiptStates
<1>7. Rewrites(p, r, x)
  BY <1>4, <1>5 DEF Rewrites
<1>8. PICK st, c, d, e :
        /\ st = Status(p, r) /\ c = Cleans(k, p, r, {"delete", "retire"})
        /\ d = Cleans(k, p, r, {"delete"}) /\ e = Cleans(k, p, r, {"retire"})
        /\ c => st \in {"absent", "sweeping"}
        /\ st \in {"leased", "complete"} => r \in stored[p]
  BY <1>1, <1>2, <1>3, WithdrawnIs
<1>9. PICK su : su = Status(p, r)'
  OBVIOUS
<1>10. su \in {st, "absent"}
  <2>1. CASE receipts' = receipts
    BY <1>8, <1>9, <2>1 DEF Status
  <2>2. CASE receipts' = [receipts EXCEPT ![p] = x]
    <3>1. receipts'[p] = x
      BY <1>3, <1>6, <2>2, ReceiptWritten
    <3> QED BY <1>3, <1>4, <1>9, <3>1 DEF Status
  <2> QED BY <1>5, <2>1, <2>2
<1>11. n.pc = "cleanup" /\ n.claims = {} /\ RequestWell(k, n)
  BY <1>2, <1>3, <1>4 DEF RequestStates, RequestWell
<1>12. req'[r] = n
  BY <1>5, RequestIsNow
<1>13. IdentityOK(k, p, r)' /\ (Quiet' => IdentityKnown(k, p, r)')
  BY <1>3, <1>5, <1>8, <1>9, <1>10, <1>11, <1>12, OwnIdentity DEF Rests
<1> QED BY <1>1, <1>2, <1>3, <1>5, <1>6, <1>7, <1>11, <1>13, Winds

LEMMA EraseKeeps ==
    ASSUME NEW k, IngressConstants(k), IngressInvariant(k), NEW r \in k.requests, Ingress(k)!Erase(r)
    PROVE  IngressInvariant(k)'
<1>1. PICK q, p : q = req[r] /\ p = LastOf(q.won)
  OBVIOUS
<1>2. q.pc = "erase"
  BY <1>1 DEF Ingress!Erase, Ingress!AtStep
<1>3. RequestWell(k, q) /\ q \in RequestStates(k) /\ q.won # {} /\ q.claims = {}
  BY <1>1, <1>2, RequestIs DEF RequestWell
<1>4. p \in k.parts /\ p \in Nat /\ ReceiptWell(k, receipts[p]) /\ faults \in Nat /\ crashes \in Nat
      /\ Ingress(k)!Max(q.won) = p
  BY <1>1, <1>3, LastWon, RequestIs
<1>5. PICK n : n = [q EXCEPT !.won = @ \ {p}, !.pc = "cleanup"]
  OBVIOUS
<1>6. req' = [req EXCEPT ![r] = n] /\ Rests /\ receipts' = receipts
      /\ (stored' = [stored EXCEPT ![p] = @ \ {r}] \/ (stored' = stored /\ faults' = faults + 1))
      /\ faults' \in {faults, faults + 1} /\ crashes' = crashes
  BY <1>1, <1>4, <1>5 DEF Ingress!Erase, Ingress!Goes, Ingress!Sound, Ingress!Faulty, Rests
<1>7. Rewrites(p, r, receipts[p]) /\ Stores(p, r) /\ Counted /\ (Quiet' => stored' = [stored EXCEPT ![p] = @ \ {r}])
  BY <1>4, <1>6 DEF Rewrites, Stores, Counted, Quiet
<1>8. Quiet' => r \notin stored'[p]
  BY <1>4, <1>7, BytesWritten
<1>9. PICK st, c, d, e :
        /\ st = Status(p, r) /\ c = Cleans(k, p, r, {"delete", "retire"})
        /\ d = Cleans(k, p, r, {"delete"}) /\ e = Cleans(k, p, r, {"retire"})
        /\ st = "absent"
  BY <1>1, <1>2, <1>4, WithdrawnIs
<1>10. st = Status(p, r)'
  BY <1>6, <1>9, StatusIs
<1>11. n.pc = "cleanup" /\ n.claims = {} /\ RequestWell(k, n)
  BY <1>2, <1>3, <1>5 DEF RequestStates, RequestWell
<1>12. req'[r] = n
  BY <1>6, RequestIsNow
<1>13. IdentityOK(k, p, r)' /\ (Quiet' => IdentityKnown(k, p, r)')
  BY <1>4, <1>6, <1>8, <1>9, <1>10, <1>11, <1>12, OwnIdentity DEF Rests
<1> QED BY <1>1, <1>2, <1>3, <1>4, <1>6, <1>7, <1>11, <1>13, Winds

\* A request that cleaned up, claims nothing or dies: it has nothing in hand any more.
LEMMA EndKeeps ==
    ASSUME NEW k, IngressConstants(k), IngressInvariant(k), NEW r \in k.requests,
           Ingress(k)!Refused(r) \/ Ingress(k)!Leave(r) \/ Ingress(k)!Dies(r)
    PROVE  IngressInvariant(k)'
<1>1. PICK q, p : q = req[r] /\ p \in k.parts
  BY DEF IngressConstants
<1>2. p \in Nat /\ q \in RequestStates(k) /\ RequestWell(k, q) /\ ReceiptWell(k, receipts[p])
      /\ faults \in Nat /\ crashes \in Nat /\ k.parts \subseteq Nat
  BY <1>1, RequestIs DEF IngressConstants
<1>3. q.pc # "claimed" /\ (q.pc \in {"cleanup", "staged"} \/ (crashes' = crashes + 1 /\ q.pc # "dead"))
  BY <1>1 DEF Ingress!Refused, Ingress!Leave, Ingress!Dies, Ingress!AtStep, Ingress!Ends
<1>4. PICK n : n = IF crashes' = crashes + 1
                   THEN [pc |-> "dead", part |-> FirstOf(k.parts), won |-> {},
                         adopted |-> [y \in k.parts |-> Nobody], claims |-> {}]
                   ELSE [q EXCEPT !.pc = "failed"]
  OBVIOUS
<1>5. req' = [req EXCEPT ![r] = n] /\ Rests /\ receipts' = receipts /\ stored' = stored /\ Stores(p, r)
      /\ faults' = faults /\ crashes' \in {crashes, crashes + 1}
  <2>1. CASE Ingress(k)!Refused(r) \/ Ingress(k)!Leave(r)
    BY <1>1, <1>2, <1>4, <2>1 DEF Ingress!Refused, Ingress!Leave, Ingress!Goes, Ingress!Sound, Rests, Stores
  <2>2. CASE Ingress(k)!Dies(r)
    <3>1. Ingress(k)!Min(k.parts) = FirstOf(k.parts)
      BY LastsAreThese
    <3>2. crashes' = crashes + 1 /\ req' = [req EXCEPT ![r] = [Ingress(k)!NewRequest EXCEPT !.pc = "dead"]]
          /\ Rests /\ receipts' = receipts /\ stored' = stored /\ Stores(p, r) /\ faults' = faults
      BY <2>2 DEF Ingress!Dies, Ingress!Goes, Rests, Stores
    <3>3. [Ingress(k)!NewRequest EXCEPT !.pc = "dead"] = n
      <4>1. PICK first : first = FirstOf(k.parts)
        OBVIOUS
      <4>2. Ingress(k)!NewRequest = [pc |-> "insert", part |-> first, won |-> {},
                                     adopted |-> [y \in k.parts |-> Nobody], claims |-> {}]
        BY <3>1, <4>1 DEF Ingress!NewRequest, Ingress!First
      <4>3. n = [pc |-> "dead", part |-> first, won |-> {},
                 adopted |-> [y \in k.parts |-> Nobody], claims |-> {}]
        BY <1>4, <3>2, <4>1
      <4> QED BY <4>2, <4>3
    <3> QED BY <3>2, <3>3
  <2> QED BY <2>1, <2>2
<1>6. Rewrites(p, r, receipts[p]) /\ Counted /\ (Quiet' => Quiet /\ q.pc \in {"cleanup", "staged"})
  BY <1>2, <1>3, <1>5 DEF Rewrites, Counted, Quiet
<1>7. n.pc \in {"failed", "dead"} /\ n.claims = {} /\ RequestWell(k, n) /\ q.claims = {}
  <2>1. FirstOf(k.parts) \in k.parts
    BY <1>2, FirstOfSet DEF IngressConstants
  <2>2. q.claims = {}
    BY <1>2, <1>3 DEF RequestWell
  <2>3. CASE crashes' = crashes + 1
    BY <1>4, <2>1, <2>2, <2>3 DEF RequestWell, RequestStates
  <2>4. CASE crashes' # crashes + 1
    BY <1>2, <1>4, <2>2, <2>4 DEF RequestWell, RequestStates
  <2> QED BY <2>3, <2>4
<1>8. req'[r] = n
  BY <1>5, RequestIsNow
<1>9. IdentityOK(k, p, r) /\ (Quiet => IdentityKnown(k, p, r))
  BY <1>1, RequestIs
<1>10. Status(p, r)' = Status(p, r) /\ ((r \in stored[p])' <=> r \in stored[p])
  BY <1>5 DEF Status
<1>11. Away(req[r], p)' /\ ~Unspent(req[r], p)'
  BY <1>7, <1>8 DEF Away, InHand, Erases, Unspent, Busy
<1>12. Quiet' => Away(req[r], p)
  BY <1>1, <1>6 DEF Away, InHand, Erases, Busy
<1>13. \A pcs : Cleans(k, p, r, pcs)' <=> Cleans(k, p, r, pcs)
  BY <1>5, SameCleaning DEF Rests
<1>14. IdentityOK(k, p, r)' /\ (Quiet' => IdentityKnown(k, p, r)')
  BY <1>6, <1>9, <1>10, <1>11, <1>12, <1>13, OtherIdentity
<1> QED BY <1>1, <1>2, <1>5, <1>6, <1>7, <1>14, Winds

-----------------------------------------------------------------------------
(* Ingress: the endpoint's transaction                                     *)

LEMMA ClaimKeeps ==
    ASSUME NEW k, IngressConstants(k), IngressInvariant(k), NEW r \in k.requests, NEW S \in SUBSET k.parts,
           Ingress(k)!Claim(r, S) \/ Ingress(k)!ClaimUnanswered(r, S)
    PROVE  IngressInvariant(k)'
<1>1. PICK q : q = req[r]
  OBVIOUS
<1>2. PICK n : n = IF Ingress(k)!Claim(r, S) THEN [q EXCEPT !.pc = "claimed", !.claims = S]
                   ELSE [q EXCEPT !.pc = "failed"]
  OBVIOUS
<1>3. /\ Ingress(k)!ClaimParts(r, S) /\ req' = [req EXCEPT ![r] = n]
      /\ faults' \in {faults, faults + 1}
  BY <1>1, <1>2 DEF Ingress!Claim, Ingress!ClaimUnanswered, Ingress!Goes, Ingress!Faulty
<1>4. /\ q.pc = "staged" /\ stored' = stored /\ sweep' = sweep /\ expired' = expired /\ crashes' = crashes
      /\ receipts' = [x \in k.parts |-> IF x \in S THEN [receipts[x] EXCEPT !.state = "complete"] ELSE receipts[x]]
      /\ handed' = [x \in k.parts |-> IF x \in S THEN handed[x] \union {receipts[x].lease} ELSE handed[x]]
      /\ \A x \in S : receipts[x].lease = q.adopted[x] /\ receipts[x].state \in {"leased", "complete"}
  BY <1>1, <1>3 DEF Ingress!ClaimParts, Ingress!AtStep, Ingress!Sound, Ingress!Claimable, Ingress!Owns
<1>5. q \in RequestStates(k) /\ RequestWell(k, q) /\ q.claims = {} /\ faults \in Nat /\ crashes \in Nat
      /\ Nobody \notin k.requests
  BY <1>1, <1>4, RequestIs DEF RequestWell, IngressConstants
<1>6. n \in RequestStates(k) /\ RequestWell(k, n) /\ n.pc \in {"claimed", "failed"} /\ n.adopted = q.adopted
      /\ n.claims \subseteq S
  <2>1. CASE Ingress(k)!Claim(r, S)
    BY <1>2, <1>5, <2>1 DEF RequestWell, RequestStates
  <2>2. CASE ~Ingress(k)!Claim(r, S)
    BY <1>2, <1>5, <2>2 DEF RequestWell, RequestStates
  <2> QED BY <2>1, <2>2
<1>7. req'[r] = n /\ \A y \in k.requests \ {r} : req'[y] = req[y]
  BY <1>3 DEF IngressInvariant, IngressTyped
\* What was leased is complete, under the same identity.
<1>8. ASSUME NEW x \in k.parts
      PROVE  /\ receipts'[x] \in ReceiptStates(k) /\ ReceiptWell(k, receipts'[x])
             /\ receipts'[x].lease = receipts[x].lease
             /\ receipts'[x].state = IF x \in S THEN "complete" ELSE receipts[x].state
             /\ receipts[x].lease \in k.requests \union {Nobody}
  <2>1. ReceiptWell(k, receipts[x]) /\ receipts[x] \in ReceiptStates(k)
    BY RequestIs
  <2>2. CASE x \in S
    <3>1. receipts'[x] = [receipts[x] EXCEPT !.state = "complete"] /\ receipts[x].state # "none"
      BY <1>4, <2>2
    <3> QED BY <2>1, <2>2, <3>1 DEF ReceiptWell, ReceiptStates
  <2>3. CASE x \notin S
    BY <1>4, <2>1, <2>3 DEF ReceiptStates
  <2> QED BY <2>2, <2>3
<1>9. IngressTyped(k)'
  <2>1. req' \in [k.requests -> RequestStates(k)] /\ \A y \in k.requests : RequestWell(k, req'[y])
    BY <1>3, <1>6, <1>7 DEF IngressInvariant, IngressTyped
  <2>2. receipts' \in [k.parts -> ReceiptStates(k)]
    <3>1. DOMAIN receipts' = k.parts /\ receipts' = [x \in k.parts |-> receipts'[x]]
      BY <1>4
    <3> QED BY <1>8, <3>1
  <2> QED BY <1>3, <1>4, <1>5, <1>8, <2>1, <2>2
         DEF IngressInvariant, IngressTyped, SweepWell, SweepStates, RequestStates,
             RequestWell, ReceiptStates, ReceiptWell
<1>10. IdentitiesOK(k)'
  <2>1. SUFFICES ASSUME NEW x \in k.parts, NEW y \in k.requests
                 PROVE  IdentityOK(k, x, y)' /\ (Quiet' => IdentityKnown(k, x, y)')
    BY DEF IdentitiesOK
  <2>2. IdentityOK(k, x, y) /\ (Quiet => IdentityKnown(k, x, y)) /\ (Quiet' => Quiet)
    BY <1>3, <1>4, <1>5 DEF IngressInvariant, IdentitiesOK, Quiet
  <2>3. \A pcs : Cleans(k, x, y, pcs)' <=> Cleans(k, x, y, pcs)
    BY <1>4, SameCleaning
  <2>4. (y \in stored[x])' <=> y \in stored[x]
    BY <1>4
  <2>5. Status(x, y)' = Status(x, y) \/ (Status(x, y) = "leased" /\ Status(x, y)' = "complete")
    <3>1. x \in S => receipts[x].state \in {"leased", "complete"}
      BY <1>4
    <3> QED BY <1>8, <3>1 DEF Status
  <2>6. \/ (req[y])' = req[y]
        \/ /\ Unspent(req[y], x)' => Unspent(req[y], x)
           /\ Away(req[y], x)' /\ (Quiet' => Away(req[y], x))
    <3>1. CASE y # r
      BY <1>7, <3>1
    <3>2. CASE y = r
      <4>1. Away(req[y], x)' /\ ~Unspent(req[y], x)'
        BY <1>6, <1>7, <3>2 DEF Away, InHand, Erases, Unspent, Busy
      <4>2. Away(req[y], x)
        BY <1>1, <1>4, <3>2 DEF Away, InHand, Erases, Busy
      <4> QED BY <4>1, <4>2
    <3> QED BY <3>1, <3>2
  <2> QED BY <2>2, <2>3, <2>4, <2>5, <2>6, OtherIdentity
<1>11. FilesComplete(k)'
  <2>1. handed \in [k.parts -> SUBSET k.requests]
        /\ \A x \in k.parts : handed[x] = IF receipts[x].state = "complete" THEN {receipts[x].lease} ELSE {}
    BY DEF IngressInvariant, FilesComplete
  <2>2. ASSUME NEW x \in k.parts
        PROVE  handed'[x] = (IF receipts'[x].state = "complete" THEN {receipts'[x].lease} ELSE {})
               /\ handed'[x] \subseteq k.requests
    <3>1. CASE x \in S
      <4>1. receipts[x].lease \in k.requests
        BY <1>4, <1>8, <3>1 DEF IngressInvariant, IngressTyped, ReceiptWell
      <4>2. handed'[x] = {receipts[x].lease}
        BY <1>4, <2>1, <3>1
      <4> QED BY <1>8, <3>1, <4>1, <4>2
    <3>2. CASE x \notin S
      BY <1>4, <1>8, <2>1, <3>2
    <3> QED BY <3>1, <3>2
  <2>3. handed' = [x \in k.parts |-> handed'[x]]
    BY <1>4
  <2> QED BY <2>2, <2>3 DEF FilesComplete
<1>12. ClaimsComplete(k)'
  <2>1. SUFFICES ASSUME NEW y \in k.requests, NEW x \in req'[y].claims
                 PROVE  receipts'[x].state = "complete" /\ receipts'[x].lease = req'[y].adopted[x]
    BY DEF ClaimsComplete
  <2>2. CASE y = r
    <3>1. x \in S /\ x \in k.parts
      BY <1>6, <1>7, <2>2
    <3> QED BY <1>4, <1>6, <1>7, <1>8, <2>2, <3>1
  <2>3. CASE y # r
    <3>1. req'[y] = req[y] /\ x \in req[y].claims
      BY <1>7, <2>1, <2>3
    <3>2. receipts[x].state = "complete" /\ receipts[x].lease = req[y].adopted[x] /\ x \in k.parts
      BY <3>1 DEF IngressInvariant, ClaimsComplete, IngressTyped, RequestStates
    <3> QED BY <1>8, <3>1, <3>2
  <2> QED BY <2>2, <2>3
<1> QED BY <1>9, <1>10, <1>11, <1>12 DEF IngressInvariant

-----------------------------------------------------------------------------
(* Ingress: the sweeps                                                     *)

\* A sweep's step changes the receipt and the bytes of one identity at most, of which it shows
\* that all is well.
ReceiptAt(k, at) ==
  \A x \in k.parts :
    \/ receipts'[x] = receipts[x]
    \/ /\ at[1] = x /\ ReceiptWell(k, receipts'[x])
       /\ receipts[x].lease \in {at[2], Nobody} /\ receipts'[x].lease \in {at[2], Nobody}
       /\ receipts[x].state # "complete" /\ receipts'[x].state # "complete"
BytesAt(k, at) ==
  \A x \in k.parts, y \in k.requests : at # <<x, y>> => (y \in stored'[x] <=> y \in stored[x])
WellAt(k, at) ==
  \A x \in k.parts, y \in k.requests :
    at = <<x, y>> => IdentityOK(k, x, y)' /\ (Quiet' => IdentityKnown(k, x, y)')

\* What a step of a sweep that is about `at` has to show: about this identity only.
LEMMA SweepMoves ==
    ASSUME NEW k, IngressConstants(k), IngressInvariant(k), NEW s \in k.sweepers, NEW w, SweepWell(k, w),
           NEW at, sweep' = [sweep EXCEPT ![s] = w],
           sweep[s].pc \in {"delete", "retire"} => sweep[s].at = at,
           w.pc \in {"delete", "retire"} => w.at = at,
           req' = req, expired' = expired, handed' = handed, Counted,
           receipts' \in [k.parts -> ReceiptStates(k)], stored' \in [k.parts -> SUBSET k.requests],
           ReceiptAt(k, at), BytesAt(k, at), WellAt(k, at),
           at = <<at[1], at[2]>>
    PROVE  IngressInvariant(k)'
<1>1. Nobody \notin k.requests
  BY DEF IngressConstants
<1>2. sweep'[s] = w /\ \A z \in k.sweepers \ {s} : sweep'[z] = sweep[z]
  BY DEF IngressInvariant, IngressTyped
<1>3. IngressTyped(k)'
  <2>1. sweep' \in [k.sweepers -> SweepStates(k)] /\ \A z \in k.sweepers : SweepWell(k, sweep'[z])
    BY <1>2 DEF IngressInvariant, IngressTyped, SweepWell
  <2>2. \A x \in k.parts : ReceiptWell(k, receipts'[x])
    BY DEF IngressInvariant, IngressTyped, ReceiptAt
  <2> QED BY <2>1, <2>2 DEF IngressInvariant, IngressTyped, SweepWell, SweepStates, RequestStates, RequestWell,
             ReceiptStates, ReceiptWell, Counted
<1>4. IdentitiesOK(k)'
  <2>1. SUFFICES ASSUME NEW x \in k.parts, NEW y \in k.requests, at # <<x, y>>
                 PROVE  IdentityOK(k, x, y)' /\ (Quiet' => IdentityKnown(k, x, y)')
    BY DEF IdentitiesOK, WellAt
  <2>2. IdentityOK(k, x, y) /\ (Quiet => IdentityKnown(k, x, y)) /\ (Quiet' => Quiet)
    BY DEF IngressInvariant, IdentitiesOK, Counted
  <2>3. \A pcs \in SUBSET {"delete", "retire"} : Cleans(k, x, y, pcs)' <=> Cleans(k, x, y, pcs)
    BY <1>2, <2>1 DEF Cleans
  <2>4. (y \in stored[x])' <=> y \in stored[x]
    BY <2>1 DEF BytesAt
  <2>5. Status(x, y)' = Status(x, y)
    BY <1>1, <2>1 DEF Status, ReceiptAt
  <2> QED BY <2>2, <2>3, <2>4, <2>5, OtherIdentity
<1>5. FilesComplete(k)'
  <2>1. \A x \in k.parts : \/ receipts'[x] = receipts[x]
                           \/ receipts[x].state # "complete" /\ receipts'[x].state # "complete"
    BY DEF ReceiptAt
  <2>2. FilesComplete(k) /\ handed' = handed
    BY DEF IngressInvariant
  <2>3. SUFFICES ASSUME NEW x \in k.parts
                 PROVE  handed'[x] = IF receipts'[x].state = "complete" THEN {receipts'[x].lease} ELSE {}
    BY <2>2 DEF FilesComplete
  <2>4. handed[x] = IF receipts[x].state = "complete" THEN {receipts[x].lease} ELSE {}
    BY <2>2 DEF FilesComplete
  <2> QED BY <2>1, <2>2, <2>4
<1>6. ClaimsComplete(k)'
  <2>1. \A y \in k.requests : req[y].claims \subseteq k.parts
    BY DEF IngressInvariant, IngressTyped, RequestStates
  <2> QED BY <2>1 DEF IngressInvariant, ClaimsComplete, ReceiptAt
<1> QED BY <1>3, <1>4, <1>5, <1>6 DEF IngressInvariant

LEMMA SweepIs ==
    ASSUME NEW k, IngressInvariant(k), NEW s \in k.sweepers
    PROVE  /\ SweepWell(k, sweep[s]) /\ sweep[s] \in SweepStates(k) /\ faults \in Nat /\ crashes \in Nat
           /\ sweep[s].at = <<sweep[s].at[1], sweep[s].at[2]>>
           /\ receipts \in [k.parts -> ReceiptStates(k)] /\ stored \in [k.parts -> SUBSET k.requests]
BY DEF IngressInvariant, IngressTyped, SweepWell, SweepStates

LEMMA SweepIsNow ==
    ASSUME NEW k, IngressInvariant(k), NEW s \in k.sweepers, NEW w, sweep' = [sweep EXCEPT ![s] = w]
    PROVE  sweep'[s] = w /\ \A z \in k.sweepers \ {s} : sweep'[z] = sweep[z]
BY DEF IngressInvariant, IngressTyped

\* An ended or failed cleanup has nothing in hand.
LEMMA CleansLess ==
    ASSUME NEW k, IngressInvariant(k), NEW s \in k.sweepers, NEW w, sweep' = [sweep EXCEPT ![s] = w],
           w.pc \in {"idle", "arm"}, NEW p, NEW y, NEW pcs \in SUBSET {"delete", "retire"}
    PROVE  Cleans(k, p, y, pcs)' => Cleans(k, p, y, pcs)
<1>1. \A z \in k.sweepers : sweep'[z] = IF z = s THEN w ELSE sweep[z]
  BY DEF IngressInvariant, IngressTyped
<1> QED BY <1>1 DEF Cleans

LEMMA NoSweepIsWell ==
    ASSUME NEW k, IngressConstants(k)
    PROVE  SweepWell(k, Ingress(k)!NoSweep) /\ Ingress(k)!NoSweep.pc = "idle" /\ Ingress(k)!NoSweep.queue = {}
<1>1. PICK first : first = FirstOf(k.parts)
  OBVIOUS
<1>2. first \in k.parts
  BY <1>1, FirstOfSet DEF IngressConstants
<1>3. Ingress(k)!NoSweep = [pc |-> "idle", queue |-> {}, at |-> <<first, Nobody>>]
  BY <1>1, LastsAreThese DEF Ingress!NoSweep, Ingress!First
<1>4. <<first, Nobody>> \in k.parts \X (k.requests \union {Nobody})
  BY <1>2
<1> QED BY <1>3, <1>4 DEF SweepWell, SweepStates

LEMMA NextCandidateIsWell ==
    ASSUME NEW k, IngressConstants(k), NEW v \in SweepStates(k), NEW w, w = Ingress(k)!NextCandidate(v)
    PROVE  SweepWell(k, w) /\ w.pc \in {"idle", "arm"}
<1>1. CASE v.queue = {}
  BY <1>1, NoSweepIsWell DEF Ingress!NextCandidate
<1>2. CASE v.queue # {}
  BY <1>2 DEF Ingress!NextCandidate, SweepWell, SweepStates
<1> QED BY <1>1, <1>2

LEMMA SelectSweepKeeps ==
    ASSUME NEW k, IngressConstants(k), IngressInvariant(k), NEW s \in k.sweepers, Ingress(k)!Select(s)
    PROVE  IngressInvariant(k)'
<1>1. PICK nil, cs : nil = Ingress(k)!NoSweep /\ cs = Ingress(k)!Candidates
  OBVIOUS
<1>2. PICK w : w = [nil EXCEPT !.pc = "arm", !.queue = cs]
  OBVIOUS
<1>3. sweep[s].pc = "idle" /\ sweep' = [sweep EXCEPT ![s] = w] /\ req' = req /\ expired' = expired
      /\ handed' = handed
      /\ UNCHANGED <<receipts, stored, faults, crashes>>
  BY <1>1, <1>2 DEF Ingress!Select, Ingress!Sweeps, Ingress!Serving
<1>4. cs \subseteq k.parts \X k.requests
  <2>1. \A p \in k.parts : receipts[p].state # "none" => receipts[p].lease \in k.requests
    BY DEF IngressInvariant, IngressTyped, ReceiptWell, ReceiptStates
  <2> QED BY <1>1, <2>1 DEF Ingress!Candidates
<1>5. w.pc = "arm" /\ SweepWell(k, w)
  <2>1. nil \in SweepStates(k)
    BY <1>1, NoSweepIsWell DEF SweepWell
  <2> QED BY <1>2, <1>4, <2>1 DEF SweepWell, SweepStates
<1>6. PICK at : at = <<FirstOf(k.parts), Nobody>>
  OBVIOUS
<1>7. at = <<at[1], at[2]>> /\ \A x \in k.parts, y \in k.requests : at # <<x, y>>
  BY <1>6 DEF IngressConstants
<1>8. Counted /\ stored' \in [k.parts -> SUBSET k.requests] /\ receipts' \in [k.parts -> ReceiptStates(k)]
  BY <1>3, SweepIs DEF Counted, Quiet
<1>9. ReceiptAt(k, at) /\ BytesAt(k, at) /\ WellAt(k, at)
  BY <1>3, <1>7 DEF ReceiptAt, BytesAt, WellAt
<1> QED BY <1>3, <1>5, <1>7, <1>8, <1>9, SweepMoves

\* A receipt that is armed is no lease any more, and its request has nothing in hand that
\* would make it one.
LEMMA ArmKeeps ==
    ASSUME NEW k, IngressConstants(k), IngressInvariant(k), NEW s \in k.sweepers, NEW at \in sweep[s].queue,
           Ingress(k)!Arm(s, at)
    PROVE  IngressInvariant(k)'
<1>1. sweep[s].pc = "arm" /\ req' = req /\ expired' = expired /\ handed' = handed
      /\ UNCHANGED <<stored, faults, crashes>>
  BY DEF Ingress!Arm, Ingress!Serving
<1>2. PICK p, y : p = at[1] /\ y = at[2]
  OBVIOUS
<1>3. at = <<p, y>> /\ p \in k.parts /\ y \in k.requests /\ y # Nobody /\ sweep[s] \in SweepStates(k)
      /\ faults \in Nat /\ crashes \in Nat /\ stored \in [k.parts -> SUBSET k.requests]
      /\ receipts \in [k.parts -> ReceiptStates(k)]
  BY <1>2, SweepIs DEF SweepStates, IngressConstants
<1>4. ReceiptWell(k, receipts[p]) /\ IdentityOK(k, p, y) /\ (Quiet => IdentityKnown(k, p, y))
  BY <1>3, RequestIs
<1>5. PICK v : v = [sweep[s] EXCEPT !.queue = @ \ {at}]
  OBVIOUS
<1>6. v \in SweepStates(k)
  BY <1>3, <1>5 DEF SweepStates
<1>7. Counted /\ (Quiet' => Quiet)
  BY <1>1, <1>3 DEF Counted, Quiet
<1>8. CASE Ingress(k)!Owns(p, y, {"staging", "leased", "sweeping"}) /\ y \notin handed[p]
  <2>1. PICK w, x : w = [v EXCEPT !.pc = "delete", !.at = at]
                    /\ x = [receipts[p] EXCEPT !.state = "sweeping", !.token = s]
    OBVIOUS
  <2>2. sweep' = [sweep EXCEPT ![s] = w] /\ receipts' = [receipts EXCEPT ![p] = x]
    BY <1>2, <1>5, <1>8, <2>1 DEF Ingress!Arm, Ingress!Sweeps
  <2>3. w.pc = "delete" /\ w.at = at /\ SweepWell(k, w)
    BY <1>3, <1>6, <2>1 DEF SweepWell, SweepStates
  <2>4. receipts[p].lease = y /\ receipts[p].state \in {"staging", "leased", "sweeping"}
    BY <1>8 DEF Ingress!Owns
  <2>5. ReceiptWell(k, x) /\ x \in ReceiptStates(k) /\ x.lease = y /\ x.state = "sweeping"
    BY <1>3, <1>4, <2>1, <2>4 DEF ReceiptWell, ReceiptStates
  <2>6. receipts' \in [k.parts -> ReceiptStates(k)] /\ receipts'[p] = x
        /\ \A z \in k.parts \ {p} : receipts'[z] = receipts[z]
    BY <1>3, <2>2, <2>5
  <2>7. Status(p, y) \in {"staging", "leased", "sweeping"} /\ Status(p, y)' = "sweeping"
    BY <2>4, <2>5, <2>6 DEF Status
  <2>8. sweep'[s] = w /\ \A z \in k.sweepers \ {s} : sweep'[z] = sweep[z]
    BY <2>2, SweepIsNow
  <2>9. Cleans(k, p, y, {"retire"})' <=> Cleans(k, p, y, {"retire"})
    BY <1>1, <2>3, <2>8 DEF Cleans
  <2>10. ~Unspent(req[y], p) /\ ~Erases(req[y], p)
    BY <1>4, <2>7 DEF IdentityOK
  <2>11. ~Unspent(req[y], p)' /\ ~Erases(req[y], p)' /\ \A pcs : InHand(req[y], p, pcs)' <=> InHand(req[y], p, pcs)
    BY <1>1, <2>10 DEF Unspent, Erases, InHand, LastOf
  <2>12. IdentityOK(k, p, y)'
    BY <2>7, <2>11 DEF IdentityOK
  <2>13. Quiet' => IdentityKnown(k, p, y)'
    BY <1>1, <1>4, <1>7, <2>7, <2>9, <2>11 DEF IdentityKnown
  <2>14. BytesAt(k, at) /\ WellAt(k, at)
    BY <1>1, <1>3, <2>12, <2>13 DEF BytesAt, WellAt
  <2>15. ReceiptAt(k, at) /\ at = <<at[1], at[2]>>
    BY <1>2, <1>3, <2>4, <2>5, <2>6 DEF ReceiptAt
  <2> QED BY <1>1, <1>2, <1>3, <1>7, <2>2, <2>3, <2>6, <2>14, <2>15, SweepMoves
<1>9. CASE ~(Ingress(k)!Owns(p, y, {"staging", "leased", "sweeping"}) /\ y \notin handed[p])
  <2>1. PICK w : w = Ingress(k)!NextCandidate(v)
    OBVIOUS
  <2>2. sweep' = [sweep EXCEPT ![s] = w] /\ receipts' = receipts
    BY <1>2, <1>5, <1>9, <2>1 DEF Ingress!Arm, Ingress!Sweeps
  <2>3. SweepWell(k, w) /\ w.pc \in {"idle", "arm"}
    BY <1>6, <2>1, NextCandidateIsWell
  <2>4. PICK nil : nil = <<FirstOf(k.parts), Nobody>>
    OBVIOUS
  <2>5. nil = <<nil[1], nil[2]>> /\ \A x \in k.parts, z \in k.requests : nil # <<x, z>>
    BY <2>4 DEF IngressConstants
  <2>6. ReceiptAt(k, nil) /\ BytesAt(k, nil) /\ WellAt(k, nil)
    BY <1>1, <2>2, <2>5 DEF ReceiptAt, BytesAt, WellAt
  <2> QED BY <1>1, <1>3, <1>7, <2>2, <2>3, <2>5, <2>6, SweepMoves
<1> QED BY <1>8, <1>9

LEMMA DeleteBytesKeeps ==
    ASSUME NEW k, IngressConstants(k), IngressInvariant(k), NEW s \in k.sweepers, Ingress(k)!DeleteBytes(s)
    PROVE  IngressInvariant(k)'
<1>1. PICK at, p, y : at = sweep[s].at /\ p = at[1] /\ y = at[2]
  OBVIOUS
<1>2. PICK w : w = [sweep[s] EXCEPT !.pc = "retire"]
  OBVIOUS
<1>3. sweep[s].pc = "delete" /\ sweep' = [sweep EXCEPT ![s] = w] /\ req' = req /\ expired' = expired
      /\ handed' = handed
      /\ UNCHANGED <<receipts, faults, crashes>> /\ stored' = [stored EXCEPT ![p] = @ \ {y}]
  BY <1>1, <1>2 DEF Ingress!DeleteBytes, Ingress!Sweeps, Ingress!Serving
<1>4. sweep[s] \in SweepStates(k) /\ at = <<p, y>> /\ p \in k.parts /\ y \in k.requests /\ faults \in Nat
      /\ crashes \in Nat
      /\ stored \in [k.parts -> SUBSET k.requests] /\ receipts \in [k.parts -> ReceiptStates(k)]
  BY <1>1, <1>3, SweepIs DEF SweepWell
<1>5. w.pc = "retire" /\ w.at = at /\ SweepWell(k, w)
  BY <1>1, <1>2, <1>4 DEF SweepWell, SweepStates
<1>6. Counted /\ stored' \in [k.parts -> SUBSET k.requests] /\ (Quiet' => Quiet) /\ y \notin stored'[p]
  BY <1>3, <1>4 DEF Counted, Quiet
<1>7. IdentityOK(k, p, y) /\ (Quiet => IdentityKnown(k, p, y))
  BY <1>4, RequestIs
<1>8. sweep'[s] = w /\ \A z \in k.sweepers \ {s} : sweep'[z] = sweep[z]
  BY <1>3, SweepIsNow
<1>9. Cleans(k, p, y, {"delete", "retire"}) /\ Cleans(k, p, y, {"delete", "retire"})'
  BY <1>1, <1>3, <1>4, <1>5, <1>8 DEF Cleans
<1>10. Status(p, y)' = Status(p, y) /\ Status(p, y) \in {"absent", "sweeping"}
  BY <1>3, <1>7, <1>9 DEF Status, IdentityOK
<1>11. ~Unspent(req[y], p)' /\ (Erases(req[y], p)' <=> Erases(req[y], p))
  BY <1>3, <1>7, <1>9 DEF IdentityOK, Unspent, Erases, LastOf
<1>12. IdentityOK(k, p, y)'
  BY <1>7, <1>10, <1>11 DEF IdentityOK
<1>13. IdentityKnown(k, p, y)'
  BY <1>6 DEF IdentityKnown
<1>14. ReceiptAt(k, at) /\ BytesAt(k, at) /\ WellAt(k, at) /\ at = <<at[1], at[2]>>
  <2>1. BytesAt(k, at)
    BY <1>3, <1>4 DEF BytesAt
  <2>2. WellAt(k, at)
    BY <1>4, <1>12, <1>13 DEF WellAt
  <2> QED BY <1>1, <1>3, <1>4, <2>1, <2>2 DEF ReceiptAt
<1> QED BY <1>1, <1>3, <1>4, <1>5, <1>6, <1>14, SweepMoves

\* A receipt is retired by the sweep that has deleted its bytes; whoever still has the bytes in
\* hand takes them back.
LEMMA RetireKeeps ==
    ASSUME NEW k, IngressConstants(k), IngressInvariant(k), NEW s \in k.sweepers, Ingress(k)!Retire(s)
    PROVE  IngressInvariant(k)'
<1>1. PICK at, p, y : at = sweep[s].at /\ p = at[1] /\ y = at[2]
  OBVIOUS
<1>2. PICK w, x : w = Ingress(k)!NextCandidate(sweep[s])
      /\ x = [state |-> "none", lease |-> Nobody, token |-> Nobody]
  OBVIOUS
<1>3. sweep[s].pc = "retire" /\ sweep' = [sweep EXCEPT ![s] = w] /\ req' = req /\ expired' = expired
      /\ handed' = handed
      /\ UNCHANGED <<stored, faults, crashes>>
  BY <1>1, <1>2 DEF Ingress!Retire, Ingress!Sweeps, Ingress!Serving
<1>4. \/ receipts' = receipts
      \/ receipts[p].lease = y /\ receipts[p].state = "sweeping" /\ receipts' = [receipts EXCEPT ![p] = x]
  BY <1>1, <1>2 DEF Ingress!Retire, Ingress!Owns, Ingress!NoReceipt
<1>5. sweep[s] \in SweepStates(k) /\ at = <<p, y>> /\ p \in k.parts /\ y \in k.requests /\ faults \in Nat
      /\ crashes \in Nat
      /\ stored \in [k.parts -> SUBSET k.requests] /\ receipts \in [k.parts -> ReceiptStates(k)] /\ y # Nobody
  BY <1>1, <1>3, SweepIs DEF SweepWell, IngressConstants
<1>6. SweepWell(k, w) /\ w.pc \in {"idle", "arm"} /\ ReceiptWell(k, x)
  BY <1>2, <1>5, NextCandidateIsWell DEF ReceiptWell, ReceiptStates
<1>7. Counted /\ (Quiet' => Quiet) /\ receipts' \in [k.parts -> ReceiptStates(k)]
      /\ (\A z \in k.parts \ {p} : receipts'[z] = receipts[z])
      /\ (receipts' = [receipts EXCEPT ![p] = x] => receipts'[p] = x)
  BY <1>3, <1>4, <1>5, <1>6 DEF Counted, Quiet, ReceiptWell
<1>8. IdentityOK(k, p, y) /\ (Quiet => IdentityKnown(k, p, y))
  BY <1>5, RequestIs
<1>9. Cleans(k, p, y, {"delete", "retire"}) /\ Cleans(k, p, y, {"retire"})
  BY <1>1, <1>3, <1>5 DEF Cleans
<1>10. Status(p, y) \in {"absent", "sweeping"}
  BY <1>8, <1>9 DEF IdentityOK
<1>11. Status(p, y)' \in {"absent", "sweeping"} /\ (Status(p, y) = "absent" => Status(p, y)' = "absent")
  BY <1>2, <1>4, <1>5, <1>7, <1>10 DEF Status
<1>12. ~Unspent(req[y], p)' /\ (Erases(req[y], p)' <=> Erases(req[y], p))
       /\ (\A pcs : InHand(req[y], p, pcs)' <=> InHand(req[y], p, pcs))
  BY <1>3, <1>8, <1>9 DEF IdentityOK, Unspent, Erases, LastOf, InHand
<1>13. IdentityOK(k, p, y)'
  BY <1>8, <1>11, <1>12 DEF IdentityOK
<1>14. Quiet' => IdentityKnown(k, p, y)'
  BY <1>3, <1>7, <1>8, <1>9, <1>12 DEF IdentityKnown
<1>15. ReceiptAt(k, at) /\ BytesAt(k, at) /\ WellAt(k, at) /\ at = <<at[1], at[2]>>
  <2>1. ReceiptAt(k, at)
    BY <1>1, <1>2, <1>4, <1>6, <1>7 DEF ReceiptAt
  <2>2. WellAt(k, at)
    BY <1>5, <1>13, <1>14 DEF WellAt
  <2> QED BY <1>1, <1>3, <1>5, <2>1, <2>2 DEF BytesAt
<1> QED BY <1>1, <1>3, <1>5, <1>6, <1>7, <1>15, SweepMoves

\* A sweep that fails or dies leaves the receipt armed, and the bytes where they are.
LEMMA SweepStopsKeeps ==
    ASSUME NEW k, IngressConstants(k), IngressInvariant(k), NEW s \in k.sweepers,
           Ingress(k)!SweepFails(s) \/ Ingress(k)!SweeperDies(s)
    PROVE  IngressInvariant(k)'
<1>1. PICK at : at = sweep[s].at
  OBVIOUS
<1>2. sweep[s] \in SweepStates(k) /\ at = <<at[1], at[2]>> /\ faults \in Nat /\ crashes \in Nat
      /\ stored \in [k.parts -> SUBSET k.requests] /\ receipts \in [k.parts -> ReceiptStates(k)]
  BY <1>1, SweepIs
<1>3. PICK w : /\ w \in {Ingress(k)!NextCandidate(sweep[s]), Ingress(k)!NoSweep}
               /\ sweep' = [sweep EXCEPT ![s] = w]
  BY DEF Ingress!SweepFails, Ingress!SweeperDies, Ingress!Sweeps
<1>4. req' = req /\ expired' = expired /\ handed' = handed /\ UNCHANGED <<receipts, stored>>
      /\ faults' \in {faults, faults + 1} /\ crashes' \in {crashes, crashes + 1} /\ faults' + crashes' = faults + crashes + 1
  BY <1>2 DEF Ingress!SweepFails, Ingress!SweeperDies, Ingress!Serving, Ingress!Faulty
<1>5. SweepWell(k, w) /\ w.pc \in {"idle", "arm"}
  BY <1>2, <1>3, NextCandidateIsWell, NoSweepIsWell
<1>6. Counted /\ ~Quiet'
  BY <1>2, <1>4 DEF Counted, Quiet
<1>7. ASSUME NEW p \in k.parts, NEW y \in k.requests PROVE IdentityOK(k, p, y)'
  <2>1. IdentityOK(k, p, y)
    BY RequestIs
  <2>2. Cleans(k, p, y, {"delete", "retire"})' => Cleans(k, p, y, {"delete", "retire"})
    BY <1>3, <1>5, CleansLess
  <2>3. Status(p, y)' = Status(p, y)
    BY <1>4 DEF Status
  <2>4. (Unspent(req[y], p)' <=> Unspent(req[y], p)) /\ (Erases(req[y], p)' <=> Erases(req[y], p))
        /\ (\A pcs : InHand(req[y], p, pcs)' <=> InHand(req[y], p, pcs))
    BY <1>4 DEF Unspent, Erases, LastOf, InHand
  <2> QED BY <1>4, <2>1, <2>2, <2>3, <2>4 DEF IdentityOK
<1>8. ReceiptAt(k, at) /\ BytesAt(k, at) /\ WellAt(k, at)
  BY <1>4, <1>6, <1>7 DEF ReceiptAt, BytesAt, WellAt
<1> QED BY <1>1, <1>2, <1>3, <1>4, <1>5, <1>6, <1>8, SweepMoves

LEMMA ExpireKeeps ==
    ASSUME NEW k, IngressConstants(k), IngressInvariant(k), NEW p \in k.parts, Ingress(k)!Expire(p)
    PROVE  IngressInvariant(k)'
<1>1. UNCHANGED <<receipts, stored, handed, req, sweep, faults, crashes>>
      /\ expired' = [expired EXCEPT ![p] = @ \union {receipts[p].lease}] /\ receipts[p].lease \in k.requests
  BY DEF Ingress!Expire
<1>2. IngressTyped(k)'
  BY <1>1
     DEF IngressInvariant, IngressTyped, RequestWell, RequestStates, SweepWell, SweepStates, ReceiptWell, ReceiptStates
<1>3. IdentitiesOK(k)'
  <2>1. SUFFICES ASSUME NEW x \in k.parts, NEW y \in k.requests
                 PROVE  IdentityOK(k, x, y)' /\ (Quiet' => IdentityKnown(k, x, y)')
    BY DEF IdentitiesOK
  <2>2. \A pcs : Cleans(k, x, y, pcs)' <=> Cleans(k, x, y, pcs)
    BY <1>1, SameCleaning
  <2>3. Status(x, y)' = Status(x, y) /\ (Quiet' => Quiet)
    BY <1>1 DEF Status, Quiet
  <2> QED BY <1>1, <2>2, <2>3, RequestIs, OtherIdentity
<1>4. FilesComplete(k)' /\ ClaimsComplete(k)'
  BY <1>1 DEF IngressInvariant, FilesComplete, ClaimsComplete
<1> QED BY <1>2, <1>3, <1>4 DEF IngressInvariant

-----------------------------------------------------------------------------
(* Ingress: the theorem                                                    *)

LEMMA IngressInit ==
    ASSUME NEW k, IngressConstants(k), Ingress(k)!Init
    PROVE  IngressInvariant(k)
<1>1. PICK first : first = FirstOf(k.parts)
  OBVIOUS
<1>2. first \in k.parts /\ Nobody \notin k.requests
  BY <1>1, FirstOfSet DEF IngressConstants
<1>3. PICK q : q = [pc |-> "insert", part |-> first, won |-> {}, adopted |-> [p \in k.parts |-> Nobody], claims |-> {}]
  OBVIOUS
<1>4. PICK x : x = [state |-> "none", lease |-> Nobody, token |-> Nobody]
  OBVIOUS
<1>5. /\ receipts = [p \in k.parts |-> x] /\ stored = [p \in k.parts |-> {}] /\ handed = stored /\ expired = stored
      /\ faults = 0 /\ crashes = 0
  BY <1>4 DEF Ingress!Init, Ingress!NoReceipt
<1>6. req = [r \in k.requests |-> q]
  <2>1. Ingress(k)!NewRequest = q
    BY <1>1, <1>3, LastsAreThese DEF Ingress!NewRequest, Ingress!First
  <2> QED BY <2>1 DEF Ingress!Init
<1>7. PICK w : w = Ingress(k)!NoSweep
  OBVIOUS
<1>8. sweep = [s \in k.sweepers |-> w]
  BY <1>7 DEF Ingress!Init
<1>9. SweepWell(k, w) /\ w \in SweepStates(k) /\ w.pc = "idle"
  BY <1>7, NoSweepIsWell DEF SweepWell
<1>10. RequestWell(k, q) /\ q \in RequestStates(k) /\ ReceiptWell(k, x) /\ x \in ReceiptStates(k)
  BY <1>2, <1>3, <1>4 DEF RequestWell, RequestStates, ReceiptWell, ReceiptStates
<1>11. IngressTyped(k)
  BY <1>5, <1>6, <1>8, <1>9, <1>10 DEF IngressTyped
<1>12. IdentitiesOK(k)
  <2>1. SUFFICES ASSUME NEW p \in k.parts, NEW r \in k.requests
                 PROVE  IdentityOK(k, p, r) /\ (Quiet => IdentityKnown(k, p, r))
    BY DEF IdentitiesOK
  <2>2. Status(p, r) = "absent" /\ r \notin stored[p]
    BY <1>2, <1>4, <1>5 DEF Status
  <2>3. ~Cleans(k, p, r, {"delete", "retire"}) /\ ~Cleans(k, p, r, {"retire"})
    BY <1>8, <1>9 DEF Cleans
  <2>4. req[r].pc = "insert"
    BY <1>3, <1>6
  <2> QED BY <2>2, <2>3, <2>4 DEF IdentityOK, IdentityKnown, InHand, Erases
<1>13. FilesComplete(k) /\ ClaimsComplete(k)
  BY <1>3, <1>4, <1>5, <1>6 DEF FilesComplete, ClaimsComplete
<1> QED BY <1>11, <1>12, <1>13 DEF IngressInvariant

LEMMA IngressNext ==
    ASSUME NEW k, IngressConstants(k), IngressInvariant(k), Ingress(k)!Next
    PROVE  IngressInvariant(k)'
<1>1. ASSUME NEW r \in k.requests, Ingress(k)!RequestStep(r) PROVE IngressInvariant(k)'
  BY <1>1, InsertKeeps, RefuseKeeps, AwaitReceiptKeeps, WriteKeeps, PublishKeeps, TakeBackKeeps, WithdrawKeeps, EraseKeeps,
     EndKeeps, ClaimKeeps DEF Ingress!RequestStep
<1>2. ASSUME NEW r \in k.requests, Ingress(k)!RequestFault(r) PROVE IngressInvariant(k)'
  BY <1>2, InsertFailsKeeps, WriteKeeps, PublishFailsKeeps, WithdrawFailsKeeps, EndKeeps, ClaimKeeps
     DEF Ingress!RequestFault
<1>3. ASSUME NEW s \in k.sweepers,
             Ingress(k)!SweepStep(s) \/ Ingress(k)!SweepFails(s) \/ Ingress(k)!SweeperDies(s)
      PROVE  IngressInvariant(k)'
  BY <1>3, SelectSweepKeeps, ArmKeeps, DeleteBytesKeeps, RetireKeeps, SweepStopsKeeps DEF Ingress!SweepStep
<1>4. ASSUME NEW p \in k.parts, Ingress(k)!Expire(p) PROVE IngressInvariant(k)'
  BY <1>4, ExpireKeeps
<1> QED BY <1>1, <1>2, <1>3, <1>4 DEF Ingress!Next

LEMMA IngressRests ==
    ASSUME NEW k, IngressInvariant(k), UNCHANGED <<ingressVars, faults, crashes>>
    PROVE  IngressInvariant(k)'
<1>1. UNCHANGED <<receipts, stored, handed, expired, req, sweep, faults, crashes>>
  BY DEF ingressVars
<1>2. IngressTyped(k)'
  BY <1>1 DEF IngressInvariant, IngressTyped
<1>3. IdentitiesOK(k)'
  <2>1. SUFFICES ASSUME NEW x \in k.parts, NEW y \in k.requests
                 PROVE  IdentityOK(k, x, y)' /\ (Quiet' => IdentityKnown(k, x, y)')
    BY DEF IdentitiesOK
  <2>2. \A pcs : Cleans(k, x, y, pcs)' <=> Cleans(k, x, y, pcs)
    BY <1>1, SameCleaning
  <2>3. Status(x, y)' = Status(x, y) /\ (Quiet' => Quiet)
    BY <1>1 DEF Status, Quiet
  <2> QED BY <1>1, <2>2, <2>3, RequestIs, OtherIdentity
<1>4. FilesComplete(k)' /\ ClaimsComplete(k)'
  BY <1>1 DEF IngressInvariant, FilesComplete, ClaimsComplete
<1> QED BY <1>2, <1>3, <1>4 DEF IngressInvariant

LEMMA IngressConclusions ==
    ASSUME NEW k, IngressConstants(k), IngressInvariant(k)
    PROVE  Ingress(k)!TypeOK /\ FilesAreServed(k)
<1>1. Nobody \notin k.requests
  BY DEF IngressConstants
<1>2. Ingress(k)!TypeOK
  <2>1. receipts \in [k.parts -> Ingress(k)!Receipts]
    BY DEF IngressInvariant, IngressTyped, ReceiptStates, Ingress!Receipts, Ingress!States
  <2>2. {stored, handed, expired} \subseteq [k.parts -> SUBSET k.requests]
    BY DEF IngressInvariant, IngressTyped, FilesComplete
  <2>3. \A r \in k.requests :
          /\ req[r].pc \in Ingress(k)!Steps /\ req[r].part \in k.parts \union {Ingress(k)!Beyond}
          /\ req[r].won \subseteq k.parts /\ req[r].claims \subseteq k.parts
    BY LastsAreThese, RequestIs DEF RequestStates, Ingress!Steps, Ingress!Ends, Ingress!Beyond
  <2>4. \A s \in k.sweepers : sweep[s].pc \in {"idle", "arm", "delete", "retire"}
    BY SweepIs DEF SweepStates
  <2> QED BY <2>1, <2>2, <2>3, <2>4 DEF Ingress!TypeOK
<1>3. Ingress(k)!FilesHaveBytes
  <2> SUFFICES ASSUME NEW p \in k.parts
               PROVE  handed[p] \subseteq stored[p] /\ (receipts[p].state = "leased" => receipts[p].lease \in stored[p])
    BY DEF Ingress!FilesHaveBytes
  <2>1. ASSUME receipts[p].state \in {"leased", "complete"} PROVE receipts[p].lease \in stored[p]
    <3>1. PICK r \in k.requests : r = receipts[p].lease
      BY <2>1, RequestIs DEF IngressInvariant, IngressTyped, ReceiptWell, ReceiptStates
    <3>2. Status(p, r) \in {"leased", "complete"}
      BY <2>1, <3>1 DEF Status
    <3>3. IdentityOK(k, p, r)
      BY RequestIs
    <3> QED BY <3>1, <3>2, <3>3 DEF IdentityOK
  <2>2. handed[p] = IF receipts[p].state = "complete" THEN {receipts[p].lease} ELSE {}
    BY DEF IngressInvariant, FilesComplete
  <2> QED BY <2>1, <2>2
<1>4. Ingress(k)!AnswersAgree
  <2> SUFFICES ASSUME NEW r \in k.requests, NEW p \in req[r].claims PROVE handed[p] = {req[r].adopted[p]}
    BY DEF Ingress!AnswersAgree
  <2>1. p \in k.parts
    BY RequestIs DEF RequestStates
  <2> QED BY <2>1 DEF IngressInvariant, FilesComplete, ClaimsComplete
<1>5. Ingress(k)!BytesAreKnown
  <2> SUFFICES ASSUME Quiet, NEW p \in k.parts, NEW r \in stored[p]
               PROVE  \/ r \in handed[p] \/ Ingress(k)!Owns(p, r, {"staging", "leased", "sweeping"})
                      \/ Ingress(k)!Removes(p, r)
    BY DEF Ingress!BytesAreKnown, Quiet
  <2>1. r \in k.requests
    BY DEF IngressInvariant, IngressTyped
  <2>2. IdentityKnown(k, p, r) /\ ReceiptWell(k, receipts[p]) /\ RequestWell(k, req[r])
    BY <2>1, RequestIs
  <2>3. CASE Status(p, r) # "absent"
    <3>1. receipts[p].lease = r /\ receipts[p].state \in {"staging", "leased", "sweeping", "complete"}
      BY <1>1, <2>1, <2>2, <2>3 DEF Status, ReceiptWell, ReceiptStates
    <3>2. receipts[p].state = "complete" => r \in handed[p]
      BY <3>1 DEF IngressInvariant, FilesComplete
    <3> QED BY <3>1, <3>2 DEF Ingress!Owns
  <2>4. CASE InHand(req[r], p, {"publish", "undo"})
    BY <2>4 DEF InHand, Ingress!Removes
  <2>5. CASE Erases(req[r], p)
    <3>1. req[r].pc = "erase" /\ Ingress(k)!Max(req[r].won) = p
      BY <2>5, LastsAreThese DEF Erases
    <3> QED BY <3>1 DEF Ingress!Removes
  <2>6. CASE Cleans(k, p, r, {"delete"})
    BY <2>6 DEF Cleans, Ingress!Removes
  <2> QED BY <2>2, <2>3, <2>4, <2>5, <2>6 DEF IdentityKnown
<1> QED BY <1>2, <1>3, <1>4, <1>5 DEF FilesAreServed

\* No sweep, withdrawal or lost publication takes the bytes of a File or of a lease, retries are
\* answered with the same Files, and where nothing failed somebody knows of all bytes: for any
\* requests, parts, sweepers, failures and crashes, and bytes uploaded under one path are owned.
THEOREM StorageStaysConsistent == MCSpec => []StorageIsConsistent
<1> DEFINE I == /\ part = "ingress" => IngressInvariant(Plain)
                /\ part = "retries" => IngressInvariant(Retries)
                /\ part = "fair ingress" => IngressInvariant(Fair)
                /\ part = "one path" => OwnedBytes /\ AllFor(path1)
<1>1. \A k \in {Plain, Retries, Fair} : IngressConstants(k)
  BY IngressAssumption DEF IngressConstants, Ingress!FileIngressAssumption, Ingress!IsFiniteSet, IsFiniteSet
<1>2. ASSUME MCInit PROVE I
  <2>1. OwnedBytes /\ AllFor(path1)
    BY <1>2, OwnersInit DEF MCInit
  <2>2. part = "ingress" => IngressInvariant(Plain)
    BY <1>1, <1>2, IngressInit DEF MCInit
  <2>3. part = "retries" => IngressInvariant(Retries)
    BY <1>1, <1>2, IngressInit DEF MCInit
  <2>4. part = "fair ingress" => IngressInvariant(Fair)
    BY <1>1, <1>2, IngressInit DEF MCInit
  <2> QED BY <2>1, <2>2, <2>3, <2>4
<1>3. ASSUME I, [MCNext]_allVars PROVE I'
  <2>1. CASE UNCHANGED <<part, ingressVars, crashes, vars>>
    <3>1. UNCHANGED <<ingressVars, faults, crashes>>
      BY <2>1 DEF vars
    <3>2. part = "ingress" => IngressInvariant(Plain)'
      BY <1>3, <3>1, IngressRests
    <3>3. part = "retries" => IngressInvariant(Retries)'
      BY <1>3, <3>1, IngressRests
    <3>4. part = "fair ingress" => IngressInvariant(Fair)'
      BY <1>3, <3>1, IngressRests
    <3>5. part = "one path" => OwnedBytes' /\ AllFor(path1)'
      BY <1>3, <2>1, OwnersRest
    <3> QED BY <2>1, <3>2, <3>3, <3>4, <3>5
  <2>2. CASE part \notin {"ingress", "retries", "fair ingress", "one path"} /\ part' = part
    BY <2>2
  <2>3. CASE part = "ingress" /\ Ingress(Plain)!Next /\ part' = part
    BY <1>1, <1>3, <2>3, IngressNext
  <2>4. CASE part = "retries" /\ Ingress(Retries)!Next /\ part' = part
    BY <1>1, <1>3, <2>4, IngressNext
  <2>5. CASE part = "fair ingress" /\ Ingress(Fair)!Next /\ part' = part
    BY <1>1, <1>3, <2>5, IngressNext
  <2>6. CASE part = "one path" /\ Next /\ OnlyPath1' /\ part' = part
    BY <1>3, <2>6, OwnersNext DEF OnlyPath1
  <2> HIDE DEF I
  <2>7. CASE UNCHANGED allVars
    BY <2>1, <2>7 DEF allVars
  <2>8. CASE MCNext
    BY <2>2, <2>3, <2>4, <2>5, <2>6, <2>8 DEF MCNext, IngressMoves, UploadsMove, OutboxMoves
  <2> QED BY <1>3, <2>7, <2>8
<1>4. ASSUME I PROVE StorageIsConsistent
  BY <1>1, <1>4, IngressConclusions DEF StorageIsConsistent, OwnedBytes
<1> QED BY <1>2, <1>3, <1>4, PTL DEF MCSpec
=============================================================================
