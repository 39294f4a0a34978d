----------------------------- MODULE FileUploads -----------------------------
(* Browser uploads of Files (file-storage-runtime.ts, the File tables of       *)
(* database-runtime.ts): an upload is prepared for a path, its bytes arrive in *)
(* PUTs, any number of them at once, and become a version of a File; Files are *)
(* replaced, moved and deleted, and their versions published as public URLs.   *)
(*                                                                             *)
(* Transactions of a runtime exclude each other and every other operation      *)
(* (module TransactionGate): `gate` is the PUT whose transaction is open, the  *)
(* only one with an object operation inside. An upload is identified with its  *)
(* version, and a File with the upload that first named it.                    *)
EXTENDS Integers, FiniteSets

CONSTANTS Puts,         \* PUT requests, each with bytes of its own
          Nobody,       \* stands for no PUT
          Paths,        \* absolute File paths
          MaxVersions,  \* uploads that are prepared
          MaxFaults     \* failed operations and crashes

ASSUME FileUploadsAssumption ==
  Nobody \notin Puts /\ MaxVersions \in Nat \ {0} /\ MaxFaults \in Nat

Versions == 1 .. MaxVersions
Files == Versions
None == 0

VARIABLES uploads,  \* sporades_file_uploads: the pending uploads
          files,    \* sporades_files
          urls,     \* sporades_file_public_urls that are not revoked, as <<file, version>>
          objects,  \* the PUT whose bytes are stored under a version, or Nobody
          prepare,  \* the prepare that has resolved its reference
          made,     \* the number of uploads prepared
          put,      \* the PUT requests
          gate,     \* the PUT with an open transaction
          doomed,   \* versions of deleted Files whose bytes are still to be removed
          faults,   \* the failures so far
          lost      \* history: versions whose bytes a failure has put out of reach

vars == <<uploads, files, urls, objects, prepare, made, put, gate, doomed, faults, lost>>

Upload == [version : Versions, file : Files, path : Paths]
NoUpload == [version |-> None, file |-> None, path |-> None]

FileStates == [state : {"none", "uploaded", "deleted"}, version : {None} \union Versions,
               path : {None} \union Paths, by : {Nobody} \union Puts]
PrepareStates == [on : BOOLEAN, file : {None} \union Files, path : {None} \union Paths]
PutStates == [pc : {"new", "previous", "begin", "write", "undo", "commit", "tidy", "done",
                    "failed"},
              upload : Upload \union {NoUpload}, previous : {None} \union Versions]

TypeOK ==
  /\ uploads \subseteq Upload
  /\ files \in [Files -> FileStates]
  /\ urls \subseteq Files \X Versions
  /\ objects \in [Versions -> {Nobody} \union Puts]
  /\ prepare \in PrepareStates
  /\ made \in 0 .. MaxVersions
  /\ put \in [Puts -> PutStates]
  /\ gate \in {Nobody} \union Puts
  /\ doomed \subseteq Versions /\ lost \subseteq Versions
  /\ faults \in 0 .. MaxFaults
  \* No two pending uploads, and no two live Files, have a path in common.
  /\ \A u, w \in uploads : u.path = w.path => u = w
  /\ \A f, g \in Files : files[f].state = "uploaded" /\ files[g].state = "uploaded"
                         /\ files[f].path = files[g].path => f = g
  \* A transaction is open exactly while its PUT is in it.
  /\ \A r \in Puts : gate = r <=> put[r].pc \in {"write", "undo", "commit"}

Live(f) == files[f].state = "uploaded"
LiveAt(p) == {f \in Files : Live(f) /\ files[f].path = p}
Free == gate = Nobody
Faulty == faults < MaxFaults
Fault == faults' = faults + 1
Sound == UNCHANGED <<faults, lost>>

-----------------------------------------------------------------------------
(* Preparing an upload *)

\* The reference of a replacement is resolved before the transaction; without a path it has the File's.
Resolve ==
  /\ ~prepare.on /\ Free /\ made < MaxVersions
  /\ \/ \E p \in Paths : prepare' = [on |-> TRUE, file |-> None, path |-> p]
     \/ \E f \in Files : \E p \in Paths \union {files[f].path} :
          Live(f) /\ prepare' = [on |-> TRUE, file |-> f, path |-> p]
  /\ Sound /\ UNCHANGED <<uploads, files, urls, objects, made, put, gate, doomed>>

\* The File that an upload to a path is for: the one referred to, the one that lives there, the
\* one that an upload pending there has named, or a new one.
Target(f, p, fresh) ==
  LET pending == {u.file : u \in {w \in uploads : w.path = p}} IN
  IF f # None THEN f
  ELSE IF LiveAt(p) # {} THEN CHOOSE g \in LiveAt(p) : TRUE
  ELSE IF pending # {} THEN CHOOSE g \in pending : TRUE
  ELSE fresh

\* The uploads with a row that takes the place of the older ones of its path.
Publish(row) == {u \in uploads : u.path # row.path} \union {row}

\* The upload takes the place of those pending at its path, in one transaction.
Prepare ==
  LET row == [version |-> made + 1, file |-> Target(prepare.file, prepare.path, made + 1),
              path |-> prepare.path]
  IN /\ prepare.on /\ Free
     /\ uploads' = Publish(row)
     /\ made' = made + 1
     /\ prepare' = [prepare EXCEPT !.on = FALSE]
     /\ Sound /\ UNCHANGED <<files, urls, objects, put, gate, doomed>>

-----------------------------------------------------------------------------
(* A PUT *)

Goes(r, q) == put' = [put EXCEPT ![r] = q]
At(r, pc) == put[r].pc = pc

\* It reads its upload, if that is still pending.
Select(r) ==
  /\ At(r, "new") /\ Free
  /\ \E u \in uploads : Goes(r, [put[r] EXCEPT !.pc = "previous", !.upload = u])
  /\ Sound /\ UNCHANGED <<uploads, files, urls, objects, prepare, made, gate, doomed>>

\* It reads which version it is going to replace, before it receives its bytes.
SelectPrevious(r) ==
  LET f == put[r].upload.file IN
  /\ At(r, "previous") /\ Free
  /\ Goes(r, [put[r] EXCEPT !.pc = "begin", !.previous = IF Live(f) THEN files[f].version ELSE None])
  /\ Sound /\ UNCHANGED <<uploads, files, urls, objects, prepare, made, gate, doomed>>

\* Its bytes are refused: too large, of another size, or of a type that is not allowed.
Refused(r) ==
  /\ At(r, "begin")
  /\ Goes(r, [put[r] EXCEPT !.pc = "failed"])
  /\ Sound /\ UNCHANGED <<uploads, files, urls, objects, prepare, made, gate, doomed>>

\* Mutant: the upload need no longer be pending.
WinsLate(u) == /\ files[u.file].state # "deleted"
               /\ LiveAt(u.path) \subseteq {u.file}

\* The upload can be consumed: it is pending, its File is not deleted, nor its path another's.
Wins(u) == /\ u \in uploads
           /\ files[u.file].state # "deleted"
           /\ LiveAt(u.path) \subseteq {u.file}

\* The transaction starts, and consumes the upload.
Begin(r) ==
  LET u == put[r].upload IN
  /\ At(r, "begin") /\ Free /\ Wins(u)
  /\ gate' = r
  /\ Goes(r, [put[r] EXCEPT !.pc = "write"])
  /\ Sound /\ UNCHANGED <<uploads, files, urls, objects, prepare, made, doomed>>

\* A superseded PUT changes nothing, but uses up an upload whose File has been deleted.
Superseded(r) ==
  LET u == put[r].upload IN
  /\ At(r, "begin") /\ Free /\ ~Wins(u)
  /\ uploads' = IF files[u.file].state = "deleted" THEN uploads \ {u} ELSE uploads
  /\ Goes(r, [put[r] EXCEPT !.pc = "failed"])
  /\ Sound /\ UNCHANGED <<files, urls, objects, prepare, made, gate, doomed>>

Write(r) ==
  /\ At(r, "write")
  /\ objects' = [objects EXCEPT ![put[r].upload.version] = r]
  /\ Goes(r, [put[r] EXCEPT !.pc = "commit"])
  /\ Sound /\ UNCHANGED <<uploads, files, urls, prepare, made, gate, doomed>>

\* The bytes are not written, or only reported as such.
WriteFails(r) ==
  LET v == put[r].upload.version IN
  /\ At(r, "write") /\ Faulty
  /\ objects' \in {objects, [objects EXCEPT ![v] = r]}
  /\ Goes(r, [put[r] EXCEPT !.pc = "undo"])
  /\ Fault /\ UNCHANGED <<uploads, files, urls, prepare, made, gate, doomed, lost>>

\* The public URLs cannot be revoked, or the File not be read back.
StatementFails(r) ==
  /\ At(r, "commit") /\ Faulty
  /\ Goes(r, [put[r] EXCEPT !.pc = "undo"])
  /\ Fault /\ UNCHANGED <<uploads, files, urls, objects, prepare, made, gate, doomed, lost>>

\* The bytes are removed while the transaction still excludes other PUTs of the upload.
Undo(r) ==
  LET v == put[r].upload.version IN
  /\ At(r, "undo")
  /\ \/ objects' = [objects EXCEPT ![v] = Nobody] /\ Sound
     \/ Faulty /\ UNCHANGED objects /\ Fault /\ lost' = lost \union {v}
  /\ Goes(r, [put[r] EXCEPT !.pc = "failed"])
  /\ gate' = Nobody
  /\ UNCHANGED <<uploads, files, urls, prepare, made, doomed>>

\* What the transaction leaves behind: the File has the version, and its old URLs are revoked.
Completes(r) ==
  LET u == put[r].upload IN
  /\ uploads' = uploads \ {u}
  /\ files' = [files EXCEPT ![u.file] = [state |-> "uploaded", version |-> u.version,
                                         path |-> u.path, by |-> r]]
  /\ urls' = {l \in urls : l[1] # u.file}

Commit(r) ==
  /\ At(r, "commit") /\ Completes(r)
  /\ gate' = Nobody
  /\ Goes(r, [put[r] EXCEPT !.pc = "tidy"])
  /\ Sound /\ UNCHANGED <<objects, prepare, made, doomed>>

\* COMMIT fails, or only its answer is lost: neither version's bytes are touched.
CommitFails(r) ==
  LET q == put[r] IN
  /\ At(r, "commit") /\ Faulty
  /\ \/ Completes(r) /\ lost' = lost \union ({q.previous} \ {None})
     \/ UNCHANGED <<uploads, files, urls>> /\ lost' = lost \union {q.upload.version}
  /\ gate' = Nobody
  /\ Goes(r, [q EXCEPT !.pc = "failed"])
  /\ Fault /\ UNCHANGED <<objects, prepare, made, doomed>>

\* Mutant: the version that was written is removed too.
TidyBoth(r) ==
  LET q == put[r] IN
  /\ At(r, "tidy")
  /\ objects' = [v \in Versions |-> IF v \in {q.previous, q.upload.version} THEN Nobody ELSE objects[v]]
  /\ Goes(r, [q EXCEPT !.pc = "done"])
  /\ Sound /\ UNCHANGED <<uploads, files, urls, prepare, made, gate, doomed>>

\* The bytes of the version it replaced are removed, best effort.
Tidy(r) ==
  LET q == put[r] IN
  /\ At(r, "tidy")
  /\ \/ objects' = [v \in Versions |-> IF v = q.previous THEN Nobody ELSE objects[v]] /\ Sound
     \/ /\ q.previous # None /\ Faulty
        /\ UNCHANGED objects /\ Fault /\ lost' = lost \union {q.previous}
  /\ Goes(r, [q EXCEPT !.pc = "done"])
  /\ UNCHANGED <<uploads, files, urls, prepare, made, gate, doomed>>

-----------------------------------------------------------------------------
(* Deletion, public URLs, restarts *)

\* A deleted File takes along its uploads, those of its path, and its public URLs.
Deletes(f) ==
  /\ uploads' = {u \in uploads : u.file # f /\ u.path # files[f].path}
  /\ files' = [files EXCEPT ![f].state = "deleted"]
  /\ urls' = {l \in urls : l[1] # f}

\* A File is deleted, on its own or in the transaction of a handler that commits.
Delete(f) ==
  /\ Free /\ Live(f) /\ Deletes(f)
  /\ \/ doomed' = doomed \union {files[f].version} /\ Sound
     \/ Faulty /\ UNCHANGED doomed /\ Fault /\ lost' = lost \union {files[f].version}
  /\ UNCHANGED <<objects, prepare, made, put, gate>>

\* After the commit its bytes are removed, best effort.
RemoveBytes(v) ==
  /\ v \in doomed
  /\ doomed' = doomed \ {v}
  /\ \/ objects' = [objects EXCEPT ![v] = Nobody] /\ Sound
     \/ Faulty /\ UNCHANGED objects /\ Fault /\ lost' = lost \union {v}
  /\ UNCHANGED <<uploads, files, urls, prepare, made, put, gate>>

CreatePublicUrl(f) ==
  /\ Free /\ Live(f)
  /\ urls' = urls \union {<<f, files[f].version>>}
  /\ Sound /\ UNCHANGED <<uploads, files, objects, prepare, made, put, gate, doomed>>

RevokePublicUrl(l) ==
  /\ Free /\ l \in urls
  /\ urls' = urls \ {l}
  /\ Sound /\ UNCHANGED <<uploads, files, objects, prepare, made, put, gate, doomed>>

\* The process ends: its transaction is rolled back, and nobody goes on with what was in hand.
Crash ==
  /\ Faulty /\ Fault
  /\ put' = [r \in Puts |-> IF At(r, "new") THEN put[r] ELSE [put[r] EXCEPT !.pc = "failed"]]
  /\ prepare' = [prepare EXCEPT !.on = FALSE]
  /\ gate' = Nobody
  /\ doomed' = {}
  /\ lost' = lost \union doomed
             \union {put[r].previous : r \in {x \in Puts : At(x, "tidy") /\ put[x].previous # None}}
             \union {put[r].upload.version : r \in {x \in Puts : gate = x}}
  /\ UNCHANGED <<uploads, files, urls, objects, made>>

Init ==
  /\ uploads = {} /\ urls = {}
  /\ files = [f \in Files |-> [state |-> "none", version |-> None, path |-> None, by |-> Nobody]]
  /\ objects = [v \in Versions |-> Nobody]
  /\ prepare = [on |-> FALSE, file |-> None, path |-> None]
  /\ put = [r \in Puts |-> [pc |-> "new", upload |-> NoUpload, previous |-> None]]
  /\ gate = Nobody
  /\ made = 0 /\ faults = 0 /\ doomed = {} /\ lost = {}

PutStep(r) ==
  \/ Select(r) \/ SelectPrevious(r) \/ Refused(r) \/ Begin(r) \/ Superseded(r)
  \/ Write(r) \/ Undo(r) \/ Commit(r) \/ Tidy(r)

Next ==
  \/ Resolve \/ Prepare
  \/ \E r \in Puts : PutStep(r) \/ WriteFails(r) \/ StatementFails(r) \/ CommitFails(r)
  \/ \E f \in Files : Delete(f) \/ CreatePublicUrl(f)
  \/ \E v \in Versions : RemoveBytes(v)
  \/ \E l \in urls : RevokePublicUrl(l)
  \/ Crash

Spec == Init /\ [][Next]_vars

-----------------------------------------------------------------------------

\* A live File's version has its bytes, and they are those of the very PUT that the File's row
\* describes, whatever other PUTs of the upload, replacements, deletions and failures there were:
\* cleanup (file-storage-runtime.ts:856, :871, :1650) never takes a version that is still read.
LiveFileHasItsBytes ==
  \A f \in Files : Live(f) => objects[files[f].version] = files[f].by

\* With one path, stored bytes are always somebody's: a live File's, those of the PUT whose
\* transaction is open, or those that somebody is about to remove; only failures leave bytes behind (:855-857, :870-872, :1650).
BytesAreOwned ==
  \A v \in Versions \ lost : objects[v] # Nobody =>
    \/ \E f \in Files : Live(f) /\ files[f].version = v
    \/ gate # Nobody /\ put[gate].upload.version = v
    \/ \E r \in Puts : At(r, "tidy") /\ put[r].previous = v
    \/ v \in doomed

\* A public URL that is not revoked is that of a live File's current version, so none survives a
\* replacement or a deletion, nor is made for a version on its way out (:937-955, :853).
UrlsAreCurrent ==
  \A l \in urls : Live(l[1]) /\ files[l[1]].version = l[2]

\* What a reader may ask for is there, and what he is given is current.
UploadsAreSafe == TypeOK /\ LiveFileHasItsBytes /\ UrlsAreCurrent

\* An upload that has been overtaken by a newer one of its path, or by the deletion of its File,
\* is never published: what a File becomes, it becomes by the latest upload for its path
\* (completeFileUpload, database-runtime.ts:866-916).
PendingPublishes ==
  \A f \in Files : files'[f].version # files[f].version =>
    \E u \in uploads : u.file = f /\ u.version = files'[f].version
                       /\ \A w \in uploads : w.path = u.path => w.version <= u.version

\* Bytes that a URL has served stay what they are, for they are served as immutable
\* (http-runtime.ts:971): no losing PUT overwrites the version of a live File.
KeepsBytes ==
  \A f \in Files : Live(f) /\ files'[f] = files[f]
    => objects'[files[f].version] = objects[files[f].version]

\* Overtaken PUTs neither publish their upload nor touch the bytes of a live File.
OvertakenNeverPublish == [][PendingPublishes /\ KeepsBytes]_vars
=============================================================================
