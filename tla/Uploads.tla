-------------------------------- MODULE Uploads --------------------------------
(***************************************************************************)
(* Files: services/uploads, services/storage, rpc/uploads.py,              *)
(* rpc/chat/uploads.py and tg/media.py.  A file is an object in the S3     *)
(* bucket, a row in `uploads` and, for what Codex can only read from disk, *)
(* a copy in the workspace whose path is mentioned in the prompt.  The     *)
(* three stores are written one after the other by concurrent jobs:        *)
(*   web    UploadOnce, then RunTurn resolving the upload                  *)
(*   tg     prepare_turn on a message and the message it quotes            *)
(*   answer persist_attachments inside the transaction of the answer       *)
(*   delete DeleteUpload                                                   *)
(***************************************************************************)
EXTENDS Naturals, Sequences, FiniteSets

CONSTANTS
    Jobs,        \* jobs in progress
    Names,       \* file names after _safe_filename
    MaxIds,      \* bound: uploads
    MaxIoErrors  \* bound: S3, database and STT calls that fail

ASSUME UploadsAssumption == MaxIds \in Nat /\ MaxIoErrors \in Nat

Ids == 1..MaxIds
Media == [kind : {"image", "audio", "file"}, big : BOOLEAN, name : Names]
Paths == Ids \X Names

VARIABLES
    bucket,     \* keys in S3; the key of upload i is i
    uploads,    \* committed rows
    lastUpload, \* ids handed out
    disk,       \* workspace path -> upload whose bytes it holds (0: no file)
    mentioned,  \* <<path, upload>> pairs put into a prompt
    answers,    \* upload ids named by a committed assistant message
    deleted,    \* uploads DeleteUpload has started on
    job,
    ioErrors

uploadVars ==
    <<bucket, uploads, lastUpload, disk, mentioned, answers, deleted, job, ioErrors>>

\* todo: media still to store; at: the upload being stored; puts: the objects
\* the job has stored; held: rows of the job's open transaction; broken: that
\* transaction can only be rolled back
NoJob == [kind |-> "none", step |-> "idle", todo |-> <<>>, at |-> 0, puts |-> {},
          held |-> {}, broken |-> FALSE]

JobSteps == {"idle", "check", "put", "insert", "use", "resolve", "commit",
             "remove", "forget", "done", "failed", "refused"}

UploadsTypeOK ==
    /\ bucket \subseteq Ids /\ uploads \subseteq Ids
    /\ lastUpload \in 0..MaxIds
    /\ disk \in [Paths -> Ids \cup {0}]
    /\ mentioned \subseteq Paths \X Ids
    /\ answers \subseteq Ids /\ deleted \subseteq Ids
    /\ \A j \in Jobs :
          /\ job[j].kind \in {"none", "web", "tg", "answer", "delete"}
          /\ job[j].step \in JobSteps
          /\ \A k \in DOMAIN job[j].todo : job[j].todo[k] \in Media
          /\ job[j].at \in Ids \cup {0} /\ job[j].held \subseteq job[j].puts /\ job[j].puts \subseteq 1..lastUpload
          /\ job[j].broken \in BOOLEAN
    /\ ioErrors \in Nat

UploadsInit ==
    /\ bucket = {} /\ uploads = {} /\ lastUpload = 0
    /\ disk = [p \in Paths |-> 0]
    /\ mentioned = {} /\ answers = {} /\ deleted = {}
    /\ job = [j \in Jobs |-> NoJob]
    /\ ioErrors = 0

storeVars == <<bucket, uploads, lastUpload, disk, mentioned, answers, deleted>>

IoError == ioErrors < MaxIoErrors /\ ioErrors' = ioErrors + 1

Set(j, r) == job' = [job EXCEPT ![j] = r]
Then(j, s) == Set(j, [job[j] EXCEPT !.step = s])

\* what follows the storing of one medium; _prepare_message looks at the size
\* of the next one again
Following(j) ==
    LET rest == Tail(job[j].todo)
    IN [job[j] EXCEPT !.todo = rest, !.at = 0,
                      !.step = IF rest # <<>>
                                 THEN (IF Head(rest).big THEN "refused" ELSE "put")
                                 ELSE (IF job[j].kind = "answer" THEN "commit" ELSE "done")]

-----------------------------------------------------------------------------

\* A job arrives: one file over HTTP, a Telegram message with at most two
\* media (its own and the quoted one), an answer with at most two generated
\* images (_unique_local_paths), or a deletion of an own upload.
BeginJob(j) ==
    /\ job[j].step = "idle"
    /\ \/ \E m \in Media : ~m.big /\ Set(j, [NoJob EXCEPT !.kind = "web", !.step = "put",
                                                          !.todo = <<m>>])
       \/ \E m, q \in Media : \E todo \in {<<m>>, <<m, q>>} :
             Set(j, [NoJob EXCEPT !.kind = "tg", !.step = "check", !.todo = todo])
       \/ \E n \in {1, 2}, m \in Media :
             /\ m.kind = "image" /\ ~m.big
             /\ Set(j, [NoJob EXCEPT !.kind = "answer", !.step = "put",
                                     !.todo = [k \in 1..n |-> m]])
       \/ \E i \in uploads : Set(j, [NoJob EXCEPT !.kind = "delete", !.step = "remove", !.at = i])
    /\ UNCHANGED <<storeVars, ioErrors>>

\* prepare_turn: _ensure_size on the message and on the quoted one before
\* anything is downloaded; UploadTooLarge
CheckSize(j) ==
    /\ job[j].step = "check"
    /\ Then(j, IF \E k \in DOMAIN job[j].todo : job[j].todo[k].big THEN "refused" ELSE "put")
    /\ UNCHANGED <<storeVars, ioErrors>>

\* _persist_local_file, first half: put_object under a fresh key.  A failure
\* ends the job, except that an answer goes on without the file
\* (persist_attachments) and a voice message with its transcript only
\* (_transcribe_and_persist).
PutObject(j) ==
    /\ job[j].step = "put"
    /\ \/ /\ lastUpload < MaxIds
          /\ lastUpload' = lastUpload + 1
          /\ bucket' = bucket \cup {lastUpload'}
          /\ Set(j, [job[j] EXCEPT !.step = "insert", !.at = lastUpload',
                                   !.puts = @ \cup {lastUpload'}])
          /\ UNCHANGED ioErrors
       \/ /\ IoError
          /\ CASE job[j].kind = "answer" -> Set(j, Following(j))
               [] job[j].kind = "tg" /\ Head(job[j].todo).kind = "audio" -> Then(j, "use")
               [] OTHER -> Then(j, "failed")
          /\ UNCHANGED <<bucket, lastUpload>>
    /\ UNCHANGED <<uploads, disk, mentioned, answers, deleted>>

\* _persist_local_file, second half: INSERT and, for a web or a Telegram
\* file, commit.  In an answer the row stays in the open transaction; a
\* failing flush is caught but leaves that transaction unusable.
InsertUpload(j) ==
    /\ job[j].step = "insert"
    /\ \/ /\ job[j].kind # "answer"
          /\ uploads' = uploads \cup {job[j].at}
          /\ Then(j, IF job[j].kind = "web" THEN "resolve" ELSE "use")
          /\ UNCHANGED ioErrors
       \/ /\ job[j].kind = "answer"
          /\ Set(j, [Following(j) EXCEPT !.held = @ \cup {job[j].at}])
          /\ UNCHANGED <<uploads, ioErrors>>
       \/ /\ IoError
          /\ CASE job[j].kind = "answer" -> Set(j, [Following(j) EXCEPT !.broken = TRUE])
               [] job[j].kind = "tg" /\ Head(job[j].todo).kind = "audio" -> Then(j, "use")
               [] OTHER -> Then(j, "failed")
          /\ UNCHANGED uploads
    /\ UNCHANGED <<bucket, lastUpload, disk, mentioned, answers, deleted>>

\* resolve_uploads: the row and, unless it is audio, the object must still be
\* there
Resolve(j) ==
    /\ job[j].step = "resolve"
    /\ LET i == job[j].at
           ok == i \in uploads /\ (Head(job[j].todo).kind = "audio" \/ i \in bucket)
       IN Then(j, IF ok THEN "use" ELSE "failed")
    /\ UNCHANGED <<storeVars, ioErrors>>

\* mutant: the workspace path without the upload id
PathOf_by_name(i, m) == <<1, m.name>>

\* materialize_for_chat: uploads/chat-<chat>/<upload>-<name>
PathOf(i, m) == <<i, m.name>>

\* a file is written to the workspace and mentioned, an image is inlined, a
\* voice message is transcribed (which may fail)
UseMedia(j) ==
    /\ job[j].step = "use"
    /\ LET m == Head(job[j].todo)
           i == job[j].at
       IN \/ /\ m.kind = "file"
             /\ disk' = [disk EXCEPT ![PathOf(i, m)] = i]
             /\ mentioned' = mentioned \cup {<<PathOf(i, m), i>>}
             /\ Set(j, Following(j)) /\ UNCHANGED ioErrors
          \/ /\ m.kind # "file"
             /\ Set(j, Following(j)) /\ UNCHANGED <<disk, mentioned, ioErrors>>
          \/ /\ m.kind = "audio" /\ job[j].kind = "tg" /\ IoError
             /\ Then(j, "failed") /\ UNCHANGED <<disk, mentioned>>
    /\ UNCHANGED <<bucket, uploads, lastUpload, answers, deleted>>

\* the transaction of the answer: upload rows and message together, or neither
CommitAnswer(j) ==
    /\ job[j].step = "commit"
    /\ \/ /\ ~job[j].broken
          /\ uploads' = uploads \cup job[j].held
          /\ answers' = answers \cup job[j].held
          /\ Then(j, "done") /\ UNCHANGED ioErrors
       \/ /\ job[j].broken
          /\ Then(j, "failed") /\ UNCHANGED <<uploads, answers, ioErrors>>
       \/ /\ ~job[j].broken /\ IoError
          /\ Then(j, "failed") /\ UNCHANGED <<uploads, answers>>
    /\ UNCHANGED <<bucket, lastUpload, disk, mentioned, deleted>>

\* DeleteUpload: the object goes first; StorageError is none of the exceptions
\* the service catches, so a failing S3 ends the request
RemoveObject(j) ==
    /\ job[j].step = "remove"
    /\ deleted' = deleted \cup {job[j].at}
    /\ \/ bucket' = bucket \ {job[j].at} /\ Then(j, "forget") /\ UNCHANGED ioErrors
       \/ IoError /\ Then(j, "failed") /\ UNCHANGED bucket
    /\ UNCHANGED <<uploads, lastUpload, disk, mentioned, answers>>

\* DeleteUpload: then the row; cancelled or failed in between, it stays
ForgetUpload(j) ==
    /\ job[j].step = "forget"
    /\ \/ uploads' = uploads \ {job[j].at} /\ Then(j, "done") /\ UNCHANGED ioErrors
       \/ IoError /\ Then(j, "failed") /\ UNCHANGED uploads
    /\ UNCHANGED <<bucket, lastUpload, disk, mentioned, answers, deleted>>

UploadsNext ==
    \E j \in Jobs :
       \/ BeginJob(j) \/ CheckSize(j) \/ PutObject(j) \/ InsertUpload(j)
       \/ Resolve(j) \/ UseMedia(j) \/ CommitAnswer(j) \/ RemoveObject(j) \/ ForgetUpload(j)

UploadsSpec == UploadsInit /\ [][UploadsNext]_uploadVars

-----------------------------------------------------------------------------
(* Properties *)

\* A row, and an id an answer shows, stand for a file that can be fetched,
\* unless its owner has started to delete it: whichever of the three stores
\* fails, no job leaves a row without an object or an answer without a row.
FilesAreThere ==
    /\ uploads \ deleted \subseteq bucket
    /\ answers \ deleted \subseteq uploads

\* A path mentioned to Codex holds the bytes of the upload it was mentioned
\* for, whatever other uploads of the same name come later
\* (WorkspaceUploads.materialize_for_chat).
MentionIsRight == \A m \in mentioned : disk[m[1]] = m[2]

\* A Telegram message refused for its size has stored nothing, also when only
\* the quoted message is too large (tg/media.py prepare_turn).
RefusedStoresNothing ==
    \A j \in Jobs : job[j].step = "refused" => job[j].puts = {}

\* Rows, objects, workspace files and what users and Codex were told of them
\* agree (services/uploads, tg/media.py).
FilesAgree == FilesAreThere /\ MentionIsRight /\ RefusedStoresNothing
=============================================================================
