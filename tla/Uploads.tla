------------------------------- MODULE Uploads --------------------------------
(***************************************************************************)
(* AttachmentsService, VoiceNotesService and StorageService: a row and a   *)
(* presigned URL, the client's PUT to R2, the confirmation; edits,         *)
(* removals, and rows that arrive by a push.                               *)
(***************************************************************************)
EXTENDS SignIn

CONSTANT MaxAttachments   \* guests.maxAttachments

\* How far the handler has come with its file.
Chose(w, pc, f) == Become(w, [worker[w] EXCEPT !.pc = pc, !.file = f])

KeysAround ==
  urls \union objects
    \union {files[f].key : f \in {g \in Files : files[g] # None}}
    \union {worker[w].key : w \in Workers}
    \union UNION {worker[w].doomed : w \in Workers}

\* presignUpload: a fresh key in the account's prefix, unseen by anybody until
\* the response.
FreshKey(id, f) ==
  CHOOSE k \in [account : {id}, file : {f}, no : 0..Cardinality(KeysAround)] :
    k \notin KeysAround

\* assertOwnedKey.
OwnedKey(id, key) == key.account = id

Quota(id) == Cardinality({f \in Attachments : Own(id, f)}) < MaxAttachments

\* createWithUpload: attachments of guests are limited, voice notes are not.
CreateAttachment(w) ==
  LET r == worker[w] IN
  /\ At(w, "create", "begin")
  /\ \E f \in Attachments :
       IF r.anonymous /\ ~Quota(r.id) THEN Finish(w) ELSE Chose(w, "number", f)
  /\ UNCHANGED <<tokens, tables, cache, bucket, seenAs>>

CreateVoiceNote(w) ==
  /\ At(w, "create", "begin")
  /\ \E f \in VoiceNotes : Chose(w, "number", f)
  /\ UNCHANGED <<tokens, tables, cache, bucket, seenAs>>

\* A create whose id is taken fails.
CreateWrite(w) ==
  LET r == worker[w] IN
  /\ At(w, "create", "write") /\ Unlocked(w, r.file)
  /\ IF files[r.file] # None
     THEN UNCHANGED <<files, urls>>
     ELSE /\ files' = [files EXCEPT ![r.file] =
                [owner |-> r.id, deleted |-> FALSE, seq |-> r.seq, key |-> None]]
          /\ urls' = urls \union {FreshKey(r.id, r.file)}
  /\ Finish(w)
  /\ UNCHANGED <<users, lastSeq, lost, tokens, cache, objects, crossed, seenAs>>

\* requestUpload; an attachment whose type differs is updated first.
AskAttachment(w) ==
  LET r == worker[w] IN
  /\ At(w, "ask", "begin")
  /\ \E f \in Attachments :
       /\ Own(r.id, f)
       /\ \/ Finish(w) /\ urls' = urls \union {FreshKey(r.id, f)}
          \/ Chose(w, "find", f) /\ UNCHANGED urls
  /\ UNCHANGED <<tokens, tables, cache, objects, crossed, seenAs>>

AskVoiceNote(w) ==
  LET r == worker[w] IN
  /\ At(w, "ask", "begin")
  /\ \E f \in VoiceNotes :
       Own(r.id, f) /\ urls' = urls \union {FreshKey(r.id, f)}
  /\ Finish(w)
  /\ UNCHANGED <<tokens, tables, cache, objects, crossed, seenAs>>

\* The client's PUT, at any time while the URL is good; it goes to R2.
Put(k) ==
  /\ k \in urls \ objects
  /\ objects' = objects \union {k}
  /\ UNCHANGED <<tokens, tables, cache, urls, crossed, worker, torn, seenAs>>

\* confirmUpload of a file with a key of the account's, made for it or not.
ConfirmFind(w) ==
  LET r == worker[w] IN
  /\ At(w, "confirm", "begin")
  /\ \E f \in Files, k \in urls \union objects :
       /\ Own(r.id, f)
       /\ IF OwnedKey(r.id, k)
          THEN /\ Become(w, [r EXCEPT !.pc = "head", !.file = f, !.key = k])
               /\ crossed' = IF k.file = f THEN crossed ELSE crossed \union {k}
          ELSE Finish(w) /\ UNCHANGED crossed
  /\ UNCHANGED <<tokens, tables, cache, urls, objects, seenAs>>

\* wrong variant: nobody looks whether the object has arrived.
ArrivedUnseen(k) == TRUE

\* There is such an object, with bytes in it.
Arrived(k) == k \in objects

ConfirmHead(w) ==
  /\ At(w, "confirm", "head")
  /\ IF Arrived(worker[w].key) THEN Goto(w, "find") ELSE Finish(w)
  /\ UNCHANGED <<tokens, tables, cache, bucket, seenAs>>

EditBegin(w) ==
  /\ worker[w].op \in {"edit", "remove"} /\ worker[w].pc = "begin"
  /\ \E f \in Files : Own(worker[w].id, f) /\ Chose(w, "number", f)
  /\ UNCHANGED <<tokens, tables, cache, bucket, seenAs>>

\* The findOne of update, after one of the handler's own.
EditFind(w) ==
  LET r == worker[w] IN
  /\ r.pc = "find"
  /\ IF Own(r.id, r.file) THEN Goto(w, "number") ELSE Finish(w)
  /\ UNCHANGED <<tokens, tables, cache, bucket, seenAs>>

\* By id alone, whoever owns the row by now; fails if it is gone.
EditWrite(w) ==
  LET r == worker[w]
      old == files[r.file]
  IN
  /\ r.op \in {"ask", "confirm", "edit", "remove"} /\ r.pc = "write"
  /\ Unlocked(w, r.file)
  /\ IF old = None
     THEN UNCHANGED <<files, urls>>
     ELSE /\ files' = [files EXCEPT ![r.file] =
                [old EXCEPT !.seq = r.seq,
                            !.key = IF r.op = "confirm" THEN r.key ELSE @,
                            !.deleted = @ \/ r.op = "remove"]]
          /\ urls' = IF r.op = "ask" THEN urls \union {FreshKey(r.id, r.file)}
                                     ELSE urls
  /\ Finish(w)
  /\ UNCHANGED <<users, lastSeq, lost, tokens, cache, objects, crossed, seenAs>>

NumberFile(w) ==
  /\ worker[w].pc = "number"
  /\ Number(w, "write")
  /\ UNCHANGED <<tokens, cache, bucket, seenAs>>

\* What a push leaves of a row: the key is the server's.
Pushed(f, id, deleted) ==
  [owner |-> id, deleted |-> deleted, seq |-> lastSeq[id] + 1,
   key |-> IF files[f] = None THEN None ELSE files[f].key]

\* A push of one row, one transaction (module SyncPush): it makes or undeletes a
\* row, or deletes it.
Push(w) ==
  LET r == worker[w] IN
  /\ At(w, "push", "begin")
  /\ \E f \in Files, deleted \in BOOLEAN :
       /\ files[f] = None => ~deleted
       /\ files[f] # None => files[f].owner = r.id
       /\ Unlocked(w, f)
       /\ files' = [files EXCEPT ![f] = Pushed(f, r.id, deleted)]
  /\ lastSeq' = [lastSeq EXCEPT ![r.id] = @ + 1]
  /\ Finish(w)
  /\ UNCHANGED <<users, lost, tokens, cache, bucket, seenAs>>

\* Reads (lists, findOne, downloadUrl), and requests for what is not there.
Answer(w) ==
  /\ worker[w].pc = "begin"
  /\ worker[w].op \in {"ask", "confirm", "edit", "remove", "push"}
  /\ Finish(w)
  /\ UNCHANGED <<tokens, tables, cache, bucket, seenAs>>

UploadStep(w) ==
  \/ CreateAttachment(w) \/ CreateVoiceNote(w) \/ CreateWrite(w)
  \/ AskAttachment(w) \/ AskVoiceNote(w)
  \/ ConfirmFind(w) \/ ConfirmHead(w)
  \/ EditBegin(w) \/ EditFind(w) \/ NumberFile(w) \/ EditWrite(w)
  \/ Push(w) \/ Answer(w)
=============================================================================
