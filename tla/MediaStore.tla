----------------------------- MODULE MediaStore -----------------------------
(***************************************************************************)
(* R2Service: uploads named after their file, kept in a bucket under a key *)
(* of their own and handed out as a URL, and deletes that find the key in  *)
(* a URL again.  The calls to the bucket take time and may fail before or  *)
(* after they have done their work.                                        *)
(***************************************************************************)
EXTENDS Env, ErrorFilter, FileNames

CONSTANTS
    Environments,  \* the R2_* and UPLOAD_* settings the process may start with
    Uploads,       \* calls of uploadFile
    Deletes,       \* calls of deleteFile
    Files,         \* files a caller may upload
    ForeignKeys,   \* objects in the bucket that something else keeps there
    ForeignUrls,   \* URLs a caller may pass to deleteFile, besides those returned
    Null           \* no file, no URL, or no upload that owns an object

\* Names are of the classes of FileNames.
ASSUME FilesAssumption == \A f \in Files : f.name \in Seq(Characters)

VARIABLES
    env,      \* process.env, as far as r2.config reads it
    objects,  \* the bucket: the upload an object's bytes are from, by key
    file,     \* the file of each upload, Null before the call
    put,      \* its PutObject: none, sent, stored, answered or failed
    upload,   \* what uploadFile answered, Null until it has
    url,      \* the URL of each delete, Null before the call
    delete    \* its DeleteObject or answer: none, sent, done or refused

vars == <<env, objects, file, put, upload, url, delete>>

-----------------------------------------------------------------------------
(* r2.config; sizes are counted in halves of a megabyte.                    *)
DefaultAllowedMime == {"image/jpeg", "image/png", "image/webp", "image/gif"}

config == [url              |-> OptionalEnv(env.url, [form |-> "empty"]),
           maxUploadBytes   |-> EnvNumber(env.maxSizeMb, 5 * 2),
           allowedMimeTypes |-> EnvList(env.allowedMime, DefaultAllowedMime)]

\* The four values that are not a URL are set, or not, together.
ResolveConfig == config.url.form # "empty" /\ ~IsBlank(env.bucket)

-----------------------------------------------------------------------------
(* assertAcceptable: what it throws, none of it for an acceptable file.     *)
AssertAcceptable(f) ==
    CASE f.size = 0 ->
            {HttpException(400, TextBody("Empty file upload."))}
      [] f.size > config.maxUploadBytes ->
            {HttpException(413, TextBody("File exceeds the limit."))}
      [] /\ f.size \in 1..config.maxUploadBytes
         /\ config.allowedMimeTypes # {} /\ f.mime \notin config.allowedMimeTypes ->
            {HttpException(415, TextBody("Unsupported type."))}
      [] OTHER -> {}

\* resolveConfig throws an Error that names the variables that are missing.
NotConfigured == IF ResolveConfig THEN {} ELSE {OtherError("R2 is not configured.")}

(* Mutant: the key is the name alone, and the time.                         *)
KeyByName(u, f) == <<[id |-> Null, name |-> SanitizeFilename(f.name)]>>

\* uuidv4 gives every upload an id of its own; a key is one path segment.
Key(u, f) == <<[id |-> u, name |-> SanitizeFilename(f.name)]>>

Segment == [id : {Null}, name : Seq(STRING)]
           \cup {Key(u, f)[1] : u \in Uploads, f \in Files}

\* A text that parses as a URL, and one that does not.
Url == [form : {"url", "word"}, origin : STRING, path : Seq(Segment)]

ASSUME UrlAssumption ==
    /\ ForeignUrls \subseteq Url
    /\ \A e \in Environments : IsBlank(e.url) \/ e.url \in Url
ASSUME MediaNullAssumption == Null \notin Files \cup Url

UrlOf(key) == [form |-> config.url.form, origin |-> config.url.origin,
               path |-> config.url.path \o key]

Plain(name) == [id |-> Null, name |-> name]

NoKey == <<>>

(* Mutant: only the length of the base path is skipped.                     *)
ExtractKeyByLength(fileUrl) ==
    LET base == config.url
        key == SubSeq(fileUrl.path, Len(base.path) + 1, Len(fileUrl.path))
    IN  IF /\ fileUrl.form = "url" /\ fileUrl.origin = base.origin
           /\ \A i \in DOMAIN key : ~HasTwoDots(key[i].name)
        THEN key ELSE NoKey

(* Mutant: two dots are no reason to refuse.                                *)
ExtractKeyWithDots(fileUrl) ==
    LET base == config.url
    IN  IF /\ fileUrl.form = "url" /\ fileUrl.origin = base.origin
           /\ IsPrefix(base.path, fileUrl.path)
        THEN SubSeq(fileUrl.path, Len(base.path) + 1, Len(fileUrl.path)) ELSE NoKey

ExtractKeyFromUrl(fileUrl) ==
    LET base == config.url
        key == SubSeq(fileUrl.path, Len(base.path) + 1, Len(fileUrl.path))
    IN  IF /\ fileUrl.form = "url" /\ fileUrl.origin = base.origin
           /\ IsPrefix(base.path, fileUrl.path)
           /\ \A i \in DOMAIN key : ~HasTwoDots(key[i].name)
        THEN key ELSE NoKey

-----------------------------------------------------------------------------
Init ==
    /\ env \in Environments
    /\ config.maxUploadBytes # Throws
    /\ objects = [k \in ForeignKeys |-> Null]
    /\ file = [u \in Uploads |-> Null]
    /\ put = [u \in Uploads |-> "none"]
    /\ upload = [u \in Uploads |-> Null]
    /\ url = [d \in Deletes |-> Null]
    /\ delete = [d \in Deletes |-> "none"]

-----------------------------------------------------------------------------
(* uploadFile: what it refuses it refuses before it looks for a bucket.     *)
UploadRefused(u, f) ==
    /\ file[u] = Null
    /\ \E x \in IF AssertAcceptable(f) # {} THEN AssertAcceptable(f) ELSE NotConfigured :
          upload' = [upload EXCEPT ![u] = Describe(x)]
    /\ file' = [file EXCEPT ![u] = f]
    /\ UNCHANGED <<env, objects, put, url, delete>>

UploadFile(u, f) ==
    /\ file[u] = Null
    /\ AssertAcceptable(f) = {} /\ NotConfigured = {}
    /\ file' = [file EXCEPT ![u] = f]
    /\ put' = [put EXCEPT ![u] = "sent"]
    /\ UNCHANGED <<env, objects, upload, url, delete>>

\* The bucket may store an object twice, if the SDK tries again.
ObjectStored(u) ==
    /\ put[u] \in {"sent", "stored"}
    /\ objects' = [k \in {Key(u, file[u])} \cup DOMAIN objects |->
                      IF k = Key(u, file[u]) THEN u ELSE objects[k]]
    /\ put' = [put EXCEPT ![u] = "stored"]
    /\ UNCHANGED <<env, file, upload, url, delete>>

PutAnswered(u) ==
    /\ put[u] = "stored"
    /\ put' = [put EXCEPT ![u] = "answered"]
    /\ upload' = [upload EXCEPT ![u] =
                     [status |-> 200, key |-> Key(u, file[u]), url |-> UrlOf(Key(u, file[u]))]]
    /\ UNCHANGED <<env, objects, file, url, delete>>

PutFails(u) ==
    /\ put[u] \in {"sent", "stored"}
    /\ put' = [put EXCEPT ![u] = "failed"]
    /\ upload' = [upload EXCEPT ![u] = Describe(OtherError("what the S3 client threw"))]
    /\ UNCHANGED <<env, objects, file, url, delete>>

-----------------------------------------------------------------------------
(* deleteFile: refused without settings, for a base that is no URL (500),   *)
(* or for a URL that names no key of this bucket (400).                     *)
Deletable(fileUrl) ==
    ResolveConfig /\ config.url.form = "url" /\ ExtractKeyFromUrl(fileUrl) # NoKey

DeleteFile(d, fileUrl) ==
    /\ url[d] = Null
    /\ url' = [url EXCEPT ![d] = fileUrl]
    /\ delete' = [delete EXCEPT ![d] = IF Deletable(fileUrl) THEN "sent" ELSE "refused"]
    /\ UNCHANGED <<env, objects, file, put, upload>>

\* The bucket deletes what is there, and an answer that is lost changes nothing.
ObjectDeleted(d) ==
    /\ delete[d] = "sent"
    /\ delete' = [delete EXCEPT ![d] = "done"]
    /\ objects' = [k \in DOMAIN objects \ {ExtractKeyFromUrl(url[d])} |-> objects[k]]
    /\ UNCHANGED <<env, file, put, upload, url>>

DeleteFails(d) ==
    /\ delete[d] = "sent"
    /\ delete' = [delete EXCEPT ![d] = "refused"]
    /\ UNCHANGED <<env, objects, file, put, upload, url>>

Uploaded == {u \in Uploads : put[u] = "answered"}

Next ==
    \/ \E u \in Uploads :
          \/ \E f \in Files : UploadRefused(u, f) \/ UploadFile(u, f)
          \/ ObjectStored(u) \/ PutAnswered(u) \/ PutFails(u)
    \/ \E d \in Deletes :
          \/ \E x \in ForeignUrls \cup {upload[u].url : u \in Uploaded} : DeleteFile(d, x)
          \/ ObjectDeleted(d) \/ DeleteFails(d)

Spec == Init /\ [][Next]_vars

-----------------------------------------------------------------------------
(* Properties *)

(* The URL uploadFile returns leads deleteFile back to the object it was    *)
(* returned for, unless the cleaned name kept two dots in a row or          *)
(* R2_MEDIA_URL is no URL: those objects cannot be deleted by their URL.    *)
UrlsLeadBack ==
    \A u \in Uploaded :
        (Deletable(upload[u].url) /\ ExtractKeyFromUrl(upload[u].url) = upload[u].key)
        <=> (config.url.form = "url" /\ ~HasTwoDots(upload[u].key[1].name))

(* Whatever else its name holds, a file without two dots in a row, or a     *)
(* character that NFKD writes so, can be deleted by the URL it was given:   *)
(* cleaning a name never brings two dots together.                          *)
PlainNamesAreDeletable ==
    \A u \in Uploaded :
        config.url.form = "url" /\ PlainName(file[u].name) =>
            Deletable(upload[u].url) /\ ExtractKeyFromUrl(upload[u].url) = upload[u].key

(* What was uploaded stays as it was until its own URL is deleted, whatever *)
(* the files of other uploads are called and whenever they arrive.          *)
UploadsKeepTheirContent ==
    \A u \in Uploaded :
        \/ upload[u].key \in DOMAIN objects /\ objects[upload[u].key] = u
        \/ \E d \in Deletes : delete[d] = "done" /\ url[d] = upload[u].url

(* A delete removes the one object whose URL it was given: not one that a   *)
(* URL elsewhere on the host, or on another host, happens to end in.        *)
DeletesHitTheirUrl ==
    [][\A k \in DOMAIN objects \ DOMAIN objects' :
           \E d \in Deletes : delete[d] = "sent" /\ url[d] = UrlOf(k)]_vars
=============================================================================
