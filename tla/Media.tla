------------------------------- MODULE Media --------------------------------
(***************************************************************************)
(* Files: recordings of classes, study materials and other uploads.  The   *)
(* bytes lie in the object storage and a row says that they do; the two    *)
(* are written and removed one after the other by requests that may fail   *)
(* or die between the steps, while the places files belong to disappear.   *)
(***************************************************************************)
EXTENDS Integers, Sequences, FiniteSets

CONSTANTS
  Files,        \* names of objects: each upload invents one
  Places,       \* streams that recordings belong to, chapters that materials do
  Uploads,      \* requests in flight at one time
  MaxAccidents, \* bound of the run: calls that fail, and crashes
  MaxDownloads  \* bound of the run: links asked for a material

ASSUME MediaAssumptions == MaxAccidents \in Nat /\ MaxDownloads \in Nat

VARIABLES
  bucket,       \* the objects in the storage
  files,        \* rows of recordings and study_materials
  places,       \* the places that are there
  uploads,      \* what each request is doing
  condemned,    \* the materials whose deletion has begun
  variants,     \* rows of video_variants, by the file they are of
  tokens,       \* rows of download_tokens, by what they are for
  accidents

mediaVars == <<bucket, files, places, uploads, condemned, variants, tokens, accidents>>

Nothing == "nothing"
Unplaced == "unplaced"
FileKinds == {"recording", "material", "asset"}

\* What an upload of each kind does, in that order.
\* Mutant of Order: the row comes first.
RowFirst(kind) ==
  CASE kind = "recording" -> <<"row", "put", "details">>
    [] kind = "material" -> <<"row", "put">>
    [] kind = "asset" -> <<"put">>
Order(kind) ==
  CASE kind = "recording" -> <<"put", "row", "details">>
    [] kind = "material" -> <<"put", "row">>
    [] kind = "asset" -> <<"put">>

NoFile == [kind |-> "none", place |-> Unplaced, sized |-> FALSE, downloads |-> 0]
Rest == [file |-> Nothing, kind |-> "none", place |-> Unplaced, steps |-> <<>>]

MediaTypeOK ==
  /\ bucket \subseteq Files /\ condemned \subseteq Files /\ variants \subseteq Files /\ tokens \subseteq Files
  /\ places \subseteq Places
  /\ files \in [Files -> [kind : FileKinds \cup {"none", "gone"}, place : Places \cup {Unplaced}, sized : BOOLEAN,
                          downloads : 0..MaxDownloads]]
  /\ \A r \in Uploads : uploads[r].file \in Files \cup {Nothing} /\ uploads[r].place \in Places \cup {Unplaced}
  /\ accidents \in 0..MaxAccidents

MediaInit ==
  /\ bucket = {} /\ files = [f \in Files |-> NoFile] /\ places = Places
  /\ uploads = [r \in Uploads |-> Rest]
  /\ condemned = {} /\ variants = {} /\ tokens = {} /\ accidents = 0

-----------------------------------------------------------------------------
Begin(r, f, kind, place, steps) ==
  uploads' = [uploads EXCEPT ![r] = [file |-> f, kind |-> kind, place |-> place, steps |-> steps]]
Doing(r, step) == uploads[r].steps # <<>> /\ Head(uploads[r].steps) = step
Advance(r) ==
  uploads' = [uploads EXCEPT ![r] = IF Len(@.steps) = 1 THEN Rest ELSE [@ EXCEPT !.steps = Tail(uploads[r].steps)]]

\* A name nobody has used: the time in nanoseconds or a UUID is in it.
Unused(f) ==
  files[f].kind = "none" /\ f \notin bucket \cup condemned /\ \A r \in Uploads : uploads[r].file # f

UploadRecording(r, f, stream) ==
  /\ uploads[r] = Rest /\ Unused(f)
  /\ Begin(r, f, "recording", stream, Order("recording"))
  /\ UNCHANGED <<bucket, files, places, condemned, variants, tokens, accidents>>
\* An id of a place that cannot be read is left out.
UploadMaterial(r, f) ==
  /\ uploads[r] = Rest /\ Unused(f)
  /\ \E place \in Places \cup {Unplaced} : Begin(r, f, "material", place, Order("material"))
  /\ UNCHANGED <<bucket, files, places, condemned, variants, tokens, accidents>>
\* Logos, thumbnails and the like: their URL is the answer, and no row is written.
UploadAsset(r, f) ==
  /\ uploads[r] = Rest /\ Unused(f)
  /\ Begin(r, f, "asset", Unplaced, Order("asset"))
  /\ UNCHANGED <<bucket, files, places, condemned, variants, tokens, accidents>>

PutObject(r) ==
  /\ Doing(r, "put")
  /\ bucket' = bucket \cup {uploads[r].file}
  /\ Advance(r)
  /\ UNCHANGED <<files, places, condemned, variants, tokens, accidents>>

\* A row of a place that has gone is refused: the file stays in the storage.
CreateRow(r) ==
  /\ Doing(r, "row")
  /\ IF uploads[r].place \in places \cup {Unplaced}
     THEN /\ files' = [files EXCEPT ![uploads[r].file] = [NoFile EXCEPT !.kind = uploads[r].kind, !.place = uploads[r].place]]
          /\ Advance(r)
     ELSE /\ uploads' = [uploads EXCEPT ![r] = Rest]
          /\ UNCHANGED files
  /\ UNCHANGED <<bucket, places, condemned, variants, tokens, accidents>>

UpdateRecordingDetails(r) ==
  /\ Doing(r, "details")
  /\ files' = IF files[uploads[r].file].kind = "recording" THEN [files EXCEPT ![uploads[r].file].sized = TRUE] ELSE files
  /\ Advance(r)
  /\ UNCHANGED <<bucket, places, condemned, variants, tokens, accidents>>

\* Delete reads the row for the name of the object.
DeleteMaterial(r, f) ==
  /\ uploads[r] = Rest /\ files[f].kind = "material"
  /\ Begin(r, f, "material", Unplaced, <<"remove", "unlist">>)
  /\ condemned' = condemned \cup {f}
  /\ UNCHANGED <<bucket, files, places, variants, tokens, accidents>>
RemoveObject(r) ==
  /\ Doing(r, "remove")
  /\ bucket' = bucket \ {uploads[r].file}
  /\ Advance(r)
  /\ UNCHANGED <<files, places, condemned, variants, tokens, accidents>>
DeleteStudyMaterial(r) ==
  /\ Doing(r, "unlist")
  /\ files' = [files EXCEPT ![uploads[r].file] = [NoFile EXCEPT !.kind = "gone"]]
  /\ Advance(r)
  /\ UNCHANGED <<bucket, places, condemned, variants, tokens, accidents>>

\* A call fails and ends the request, but for the removal of the object, whose error is ignored.
Accident(r) ==
  /\ uploads[r] # Rest /\ accidents < MaxAccidents
  /\ accidents' = accidents + 1
  /\ IF Doing(r, "remove") THEN Advance(r) ELSE uploads' = [uploads EXCEPT ![r] = Rest]
  /\ UNCHANGED <<bucket, files, places, condemned, variants, tokens>>

\* The rows of a place go with it, the files in the storage do not.
Vanish(place) ==
  /\ place \in places /\ places' = places \ {place}
  /\ files' = [f \in Files |-> IF files[f].place = place THEN [NoFile EXCEPT !.kind = "gone"] ELSE files[f]]
  /\ variants' = {f \in variants : files[f].place # place}
  /\ UNCHANGED <<bucket, uploads, condemned, tokens, accidents>>

\* A variant is of a recording that is there; the path in the body is taken as it is.
CreateVariant(f) ==
  /\ files[f].kind = "recording"
  /\ variants' = variants \cup {f}
  /\ UNCHANGED <<bucket, files, places, uploads, condemned, tokens, accidents>>

\* A link signed for a quarter of an hour: whether the object is there is not asked.
GetDownloadURL(f) ==
  /\ files[f].kind = "material" /\ files[f].downloads < MaxDownloads
  /\ files' = [files EXCEPT ![f].downloads = @ + 1]
  /\ UNCHANGED <<bucket, places, uploads, condemned, variants, tokens, accidents>>

\* Nor is it asked whether what the token is for exists.  The route that would redeem it has no
\* session to find it with, see Gateway.
IssueToken(f) ==
  /\ tokens' = tokens \cup {f}
  /\ UNCHANGED <<bucket, files, places, uploads, condemned, variants, accidents>>

\* The routes: an id or a body that cannot be read changes nothing.
HandleCreateVariant == \E f \in Files : CreateVariant(f)
HandleGetDownloadURL == \E f \in Files : GetDownloadURL(f)
HandleIssueToken == \E f \in Files : IssueToken(f)

MediaNext ==
  \/ \E r \in Uploads, f \in Files :
       \/ \E stream \in Places : UploadRecording(r, f, stream)
       \/ UploadMaterial(r, f) \/ UploadAsset(r, f) \/ DeleteMaterial(r, f)
  \/ \E r \in Uploads :
       PutObject(r) \/ CreateRow(r) \/ UpdateRecordingDetails(r) \/ RemoveObject(r) \/ DeleteStudyMaterial(r) \/ Accident(r)
  \/ \E place \in Places : Vanish(place)
  \/ HandleCreateVariant \/ HandleGetDownloadURL \/ HandleIssueToken

MediaSpec == MediaInit /\ [][MediaNext]_mediaVars

-----------------------------------------------------------------------------
\* Whatever fails, dies or disappears meanwhile, a row that no deletion has begun on has its file in
\* the storage: a list never offers a link that leads nowhere (materials/service.go:38-70 and
\* 105-112, recording/service.go:36-74).
RowsHaveFiles == \A f \in Files : files[f].kind \in FileKinds /\ f \notin condemned => f \in bucket
=============================================================================
