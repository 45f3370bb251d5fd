----------------------------- MODULE AppBuilds -----------------------------
(***************************************************************************)
(* Building the app of a tenant: a row is made, Codemagic is asked to      *)
(* build, and tells over the webhook how it goes.  Its posts may be lost,  *)
(* repeated and late, its answer to the request may be lost although the   *)
(* build runs, and the support staff may write any status at any time.     *)
(***************************************************************************)
EXTENDS FiniteSets

CONSTANT Builds

VARIABLES
  builds,      \* rows of app_builds
  triggering,  \* the rows whose Trigger has yet to hear from Codemagic
  jobs,        \* Codemagic's builds
  posts,       \* the statuses Codemagic has posted of each, to be delivered any number of times
  byHand       \* the rows of which the support staff has written the status

buildVars == <<builds, triggering, jobs, posts, byHand>>

BuildStatuses == {"queued", "building", "published", "failed"}
JobStatuses == {"queued", "building", "finished", "failed", "canceled"}
\* The staff's status is not validated.
StaffStatuses == BuildStatuses \cup {"other"}
NoBuild == [status |-> "none", url |-> FALSE, completed |-> FALSE]

BuildTypeOK ==
  /\ builds \in [Builds -> [status : StaffStatuses \cup {"none"}, url : BOOLEAN, completed : BOOLEAN]]
  /\ triggering \in SUBSET Builds /\ byHand \in SUBSET Builds
  /\ jobs \in [Builds -> JobStatuses \cup {"none"}] /\ posts \in [Builds -> SUBSET JobStatuses]

BuildInit ==
  /\ builds = [b \in Builds |-> NoBuild] /\ triggering = {} /\ byHand = {}
  /\ jobs = [b \in Builds |-> "none"] /\ posts = [b \in Builds |-> {}]

-----------------------------------------------------------------------------
\* A link that is not given is kept; the time of completion is never taken back.
SetAppBuildStatus(b, status, url) ==
  builds' = [builds EXCEPT ![b] =
    [status |-> status, url |-> @.url \/ url, completed |-> @.completed \/ status \in {"published", "failed"}]]

\* Without Codemagic's credentials the row is all there is.
CreateAppBuild(b, configured) ==
  /\ builds[b] = NoBuild
  /\ builds' = [builds EXCEPT ![b].status = "queued"]
  /\ triggering' = IF configured THEN triggering \cup {b} ELSE triggering
  /\ UNCHANGED <<jobs, posts, byHand>>
Dispatched(b) ==
  /\ b \in triggering
  /\ jobs[b] # "none"
  /\ triggering' = triggering \ {b}
  /\ UNCHANGED <<builds, jobs, posts, byHand>>
\* A refusal, a timeout or a lost answer: the row fails, whether or not the build runs.
DispatchFails(b) ==
  /\ b \in triggering
  /\ triggering' = triggering \ {b}
  /\ \/ SetAppBuildStatus(b, "failed", FALSE)
     \/ UNCHANGED builds   \* and what comes of writing that is not looked at
  /\ UNCHANGED <<jobs, posts, byHand>>
Trigger == \E b \in Builds, configured \in BOOLEAN : CreateAppBuild(b, configured)

-----------------------------------------------------------------------------
(* Codemagic *)

JobStarts(b) ==
  /\ b \in triggering /\ jobs[b] = "none"
  /\ jobs' = [jobs EXCEPT ![b] = "queued"]
  /\ UNCHANGED <<builds, triggering, posts, byHand>>
JobMoves(b, status) ==
  /\ <<jobs[b], status>> \in {<<"queued", "building">>, <<"queued", "canceled">>, <<"building", "finished">>,
                              <<"building", "failed">>, <<"building", "canceled">>}
  /\ jobs' = [jobs EXCEPT ![b] = status]
  /\ UNCHANGED <<builds, triggering, posts, byHand>>
JobPosts(b) ==
  /\ jobs[b] # "none"
  /\ posts' = [posts EXCEPT ![b] = @ \cup {jobs[b]}]
  /\ UNCHANGED <<builds, triggering, jobs, byHand>>

-----------------------------------------------------------------------------
(* The webhook and the support staff *)

\* Mutant of StatusOf: what is not known to have failed is published.
PublishedUnlessFailed(status) == IF status \in {"failed", "canceled"} THEN "failed" ELSE "published"
StatusOf(status) ==
  IF status = "finished" THEN "published"
  ELSE IF status \in {"failed", "canceled"} THEN "failed" ELSE "building"

\* The link is that of the first artifact with a name, if there is one.  Posts are written in the
\* order they arrive.
ReceiveCodemagic(b, status, url) ==
  /\ status \in posts[b]
  /\ SetAppBuildStatus(b, StatusOf(status), url)
  /\ UNCHANGED <<triggering, jobs, posts, byHand>>
PatchStatus(b, status, url) ==
  /\ builds[b] # NoBuild
  /\ SetAppBuildStatus(b, status, url)
  /\ byHand' = byHand \cup {b}
  /\ UNCHANGED <<triggering, jobs, posts>>

BuildNext ==
  \/ Trigger
  \/ \E b \in Builds :
       \/ Dispatched(b) \/ DispatchFails(b) \/ JobStarts(b) \/ JobPosts(b)
       \/ \E status \in JobStatuses : JobMoves(b, status)
       \/ \E status \in JobStatuses, url \in BOOLEAN : ReceiveCodemagic(b, status, url)
       \/ \E status \in StaffStatuses, url \in BOOLEAN : PatchStatus(b, status, url)

BuildSpec == BuildInit /\ [][BuildNext]_buildVars

-----------------------------------------------------------------------------
\* However Codemagic's posts and its answer to the request cross, a row nobody has written by hand
\* says published only of a build that has finished, and what it says of one under way may be out
\* of date but not invented (webhooks/codemagic.go:85-107, appbuilds/service.go:84-97).
PublishedIsBuilt ==
  \A b \in Builds \ byHand :
    /\ builds[b].status = "published" => jobs[b] = "finished"
    /\ builds[b].status = "building" => jobs[b] # "none"
=============================================================================
