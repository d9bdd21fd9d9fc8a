---------------------------- MODULE ClipJobs ----------------------------
(***************************************************************************)
(* The render queue for the clips and reels hosts cut from a recording.    *)
(*                                                                         *)
(* Rows of clip_jobs (store/clip_jobs.go) are made by the host, claimed by *)
(* the clip maker of a video server (deploy/livekit-box/mixrec/clips.go)   *)
(* over HTTP (api/clip_jobs.go) and settled as ready or failed.  The file  *)
(* of a clip is an object in storage beside the database: it is written by *)
(* the clip maker and taken out by the delete handler, by the complete     *)
(* handler or by the maintenance sweep.                                    *)
(*                                                                         *)
(* Every SQL statement is one step, and so is every other thing a process  *)
(* does between two statements.  A call of a clip maker is an element of   *)
(* calls: the API works on it in steps, the caller may stop waiting (its   *)
(* 30 s timeout, a cancelled context, a crash), and a call nobody waits    *)
(* for any more is still worked on.                                        *)
(*                                                                         *)
(* Time is abstracted: a lease or a rush runs out at any moment.           *)
(***************************************************************************)
EXTENDS Naturals, FiniteSets

CONSTANTS
    Jobs,          \* clip ids: each is a fresh uuid, used for one row only
    Workers,       \* video servers whose clip maker is on
    Creators,      \* create requests in progress at once (the host, co-hosts)
    Nobody,        \* no worker: the caller of a call that stopped waiting
    NoJob,         \* no job: the job of a claim before a row is picked
    MaxAttempts,   \* clipMaxAttempts
    MaxUnfinished, \* clipMaxUnfinished
    MaxFormats,    \* formats one request may ask for (9:16, 1:1, 16:9)
    MaxSessions,   \* bound: sessions that go live in one behaviour
    MaxLate,       \* bound: calls worked on at once that nobody waits for
    Events         \* the faults and outside events that happen

ASSUME JobsAssumption == IsFiniteSet(Jobs)
ASSUME CreatorsAssumption == IsFiniteSet(Creators) /\ Creators # {}
ASSUME MaxAttemptsAssumption == MaxAttempts \in Nat \ {0}
ASSUME MaxUnfinishedAssumption == MaxUnfinished \in Nat
ASSUME MaxFormatsAssumption == MaxFormats \in Nat
ASSUME MaxSessionsAssumption == MaxSessions \in Nat
ASSUME NobodyAssumption == Nobody \notin Workers
ASSUME NoJobAssumption == NoJob \notin Jobs
ASSUME MaxLateAssumption == MaxLate \in Nat
ASSUME EventsAssumption ==
    Events \subseteq {"crash", "timeout", "error", "delete", "cascade", "unready", "rush"}

VARIABLES
    status,    \* clip_jobs.status; "new" before the insert, "gone" once deleted
    attempts,  \* clip_jobs.attempts
    lease,     \* clip_jobs.lease_until: NULL, in the future, or in the past
    rushed,    \* the rows whose rush_until is in the future
    born,      \* clip_jobs.created_at, as the rank of the insert
    owed,      \* clip_blob_deletions
    blob,      \* the clip files in storage
    source,    \* the recording's takes: readable, not readable, or deleted
    live,      \* a session is live, or about to start, on the video server
    sessions,  \* how many sessions have gone live
    pc,        \* what the clip maker of a worker is doing
    job,       \* the job it holds
    calls,     \* calls of the clip makers the API has not finished
    unheard,   \* history: deleted clips whose file was written and whose maker
               \* was not heard of again
    formats,   \* create requests past the queue check: formats to insert
    deleting,  \* per job, how far a host's delete request has come
    listed,    \* keys the sweep has read and not yet taken
    cleared    \* keys whose file the sweep deleted and has not yet forgotten

rows    == <<status, attempts, lease, rushed, born>>
storage == <<blob, owed>>
makers  == <<pc, job, calls, unheard>>
world   == <<source, live, sessions>>
sweep   == <<listed, cleared>>
vars    == <<rows, storage, makers, world, sweep, formats, deleting>>

Statuses == {"new", "queued", "processing", "ready", "failed", "gone"}
ClaimKinds == {"claim", "stale", "pick", "vet"}
BeatKinds == {"beat", "renew", "requeue"}
ReportKinds == {"finish", "verify", "fail"}
Kinds == ClaimKinds \cup BeatKinds \cup ReportKinds \cup {"url"}
Callers == Workers \cup {Nobody}
Calls == [kind : Kinds, job : Jobs \cup {NoJob}, from : Callers]

(* Every variable keeps its type; a try is never counted past the last. *)
TypeOK ==
    /\ status \in [Jobs -> Statuses]
    /\ attempts \in [Jobs -> 0 .. MaxAttempts]
    /\ lease \in [Jobs -> {"none", "held", "out"}]
    /\ rushed \subseteq Jobs
    /\ born \in [Jobs -> Nat]
    /\ owed \subseteq Jobs
    /\ blob \subseteq Jobs
    /\ source \in {"ready", "unready", "gone"}
    /\ live \in BOOLEAN
    /\ sessions \in 0 .. MaxSessions
    /\ pc \in [Workers -> {"idle", "claim", "render", "url", "put", "sent", "report"}]
    /\ job \in [Workers -> Jobs \cup {NoJob}]
    /\ calls \subseteq Calls
    /\ unheard \subseteq Jobs
    /\ formats \in [Creators -> 0 .. MaxFormats]
    /\ deleting \in [Jobs -> {"no", "sawReady", "sawOther", "unlink", "forget"}]
    /\ listed \subseteq Jobs
    /\ cleared \subseteq Jobs

Init ==
    /\ status = [j \in Jobs |-> "new"]
    /\ attempts = [j \in Jobs |-> 0]
    /\ lease = [j \in Jobs |-> "none"]
    /\ rushed = {}
    /\ born = [j \in Jobs |-> 0]
    /\ owed = {}
    /\ blob = {}
    /\ source = "ready"
    /\ live = FALSE
    /\ sessions = 0
    /\ pc = [w \in Workers |-> "idle"]
    /\ job = [w \in Workers |-> NoJob]
    /\ calls = {}
    /\ unheard = {}
    /\ formats = [c \in Creators |-> 0]
    /\ deleting = [j \in Jobs |-> "no"]
    /\ listed = {}
    /\ cleared = {}

-----------------------------------------------------------------------------
(* Rows *)

InStatus(st) == {j \in Jobs : status[j] = st}
Unfinished == InStatus("queued") \cup InStatus("processing")

(* The rows S take status st and give up their lease; those that do not go
   back to the queue give up their rush as well. *)
Release(S, st) ==
    /\ status' = [j \in Jobs |-> IF j \in S THEN st ELSE status[j]]
    /\ lease' = [j \in Jobs |-> IF j \in S THEN "none" ELSE lease[j]]
    /\ rushed' = IF st = "queued" THEN rushed ELSE rushed \ S
    /\ UNCHANGED born

KeepRows == UNCHANGED rows

(* UPDATE ... WHERE id = j AND status = 'processing' *)
WhenProcessing(j, A) == IF status[j] = "processing" THEN A ELSE KeepRows

Stale == {j \in InStatus("processing") : lease[j] = "out" /\ attempts[j] >= MaxAttempts}

FailStaleClipJobs == Release(Stale, "failed") /\ UNCHANGED attempts

(* Mutant of Claimable: a row out of tries is claimed again. *)
ClaimableOutOfTries ==
    {j \in Jobs : status[j] = "queued" \/ (status[j] = "processing" /\ lease[j] = "out")}

(* Mutant of Claimable: a row whose lease ran out is not taken over. *)
ClaimableQueuedOnly == {j \in InStatus("queued") : attempts[j] < MaxAttempts}

Claimable ==
    {j \in Jobs : /\ \/ status[j] = "queued"
                     \/ status[j] = "processing" /\ lease[j] = "out"
                  /\ attempts[j] < MaxAttempts}

(* ORDER BY rushed DESC, created_at *)
Before(i, j) ==
    \/ i \in rushed /\ j \notin rushed
    \/ (i \in rushed <=> j \in rushed) /\ born[i] < born[j]

NextInLine == {j \in Claimable : \A i \in Claimable : ~Before(i, j)}

TakeRow(j) ==
    /\ status' = [status EXCEPT ![j] = "processing"]
    /\ attempts' = [attempts EXCEPT ![j] = @ + 1]
    /\ lease' = [lease EXCEPT ![j] = "held"]
    /\ UNCHANGED <<rushed, born>>

(* Mutant of RequeueClipJob: the try given back for a session is counted. *)
RequeueCountsTry(j) == WhenProcessing(j, Release({j}, "queued") /\ UNCHANGED attempts)

RequeueClipJob(j) ==
    WhenProcessing(j,
        /\ Release({j}, "queued")
        /\ attempts' = [attempts EXCEPT ![j] = IF @ > 0 THEN @ - 1 ELSE 0])

RenewLease(j) ==
    /\ lease' = [lease EXCEPT ![j] = "held"]
    /\ UNCHANGED <<status, attempts, rushed, born>>

(* Mutant of ClipJobProgress: without AND status = 'processing'. *)
ProgressOfAnyRow(j) == RenewLease(j)

ClipJobProgress(j) == WhenProcessing(j, RenewLease(j))

FinishClipJob(j) ==
    WhenProcessing(j, Release({j}, "ready") /\ UNCHANGED attempts)

(* Mutant of FailClipJob: without AND status = 'processing'. *)
FailAnyRow(j, retry) ==
    /\ Release({j}, IF retry /\ attempts[j] < MaxAttempts THEN "queued" ELSE "failed")
    /\ UNCHANGED attempts

FailClipJob(j, retry) ==
    WhenProcessing(j,
        /\ Release({j}, IF retry /\ attempts[j] < MaxAttempts THEN "queued" ELSE "failed")
        /\ UNCHANGED attempts)

(* The trigger clip_jobs_leave_blob: size_bytes is set by FinishClipJob only,
   so a row with a size is ready. *)
LeavesBlob(j) == status[j] \in {"ready", "processing"}

DeleteRows(S) ==
    /\ Release(S, "gone")
    /\ attempts' = [j \in Jobs |-> IF j \in S THEN 0 ELSE attempts[j]]
    /\ owed' = owed \cup {j \in S : LeavesBlob(j)}

-----------------------------------------------------------------------------
(* The host: create, delete; an admin: make it now *)

CountUnfinished(c, n) ==
    /\ formats[c] = 0
    /\ source = "ready"
    /\ Cardinality(Unfinished) + n <= MaxUnfinished
    /\ formats' = [formats EXCEPT ![c] = n]
    /\ UNCHANGED <<rows, storage, makers, world, sweep, deleting>>

InsertClipJobs(c, S) ==
    /\ formats[c] > 0
    /\ source # "gone"
    /\ S \subseteq InStatus("new")
    /\ Cardinality(S) = formats[c]
    /\ status' = [j \in Jobs |-> IF j \in S THEN "queued" ELSE status[j]]
    /\ born' = [j \in Jobs |-> IF j \in S THEN Cardinality(Jobs \ InStatus("new")) ELSE born[j]]
    /\ formats' = [formats EXCEPT ![c] = 0]
    /\ UNCHANGED <<attempts, lease, rushed, storage, makers, world, sweep, deleting>>

(* Storage full, no such recording any more, or the request broke off. *)
CreateRefused(c) ==
    /\ formats[c] > 0
    /\ formats' = [formats EXCEPT ![c] = 0]
    /\ UNCHANGED <<rows, storage, makers, world, sweep, deleting>>

OpenDelete(j) ==
    /\ "delete" \in Events
    /\ deleting[j] = "no"
    /\ status[j] \notin {"new", "gone"}
    /\ deleting' = [deleting EXCEPT ![j] = IF status[j] = "ready" THEN "sawReady" ELSE "sawOther"]
    /\ UNCHANGED <<rows, storage, makers, world, sweep, formats>>

DeleteClipJob(j) ==
    /\ deleting[j] \in {"sawReady", "sawOther"}
    /\ IF status[j] = "gone"
       THEN /\ deleting' = [deleting EXCEPT ![j] = "no"]
            /\ UNCHANGED <<rows, owed>>
       ELSE /\ deleting' = [deleting EXCEPT ![j] = IF @ = "sawReady" THEN "unlink" ELSE "no"]
            /\ DeleteRows({j})
    /\ UNCHANGED <<blob, makers, world, sweep, formats>>

UnlinkFile(j) ==
    /\ deleting[j] = "unlink"
    /\ blob' = blob \ {j}
    /\ deleting' = [deleting EXCEPT ![j] = "forget"]
    /\ UNCHANGED <<rows, owed, makers, world, sweep, formats>>

ForgetFile(j) ==
    /\ deleting[j] = "forget"
    /\ owed' = owed \ {j}
    /\ deleting' = [deleting EXCEPT ![j] = "no"]
    /\ UNCHANGED <<rows, blob, makers, world, sweep, formats>>

(* The request breaks off, or storage refuses the delete. *)
DeleteBreaksOff(j) ==
    /\ "error" \in Events
    /\ deleting[j] # "no"
    /\ deleting' = [deleting EXCEPT ![j] = "no"]
    /\ UNCHANGED <<rows, storage, makers, world, sweep, formats>>

(* The recording goes (the host, retention, its webinar): its clips go with it. *)
DeleteRecording ==
    /\ "cascade" \in Events
    /\ source # "gone"
    /\ source' = "gone"
    /\ DeleteRows(Jobs \ (InStatus("new") \cup InStatus("gone")))
    /\ UNCHANGED <<blob, makers, live, sessions, sweep, formats, deleting>>

RushClipJobs ==
    /\ "rush" \in Events
    /\ rushed' = rushed \cup InStatus("queued")
    /\ rushed' # rushed
    /\ UNCHANGED <<status, attempts, lease, born, storage, makers, world, sweep, formats, deleting>>

-----------------------------------------------------------------------------
(* The clip maker of a worker *)

Call(kind, j, w) == [kind |-> kind, job |-> j, from |-> w]

(* Every call w still waits for is left to the API. *)
Detached(w) ==
    {IF c.from = w THEN Call(c.kind, c.job, Nobody) ELSE c : c \in calls}

LateBounded == Cardinality({c \in calls' : c.from = Nobody}) <= MaxLate

Claim(w) ==
    /\ pc[w] = "idle"
    /\ pc' = [pc EXCEPT ![w] = "claim"]
    /\ calls' = calls \cup {Call("claim", NoJob, w)}
    /\ UNCHANGED <<job, unheard, rows, storage, world, sweep, formats, deleting>>

Beat(w) ==
    /\ pc[w] = "render"
    /\ \A c \in calls : c.from # w
    /\ calls' = calls \cup {Call("beat", job[w], w)}
    /\ UNCHANGED <<pc, job, unheard, rows, storage, world, sweep, formats, deleting>>

(* The render ends: the beat is cancelled, and the next call made. *)
RenderEnds(w, ok) ==
    /\ pc[w] = "render"
    /\ ok \/ "error" \in Events
    /\ pc' = [pc EXCEPT ![w] = IF ok THEN "url" ELSE "report"]
    /\ calls' = Detached(w) \cup {Call(IF ok THEN "url" ELSE "fail", job[w], w)}
    /\ LateBounded
    /\ UNCHANGED <<job, unheard, rows, storage, world, sweep, formats, deleting>>

(* The history: nobody hears of the file that was written for clip j. *)
Unheard(j) == unheard' = IF status[j] = "gone" THEN unheard \cup {j} ELSE unheard

(* The file is in storage; the API is told in a call of its own. *)
Put(w) ==
    /\ pc[w] = "put"
    /\ blob' = blob \cup {job[w]}
    /\ pc' = [pc EXCEPT ![w] = "sent"]
    /\ UNCHANGED <<job, calls, unheard, rows, owed, world, sweep, formats, deleting>>

ReportMade(w) ==
    /\ pc[w] = "sent"
    /\ pc' = [pc EXCEPT ![w] = "report"]
    /\ calls' = calls \cup {Call("finish", job[w], w)}
    /\ UNCHANGED <<job, unheard, rows, storage, world, sweep, formats, deleting>>

(* The upload is reported as failed; the object may be there all the same. *)
PutFails(w) ==
    /\ "error" \in Events
    /\ pc[w] = "put"
    /\ \/ UNCHANGED <<blob, unheard>>
       \/ blob' = blob \cup {job[w]} /\ Unheard(job[w])
    /\ pc' = [pc EXCEPT ![w] = "report"]
    /\ calls' = calls \cup {Call("fail", job[w], w)}
    /\ UNCHANGED <<job, rows, owed, world, sweep, formats, deleting>>

(* A restart or a shutdown: nothing is reported. *)
Crash(w) ==
    /\ "crash" \in Events
    /\ pc[w] # "idle"
    /\ pc' = [pc EXCEPT ![w] = "idle"]
    /\ job' = [job EXCEPT ![w] = NoJob]
    /\ calls' = Detached(w)
    /\ LateBounded
    /\ IF pc[w] = "sent" THEN Unheard(job[w]) ELSE UNCHANGED unheard
    /\ UNCHANGED <<rows, storage, world, sweep, formats, deleting>>

(* What the clip maker of w does when call c comes back: pcNext, holding j. *)
Goes(c, pcNext, j) ==
    IF c.from = Nobody
    THEN UNCHANGED <<pc, job>>
    ELSE /\ pc' = [pc EXCEPT ![c.from] = pcNext]
         /\ job' = [job EXCEPT ![c.from] = j]

(* ... when the call fails: a beat is only logged, a missing upload URL is
   reported as a failure of the job. *)
OnError(c, left) ==
    IF c.from # Nobody /\ c.kind = "url"
    THEN /\ Goes(c, "report", c.job)
         /\ calls' = left \cup {Call("fail", c.job, c.from)}
    ELSE /\ calls' = left
         /\ IF c.kind \in BeatKinds THEN UNCHANGED <<pc, job>> ELSE Goes(c, "idle", NoJob)

(* The caller stops waiting; the API does not. *)
CallTimesOut(c) ==
    /\ "timeout" \in Events
    /\ c.from # Nobody
    /\ OnError(c, (calls \ {c}) \cup {Call(c.kind, c.job, Nobody)})
    /\ LateBounded
    /\ UNCHANGED <<unheard, rows, storage, world, sweep, formats, deleting>>

(* The API answers an error, or dies before its next step. *)
CallFails(c) ==
    /\ "error" \in Events
    /\ OnError(c, calls \ {c})
    /\ IF c.kind \in {"finish", "verify"} THEN Unheard(c.job) ELSE UNCHANGED unheard
    /\ UNCHANGED <<rows, storage, world, sweep, formats, deleting>>

-----------------------------------------------------------------------------
(* The API's handlers of the clip maker's calls, a step per statement *)

Continue(c, kind, j) == calls' = (calls \ {c}) \cup {Call(kind, j, c.from)}
Answer(c, pcNext, j) == calls' = calls \ {c} /\ Goes(c, pcNext, j)

ClaimHeldBack(c) ==
    /\ c.kind = "claim"
    /\ IF live THEN Answer(c, "idle", NoJob)
               ELSE Continue(c, "stale", NoJob) /\ UNCHANGED <<pc, job>>
    /\ UNCHANGED <<rows, storage>>

ClaimFailsStale(c) ==
    /\ c.kind = "stale"
    /\ FailStaleClipJobs
    /\ Continue(c, "pick", NoJob)
    /\ UNCHANGED <<pc, job, storage>>

ClaimPicks(c) ==
    /\ c.kind = "pick"
    /\ \/ /\ Claimable = {}
          /\ Answer(c, "idle", NoJob)
          /\ UNCHANGED rows
       \/ \E j \in NextInLine :
             /\ TakeRow(j)
             /\ Continue(c, "vet", j)
             /\ UNCHANGED <<pc, job>>
    /\ UNCHANGED storage

(* A job whose source cannot be read is failed (an error of that is ignored),
   and the next one tried. *)
ClaimVets(c) ==
    /\ c.kind = "vet"
    /\ IF source = "ready"
       THEN Answer(c, "render", c.job) /\ UNCHANGED rows
       ELSE /\ FailClipJob(c.job, FALSE) \/ ("error" \in Events /\ KeepRows)
            /\ Continue(c, "stale", NoJob)
            /\ UNCHANGED <<pc, job>>
    /\ UNCHANGED storage

(* A session is live: back to the queue; when that cannot be read, renew. *)
BeatHeldBack(c) ==
    /\ c.kind = "beat"
    /\ \/ live /\ Continue(c, "requeue", c.job)
       \/ (~live \/ "error" \in Events) /\ Continue(c, "renew", c.job)
    /\ UNCHANGED <<pc, job, rows, storage>>

BeatRequeues(c) ==
    /\ c.kind = "requeue"
    /\ RequeueClipJob(c.job)
    /\ Answer(c, "idle", NoJob)
    /\ UNCHANGED storage

BeatRenews(c) ==
    /\ c.kind = "renew"
    /\ ClipJobProgress(c.job)
    /\ IF status[c.job] = "processing"
       THEN calls' = calls \ {c} /\ UNCHANGED <<pc, job>>
       ELSE Answer(c, "idle", NoJob)
    /\ UNCHANGED storage

UploadURL(c) ==
    /\ c.kind = "url"
    /\ IF status[c.job] = "processing"
       THEN Answer(c, "put", c.job)
       ELSE OnError(c, calls \ {c})
    /\ UNCHANGED <<rows, storage>>

CompleteFinishes(c) ==
    /\ c.kind = "finish"
    /\ FinishClipJob(c.job)
    /\ IF status[c.job] = "processing"
       THEN Answer(c, "idle", NoJob)
       ELSE Continue(c, "verify", c.job) /\ UNCHANGED <<pc, job>>
    /\ UNCHANGED storage

(* Mutant of CompleteVerifies: the file is deleted whatever the row says. *)
VerifyDeletesAlways(c) ==
    /\ c.kind = "verify"
    /\ blob' = blob \ {c.job}
    /\ Answer(c, "idle", NoJob)
    /\ UNCHANGED <<rows, owed, unheard>>

(* Mutant of CompleteVerifies: the file of a deleted clip is left. *)
VerifyDeletesNothing(c) ==
    /\ c.kind = "verify"
    /\ Answer(c, "idle", NoJob)
    /\ UNCHANGED <<rows, storage, unheard>>

(* The row no longer takes the result: when it was deleted, so is the file
   (an error of storage is ignored). *)
CompleteVerifies(c) ==
    /\ c.kind = "verify"
    /\ \/ status[c.job] = "gone" /\ blob' = blob \ {c.job} /\ UNCHANGED unheard
       \/ status[c.job] # "gone" /\ UNCHANGED <<blob, unheard>>
       \/ status[c.job] = "gone" /\ "error" \in Events /\ UNCHANGED blob /\ Unheard(c.job)
    /\ Answer(c, "idle", NoJob)
    /\ UNCHANGED <<rows, owed>>

CompleteFails(c) ==
    /\ c.kind = "fail"
    /\ FailClipJob(c.job, TRUE)
    /\ Answer(c, "idle", NoJob)
    /\ UNCHANGED storage

ApiStep(c) ==
    /\ \/ CompleteVerifies(c)
       \/ /\ \/ ClaimHeldBack(c) \/ ClaimFailsStale(c) \/ ClaimPicks(c) \/ ClaimVets(c)
             \/ BeatHeldBack(c) \/ BeatRequeues(c) \/ BeatRenews(c)
             \/ UploadURL(c)
             \/ CompleteFinishes(c) \/ CompleteFails(c)
          /\ UNCHANGED unheard
    /\ UNCHANGED <<world, sweep, formats, deleting>>

-----------------------------------------------------------------------------
(* The maintenance sweep: sweepClipBlobs *)

SweepFailsStale ==
    /\ FailStaleClipJobs
    /\ Stale # {}
    /\ UNCHANGED <<storage, makers, world, sweep, formats, deleting>>

SweepLists ==
    /\ listed = {} /\ cleared = {}
    /\ owed # {}
    /\ listed' = owed
    /\ UNCHANGED <<rows, storage, makers, world, cleared, formats, deleting>>

SweepDeletes(j) ==
    /\ j \in listed
    /\ listed' = listed \ {j}
    /\ cleared' = cleared \cup {j}
    /\ blob' = blob \ {j}
    /\ UNCHANGED <<rows, owed, makers, world, formats, deleting>>

SweepSkips(j) ==
    /\ "error" \in Events
    /\ j \in listed
    /\ listed' = listed \ {j}
    /\ UNCHANGED <<rows, storage, makers, world, cleared, formats, deleting>>

SweepForgets ==
    /\ listed = {} /\ cleared # {}
    /\ owed' = owed \ cleared
    /\ cleared' = {}
    /\ UNCHANGED <<rows, blob, makers, world, listed, formats, deleting>>

(* The pass runs out of its deadline, or the instance goes. *)
SweepDies ==
    /\ "crash" \in Events
    /\ listed \cup cleared # {}
    /\ listed' = {} /\ cleared' = {}
    /\ UNCHANGED <<rows, storage, makers, world, formats, deleting>>

-----------------------------------------------------------------------------
(* Everything else *)

LeaseRunsOut(j) ==
    /\ lease[j] = "held"
    /\ lease' = [lease EXCEPT ![j] = "out"]
    /\ UNCHANGED <<status, attempts, rushed, born, storage, makers, world, sweep, formats, deleting>>

RushRunsOut(j) ==
    /\ j \in rushed
    /\ rushed' = rushed \ {j}
    /\ UNCHANGED <<status, attempts, lease, born, storage, makers, world, sweep, formats, deleting>>

GoLive ==
    /\ ~live /\ sessions < MaxSessions
    /\ live' = TRUE
    /\ sessions' = sessions + 1
    /\ UNCHANGED <<rows, storage, makers, source, sweep, formats, deleting>>

EndLive ==
    /\ live
    /\ live' = FALSE
    /\ UNCHANGED <<rows, storage, makers, source, sessions, sweep, formats, deleting>>

(* A take is no longer ready, or is deleted, the recording still there. *)
SourceBreaks ==
    /\ "unready" \in Events
    /\ source = "ready"
    /\ source' = "unready"
    /\ UNCHANGED <<rows, storage, makers, live, sessions, sweep, formats, deleting>>

HostStep ==
    \/ \E c \in Creators :
          \/ \E n \in 1 .. MaxFormats : CountUnfinished(c, n)
          \/ \E S \in SUBSET Jobs : InsertClipJobs(c, S)
          \/ CreateRefused(c)
    \/ \E j \in Jobs :
          OpenDelete(j) \/ DeleteClipJob(j) \/ UnlinkFile(j) \/ ForgetFile(j) \/ DeleteBreaksOff(j)
    \/ DeleteRecording
    \/ RushClipJobs

WorkerStep(w) ==
    \/ Claim(w) \/ Beat(w)
    \/ \E ok \in BOOLEAN : RenderEnds(w, ok)
    \/ Put(w) \/ ReportMade(w) \/ PutFails(w) \/ Crash(w)

SweepStep ==
    \/ SweepFailsStale \/ SweepLists \/ SweepForgets \/ SweepDies
    \/ \E j \in Jobs : SweepDeletes(j) \/ SweepSkips(j)

WorldStep ==
    \/ \E j \in Jobs : LeaseRunsOut(j) \/ RushRunsOut(j)
    \/ GoLive \/ EndLive \/ SourceBreaks

Next ==
    \/ HostStep
    \/ \E w \in Workers : WorkerStep(w)
    \/ \E c \in calls : ApiStep(c) \/ CallTimesOut(c) \/ CallFails(c)
    \/ SweepStep
    \/ WorldStep

Spec == Init /\ [][Next]_vars

-----------------------------------------------------------------------------
(* Safety *)

(* A row is processing exactly while it has a lease: a processing row without
   one could never be claimed again (lease_until < now() is not true of NULL),
   nor failed by the sweep. *)
LeaseIffProcessing == \A j \in Jobs : status[j] = "processing" <=> lease[j] # "none"

(* A queued row has a try left, whatever order requeues, failures, late calls
   and claims come in: the claim takes no other, and nothing fails a queued
   row, so it would wait for ever.  A processing row has its try counted. *)
TriesLeft ==
    \A j \in Jobs : /\ status[j] = "queued" => attempts[j] < MaxAttempts
                    /\ status[j] = "processing" => attempts[j] > 0

(* A clip the host is shown as ready has its file in storage: no sweep, no
   delete request and no late report of another clip maker takes it away. *)
ReadyHasFile == InStatus("ready") \subseteq blob

(* "clipMaxUnfinished bounds the clips of one recording waiting or being made
   at once" (clip_jobs.go:57): handleCreateClips counts and inserts in two
   statements, and two requests at once pass it together. *)
UnfinishedWithinLimit == Cardinality(Unfinished) <= MaxUnfinished

(* What the count does promise: requests that count before each other's
   inserts pass the limit by what all but one of them ask for, and nothing,
   neither requeues nor failures nor late calls, adds to that. *)
UnfinishedWithinReach ==
    Cardinality(Unfinished) <= MaxUnfinished + (Cardinality(Creators) - 1) * MaxFormats

(* The queue keeps its promise to the host (ClipPromise): a clip is settled
   once, and reports of clip makers that lost it and calls that arrive late
   change nothing any more; no file goes before its row. *)
View ==
    [new |-> "absent", queued |-> "waiting", processing |-> "waiting",
     ready |-> "ready", failed |-> "failed", gone |-> "deleted"]

Promise == INSTANCE ClipPromise WITH shown <- [j \in Jobs |-> View[status[j]]], files <- blob

PromiseKept == Promise!Spec

-----------------------------------------------------------------------------
(* Liveness *)

(* The sweep runs every few minutes and storage takes a delete now and then, a
   lease and a session end, a clip maker asks for work when it has none, its
   renders and uploads end, and the API works on every call.  Nothing makes a
   render succeed rather than fail.  (A render ends whatever its beat does:
   strong fairness makes up for the bound on late calls.) *)
Fairness ==
    /\ WF_vars(SweepFailsStale) /\ WF_vars(SweepLists) /\ WF_vars(SweepForgets)
    /\ \A j \in Jobs : SF_vars(SweepDeletes(j)) /\ WF_vars(LeaseRunsOut(j))
    /\ \A w \in Workers : /\ WF_vars(Claim(w))
                           /\ SF_vars(\E ok \in BOOLEAN : RenderEnds(w, ok))
                           /\ WF_vars(Put(w) \/ PutFails(w)) /\ WF_vars(ReportMade(w))
    /\ \A w \in Callers : WF_vars(\E c \in calls : c.from = w /\ ApiStep(c))
    /\ WF_vars(EndLive)

FairSpec == Spec /\ Fairness

(* Claims may be lost or time out, but not for ever: a clip maker asks again
   every 30 s, and the network and the database work now and then. *)
ClaimsGetThrough ==
    \A w \in Workers : \A k \in ClaimKinds :
        SF_vars(\E c \in calls : c.from = w /\ c.kind = k /\ ApiStep(c))

LossySpec == FairSpec /\ ClaimsGetThrough

(* Every clip the host asks for is made or fails, unless it is deleted: no
   crash, lost reply, requeue or late call leaves it queued or processing. *)
ClipsSettle ==
    \A j \in Jobs : status[j] = "queued" ~> status[j] \in {"ready", "failed", "gone"}

(* Once a ready clip is deleted its file leaves storage and stays out, though
   a clip maker that lost the clip may write it again after the delete and
   after the sweep: its report has the file deleted.  Only when it wrote the
   file of a deleted clip and its report is lost does the file stay. *)
DeletedFilesGo ==
    \A j \in Jobs :
        [](status[j] = "ready" => [](status[j] = "gone" => <>[](j \notin blob \/ j \in unheard)))

=============================================================================
