---------------------------- MODULE VideoUpload ----------------------------
(***************************************************************************)
(* Uploading a video for Simulive (web/lib/video-uploader.ts,              *)
(* web/components/video-upload.tsx, api/video_upload.go,                   *)
(* store/video_uploads.go).                                                *)
(*                                                                         *)
(* The browser sends a file's parts straight to the bucket and asks the    *)
(* API to stitch them; the API keeps a row for the upload while it is      *)
(* under way and makes it a recording once the file is whole and probed.   *)
(* Three stores change hands with no transaction over them: the bucket,    *)
(* the rows, and the upload's id in the browser's localStorage, which      *)
(* every tab of the same file shares.  Requests are lost, die between two  *)
(* of their steps or go on after the browser has given up on them, and     *)
(* the daily sweep aborts what is older than a day.                        *)
(*                                                                         *)
(* One host and one file: `bad' says that it does not pass the probe.  The *)
(* bucket is external.  What one tab does with a second file, or with the  *)
(* same file before its last try has settled, another tab does.            *)
(***************************************************************************)
EXTENDS Naturals, FiniteSets

CONSTANTS
    Tabs,       \* tabs in which the file may be chosen
    Uploads,    \* bound: uploads that can be started
    Parts,      \* the parts the file is cut into
    Requests,   \* bound: requests the API is at work on at once
    Quota,      \* how many files of this size the host's storage holds
    Rounds,     \* COMPLETE_ROUNDS
    Events,     \* what else happens
    Nobody, NoUpload

ASSUME UploadsAssumption == IsFiniteSet(Uploads) /\ NoUpload \notin Uploads
ASSUME TabsAssumption == Nobody \notin Tabs
ASSUME QuotaAssumption == Quota \in Nat
ASSUME RoundsAssumption == Rounds \in Nat \ {0}
ASSUME EventsAssumption ==
    Events \subseteq {"cancel", "close", "leave", "lost", "crash", "error", "short", "stale", "delete"}

VARIABLES
    bad,       \* the file does not pass the probe
    saved,     \* localStorage: the upload of this file
    pc,        \* a tab: idle, or what it has to ask or to send
    up,        \* the tab's upload
    done,      \* the parts it believes are sent
    round,     \* rounds of complete it has behind it
    aborted,   \* its signal is aborted
    row,       \* video_uploads
    old,       \* rows of more than a day
    rec,       \* recordings: videos that are ready and listed
    multi,     \* the bucket: each multipart upload
    parts,     \* its whole parts
    object,    \* the stitched files
    req,       \* the API's requests
    sweep      \* where the sweep is with each upload

tab == <<pc, up, done, round, aborted>>
db == <<row, old, rec>>
bucket == <<multi, parts, object>>
vars == <<bad, saved, tab, db, bucket, req, sweep>>

Steps == {"load", "make", "record", "list", "forget", "stitch", "stat", "probe", "finish", "abort",
          "dropfile", "droprow"}
Reqs == [kind : {"none", "start", "status", "complete", "cancel", "delete"},
         at : Steps, up : Uploads \cup {NoUpload}, tab : Tabs \cup {Nobody}]
NoReq == [kind |-> "none", at |-> "load", up |-> NoUpload, tab |-> Nobody]

(* Every variable keeps its type. *)
TypeOK ==
    /\ bad \in BOOLEAN
    /\ saved \in Uploads \cup {NoUpload}
    /\ pc \in [Tabs -> {"idle", "status", "start", "send", "complete", "again"}]
    /\ up \in [Tabs -> Uploads \cup {NoUpload}]
    /\ done \in [Tabs -> SUBSET Parts]
    /\ round \in [Tabs -> 0 .. Rounds - 1]
    /\ aborted \in [Tabs -> BOOLEAN]
    /\ row \in SUBSET Uploads
    /\ old \in SUBSET row
    /\ rec \in SUBSET Uploads
    /\ multi \in [Uploads -> {"none", "open", "gone"}]
    /\ parts \in [Uploads -> SUBSET Parts]
    /\ object \in SUBSET Uploads
    /\ req \in [Requests -> Reqs]
    /\ sweep \in [Uploads -> {"no", "listed", "aborted"}]

Init ==
    /\ bad \in BOOLEAN
    /\ saved = NoUpload
    /\ pc = [t \in Tabs |-> "idle"]
    /\ up = [t \in Tabs |-> NoUpload]
    /\ done = [t \in Tabs |-> {}]
    /\ round = [t \in Tabs |-> 0]
    /\ aborted = [t \in Tabs |-> FALSE]
    /\ row = {} /\ old = {} /\ rec = {}
    /\ multi = [u \in Uploads |-> "none"]
    /\ parts = [u \in Uploads |-> {}]
    /\ object = {}
    /\ req = [r \in Requests |-> NoReq]
    /\ sweep = [u \in Uploads |-> "no"]

-----------------------------------------------------------------------------
(* Requests and their answers. *)

Free == {r \in Requests : req[r] = NoReq}
Waiting(t) == \E r \in Requests : req[r].tab = t

Send(kind, at, u, t) ==
    \E r \in Free : req' = [req EXCEPT ![r] = [kind |-> kind, at |-> at, up |-> u, tab |-> t]]

(* t goes on with upload u, of which the bucket has what it has. *)
GoOn(t, u) ==
    /\ pc' = [pc EXCEPT ![t] = "send"]
    /\ up' = [up EXCEPT ![t] = u]
    /\ done' = [done EXCEPT ![t] = parts[u]]

Ask(t, what) == pc' = [pc EXCEPT ![t] = what] /\ UNCHANGED <<up, done>>

(* The try of t is over: what it knew goes with it. *)
Over(t) ==
    /\ pc' = [pc EXCEPT ![t] = "idle"]
    /\ up' = [up EXCEPT ![t] = NoUpload]
    /\ done' = [done EXCEPT ![t] = {}]
    /\ round' = [round EXCEPT ![t] = 0]
    /\ aborted' = [aborted EXCEPT ![t] = FALSE]

(* Mutant of MoreRounds: one round too many. *)
MoreRoundsByOne(t) == round[t] < Rounds

MoreRounds(t) == round[t] + 1 < Rounds

(* What t does with the answer to what it asked (begin, uploadVideo). *)
Told(t, u, code) ==
    \/ /\ pc[t] \in {"status", "again"} /\ code = "ok"
       /\ GoOn(t, u)
       /\ UNCHANGED <<saved, round, aborted>>
    \/ /\ pc[t] = "status" /\ code # "ok"
       /\ saved' = NoUpload
       /\ Ask(t, "start")
       /\ UNCHANGED <<round, aborted>>
    \/ /\ pc[t] = "start" /\ code = "ok"
       /\ saved' = u
       /\ GoOn(t, u)
       /\ UNCHANGED <<round, aborted>>
    \/ /\ pc[t] \in {"start", "again"} /\ code # "ok"
       /\ Over(t)
       /\ UNCHANGED saved
    \/ /\ pc[t] = "complete" /\ code = "incomplete" /\ MoreRounds(t)
       /\ round' = [round EXCEPT ![t] = @ + 1]
       /\ Ask(t, "again")
       /\ UNCHANGED <<saved, aborted>>
    \/ /\ pc[t] = "complete"
       /\ code = "incomplete" => ~MoreRounds(t)
       /\ saved' = (IF code = "network" THEN saved ELSE NoUpload)
       /\ Over(t)

(* The request is over, and whoever still waits for it is told. *)
Answer(r, u, code) ==
    /\ req' = [req EXCEPT ![r] = NoReq]
    /\ IF req[r].tab = Nobody THEN UNCHANGED <<saved, tab>>
                              ELSE Told(req[r].tab, u, code)

GoTo(r, at) == req' = [req EXCEPT ![r].at = at] /\ UNCHANGED <<saved, tab>>

-----------------------------------------------------------------------------
(* A tab. *)

(* The file is chosen: an upload that is remembered is asked after. *)
ChooseFile(t) ==
    /\ pc[t] = "idle"
    /\ pc' = [pc EXCEPT ![t] = IF saved = NoUpload THEN "start" ELSE "status"]
    /\ up' = [up EXCEPT ![t] = saved]
    /\ UNCHANGED <<bad, saved, done, round, aborted, db, bucket, req, sweep>>

Call(t) ==
    /\ ~Waiting(t)
    /\ \/ pc[t] \in {"status", "again"} /\ Send("status", "load", up[t], t)
       \/ pc[t] = "start" /\ Send("start", "make", NoUpload, t)
       \/ pc[t] = "complete" /\ Send("complete", "load", up[t], t)
    /\ UNCHANGED <<bad, saved, tab, db, bucket, sweep>>

(* A part is put to its presigned address, which is good for an hour.      *)
PutPart(t, p) ==
    /\ pc[t] = "send" /\ ~aborted[t]
    /\ p \notin done[t]
    /\ multi[up[t]] = "open"
    /\ parts' = [parts EXCEPT ![up[t]] = @ \cup {p}]
    /\ done' = [done EXCEPT ![t] = @ \cup {p}]
    /\ UNCHANGED <<bad, saved, pc, up, round, aborted, db, multi, object, req, sweep>>

(* A put that is answered well, and the bucket has not the whole part.     *)
PutPartShort(t, p) ==
    /\ "short" \in Events
    /\ pc[t] = "send" /\ ~aborted[t]
    /\ p \notin done[t]
    /\ multi[up[t]] = "open"
    /\ done' = [done EXCEPT ![t] = @ \cup {p}]
    /\ UNCHANGED <<bad, saved, pc, up, round, aborted, db, bucket, req, sweep>>

(* Mutant of SendFails: an aborted signal ends nothing. *)
SendFailsWhenTried(t) ==
    /\ pc[t] = "send"
    /\ done[t] # Parts /\ ("error" \in Events \/ multi[up[t]] # "open")
    /\ Over(t)
    /\ UNCHANGED <<bad, saved, db, bucket, req, sweep>>

(* The tries of a part are used up, or the signal is aborted.              *)
SendFails(t) ==
    /\ pc[t] = "send"
    /\ aborted[t] \/ (done[t] # Parts /\ ("error" \in Events \/ multi[up[t]] # "open"))
    /\ Over(t)
    /\ UNCHANGED <<bad, saved, db, bucket, req, sweep>>

AllSent(t) ==
    /\ pc[t] = "send" /\ ~aborted[t]
    /\ done[t] = Parts
    /\ Ask(t, "complete")
    /\ UNCHANGED <<bad, saved, round, aborted, db, bucket, req, sweep>>

(* Cancel: the browser forgets the upload and, if it has its id, has it    *)
(* deleted; what it is waiting for goes on.                                *)
Cancel(t) ==
    /\ "cancel" \in Events
    /\ pc[t] # "idle" /\ ~aborted[t]
    /\ aborted' = [aborted EXCEPT ![t] = TRUE]
    /\ saved' = NoUpload
    /\ IF pc[t] \in {"status", "start"} THEN UNCHANGED req
                                        ELSE Send("cancel", "load", up[t], Nobody)
    /\ UNCHANGED <<bad, pc, up, done, round, db, bucket, sweep>>

(* The panel is left: nothing more is sent, what it waits for goes on.     *)
Leave(t) ==
    /\ "leave" \in Events
    /\ pc[t] # "idle" /\ ~aborted[t]
    /\ aborted' = [aborted EXCEPT ![t] = TRUE]
    /\ UNCHANGED <<bad, saved, pc, up, done, round, db, bucket, req, sweep>>

WithoutTab(t) == [r \in Requests |-> IF req[r].tab = t THEN [req[r] EXCEPT !.tab = Nobody] ELSE req[r]]

(* The tab is closed: nobody is there for the answers. *)
CloseTab(t) ==
    /\ "close" \in Events
    /\ pc[t] # "idle"
    /\ Over(t)
    /\ req' = WithoutTab(t)
    /\ UNCHANGED <<bad, saved, db, bucket, sweep>>

-----------------------------------------------------------------------------
(* The API, one step of a request at a time. *)

At(r, at) == req[r].kind # "none" /\ req[r].at = at

(* videoUploadHere *)
LoadUpload(r) ==
    /\ At(r, "load")
    /\ IF req[r].up \in row
       THEN GoTo(r, IF req[r].kind = "cancel" THEN "abort" ELSE "list")
       ELSE Answer(r, req[r].up, "not_found")
    /\ UNCHANGED <<bad, db, bucket, sweep>>

CreateMultipart(r) ==
    /\ At(r, "make")
    /\ \E u \in Uploads :
        /\ multi[u] = "none"
        /\ multi' = [multi EXCEPT ![u] = "open"]
        /\ req' = [req EXCEPT ![r].up = u, ![r].at = "record"]
    /\ UNCHANGED <<bad, saved, tab, db, parts, object, sweep>>

(* The multipart upload is gone, with its parts: aborted, which is no      *)
(* error for one already gone, or stitched.                                *)
EndMultipart(u) ==
    /\ multi' = [multi EXCEPT ![u] = "gone"]
    /\ parts' = [parts EXCEPT ![u] = {}]

(* What counts against the quota: what is listed, and what is arriving. *)
Stored == row \cup rec

(* CreateVideoUpload, under the host's row lock; what else the host        *)
(* stores may fill the quota before these uploads do.                      *)
CreateVideoUpload(r) ==
    LET u == req[r].up IN
    /\ At(r, "record")
    /\ \/ /\ Cardinality(Stored) < Quota
          /\ row' = row \cup {u}
          /\ Answer(r, u, "ok")
          /\ UNCHANGED <<multi, parts>>
       \/ /\ EndMultipart(u)
          /\ Answer(r, u, "storage_full")
          /\ UNCHANGED row
    /\ UNCHANGED <<bad, old, rec, object, sweep>>

(* ListUploadedParts, for a status or a complete. *)
ListUploadedParts(r) ==
    LET u == req[r].up IN
    /\ At(r, "list")
    /\ \/ multi[u] # "open" /\ GoTo(r, "forget")
       \/ multi[u] = "open" /\ req[r].kind = "status" /\ Answer(r, u, "ok")
       \/ multi[u] = "open" /\ req[r].kind = "complete"
          /\ IF parts[u] = Parts THEN GoTo(r, "stitch") ELSE Answer(r, u, "incomplete")
    /\ UNCHANGED <<bad, db, bucket, sweep>>

(* DeleteVideoUpload, the last step of an upload that expired, is          *)
(* cancelled ("forget") or is refused ("droprow").                         *)
DeleteVideoUpload(r) ==
    /\ At(r, "forget") \/ At(r, "droprow")
    /\ row' = row \ {req[r].up}
    /\ old' = old \ {req[r].up}
    /\ Answer(r, req[r].up, "not_found")
    /\ UNCHANGED <<bad, rec, bucket, sweep>>

(* CompleteMultipart fails for an upload that is gone, and may stitch the  *)
(* parts and answer an error.                                              *)
CompleteMultipart(r) ==
    LET u == req[r].up IN
    /\ At(r, "stitch")
    /\ IF multi[u] = "open"
       THEN /\ EndMultipart(u)
            /\ object' = object \cup {u}
            /\ GoTo(r, "stat") \/ ("error" \in Events /\ Answer(r, u, "error"))
       ELSE Answer(r, u, "error") /\ UNCHANGED bucket
    /\ UNCHANGED <<bad, db, sweep>>

(* Mutant of ProbeVideo: what is refused is listed. *)
ProbeNothing(r) ==
    /\ At(r, "probe")
    /\ GoTo(r, "finish")
    /\ UNCHANGED <<bad, db, bucket, sweep>>

(* The file's size is asked for, and the file is opened. *)
OpenVideo(r) ==
    /\ At(r, "stat")
    /\ GoTo(r, "probe")
    /\ UNCHANGED <<bad, db, bucket, sweep>>

(* The probe reads the file out of the bucket, range by range: a read that *)
(* fails, as it does once the caller is gone, refuses the file like any    *)
(* other fault of it.                                                      *)
ProbeVideo(r) ==
    /\ At(r, "probe")
    /\ \/ ~bad /\ GoTo(r, "finish")
       \/ bad /\ GoTo(r, "dropfile")
       \/ ("error" \in Events \/ req[r].tab = Nobody) /\ GoTo(r, "dropfile")
    /\ UNCHANGED <<bad, db, bucket, sweep>>

(* Mutant of FinishVideoUpload: the row does not have to be there still. *)
FinishWithoutRow(r) ==
    LET u == req[r].up IN
    /\ At(r, "finish")
    /\ row' = row \ {u} /\ old' = old \ {u}
    /\ rec' = rec \cup {u}
    /\ Answer(r, u, "ok")
    /\ UNCHANGED <<bad, bucket, sweep>>

(* FinishVideoUpload: the row becomes a recording in one transaction. *)
FinishVideoUpload(r) ==
    LET u == req[r].up IN
    /\ At(r, "finish")
    /\ IF u \in row
       THEN /\ row' = row \ {u} /\ old' = old \ {u}
            /\ rec' = rec \cup {u}
            /\ Answer(r, u, "ok")
       ELSE Answer(r, u, "already_done") /\ UNCHANGED db
    /\ UNCHANGED <<bad, bucket, sweep>>

(* The abort of a cancel. *)
AbortUpload(r) ==
    /\ At(r, "abort")
    /\ EndMultipart(req[r].up)
    /\ GoTo(r, "forget")
    /\ UNCHANGED <<bad, db, object, sweep>>

(* The file of a refused upload, or of a deleted video, is deleted. *)
DeleteFile(r) ==
    /\ At(r, "dropfile")
    /\ object' = object \ {req[r].up}
    /\ IF req[r].kind = "delete" THEN Answer(r, req[r].up, "ok") ELSE GoTo(r, "droprow")
    /\ UNCHANGED <<bad, db, multi, parts, sweep>>

(* A refused file is about to be deleted. *)
Refusing(r) == At(r, "dropfile") /\ req[r].kind # "delete"

(* DeleteUploadedVideo: the row first, then its file. *)
DeleteVideo(u) ==
    /\ "delete" \in Events
    /\ u \in rec
    /\ rec' = rec \ {u}
    /\ Send("delete", "dropfile", u, Nobody)
    /\ UNCHANGED <<bad, saved, tab, row, old, bucket, sweep>>

(* A step is refused by its store; an abort that fails, or a refused       *)
(* file's delete, is logged and passed over.                               *)
StepFails(r) ==
    /\ "error" \in Events
    /\ req[r].kind # "none"
    /\ IF At(r, "abort") THEN GoTo(r, "forget")
       ELSE IF Refusing(r) THEN GoTo(r, "droprow")
       ELSE req[r].at \notin {"make", "record", "probe"} /\ Answer(r, req[r].up, "error")
    /\ UNCHANGED <<bad, db, bucket, sweep>>

(* A start fails: the bucket's refusal, the bound on uploads, or the row's *)
(* insert, after which the multipart upload is aborted.                    *)
StartFails(r) ==
    /\ \/ /\ At(r, "make")
          /\ "error" \in Events \/ \A u \in Uploads : multi[u] # "none"
          /\ UNCHANGED <<multi, parts>>
       \/ /\ At(r, "record")
          /\ "error" \in Events \/ req[r].tab = Nobody
          /\ EndMultipart(req[r].up)
    /\ Answer(r, req[r].up, "error")
    /\ UNCHANGED <<bad, db, object, sweep>>

(* The instance goes, or the request's context ends with its caller: it is *)
(* over then, but for what the code does all the same, which is to abort a *)
(* start, to refuse what it could not probe, and to go through with that.  *)
RequestDies(r) ==
    /\ req[r].kind # "none"
    /\ \/ "crash" \in Events
       \/ /\ req[r].tab = Nobody
          /\ req[r].at \notin {"record", "probe", "droprow"} /\ ~Refusing(r)
    /\ Answer(r, req[r].up, "network")
    /\ UNCHANGED <<bad, db, bucket, sweep>>

(* The connection drops, and the request goes on. *)
LoseCaller(r) ==
    /\ "lost" \in Events
    /\ req[r].tab # Nobody
    /\ req' = [req EXCEPT ![r].tab = Nobody]
    /\ Told(req[r].tab, req[r].up, "network")
    /\ UNCHANGED <<bad, db, bucket, sweep>>

-----------------------------------------------------------------------------
(* sweepAbandonedVideoUploads *)

GetsOld(u) ==
    /\ "stale" \in Events
    /\ u \in row \ old
    /\ old' = old \cup {u}
    /\ UNCHANGED <<bad, saved, tab, row, rec, bucket, req, sweep>>

StaleVideoUploads ==
    /\ \A u \in Uploads : sweep[u] = "no"
    /\ old # {}
    /\ sweep' = [u \in Uploads |-> IF u \in old THEN "listed" ELSE "no"]
    /\ UNCHANGED <<bad, saved, tab, db, bucket, req>>

SweepAborts(u) ==
    /\ sweep[u] = "listed"
    /\ EndMultipart(u)
    /\ sweep' = [sweep EXCEPT ![u] = "aborted"]
    /\ UNCHANGED <<bad, saved, tab, db, object, req>>

(* Mutant of SweepForgets: the row is left to the next sweep. *)
SweepOnlyAborts(u) ==
    /\ sweep[u] = "aborted"
    /\ sweep' = [sweep EXCEPT ![u] = "no"]
    /\ UNCHANGED <<bad, saved, tab, db, bucket, req>>

SweepForgets(u) ==
    /\ sweep[u] = "aborted"
    /\ row' = row \ {u} /\ old' = old \ {u}
    /\ sweep' = [sweep EXCEPT ![u] = "no"]
    /\ UNCHANGED <<bad, saved, tab, rec, bucket, req>>

(* A sweep's abort or delete fails, and it goes on to the next upload.     *)
SweepSkips(u) ==
    /\ "error" \in Events
    /\ sweep[u] # "no"
    /\ sweep' = [sweep EXCEPT ![u] = "no"]
    /\ UNCHANGED <<bad, saved, tab, db, bucket, req>>

-----------------------------------------------------------------------------
SendStep(t) ==
    \/ \E p \in Parts : PutPart(t, p) \/ PutPartShort(t, p)
    \/ SendFails(t) \/ AllSent(t)

TabStep(t) ==
    \/ ChooseFile(t) \/ Call(t) \/ SendStep(t)
    \/ Cancel(t) \/ Leave(t) \/ CloseTab(t)

Handle(r) ==
    \/ LoadUpload(r) \/ CreateMultipart(r) \/ CreateVideoUpload(r)
    \/ ListUploadedParts(r) \/ DeleteVideoUpload(r) \/ CompleteMultipart(r)
    \/ OpenVideo(r) \/ ProbeVideo(r) \/ FinishVideoUpload(r) \/ AbortUpload(r) \/ DeleteFile(r)
    \/ StartFails(r)

ServerStep(r) == Handle(r) \/ StepFails(r) \/ RequestDies(r) \/ LoseCaller(r)

SweepStep(u) ==
    \/ GetsOld(u) \/ SweepAborts(u) \/ SweepForgets(u) \/ SweepSkips(u) \/ DeleteVideo(u)

Next ==
    \/ \E t \in Tabs : TabStep(t)
    \/ \E r \in Requests : ServerStep(r)
    \/ \E u \in Uploads : SweepStep(u)
    \/ StaleVideoUploads

Spec == Init /\ [][Next]_vars

(* A tab goes on with what it has begun, the API with every request, days  *)
(* pass, the sweep runs, and its steps do not fail for ever.               *)
FairSpec ==
    /\ Spec
    /\ \A t \in Tabs : SF_vars(Call(t)) /\ WF_vars(SendStep(t))
    /\ \A r \in Requests : WF_vars(Handle(r))
    /\ \A u \in Uploads : WF_vars(GetsOld(u)) /\ SF_vars(SweepAborts(u)) /\ SF_vars(SweepForgets(u))
    /\ WF_vars(StaleVideoUploads)

-----------------------------------------------------------------------------
(* A video that is listed has its file in the bucket, and it passed the    *)
(* probe, whatever completes, cancels, deletes and sweeps do at once, and  *)
(* whichever of their steps fail.                                          *)
ReadyIsWhole == rec \subseteq object /\ (rec # {} => ~bad)

(* Something can still make a recording of upload u: its multipart upload, *)
(* or the one complete that stitched it.                                   *)
CanFinish(u) ==
    \/ multi[u] = "open"
    \/ \E r \in Requests : req[r].up = u /\ req[r].at \in {"stat", "probe", "finish"}

(* Uploading keeps its promise to the host (VideoPromise): late, repeated  *)
(* and dying requests and the sweep never list an upload twice or bring    *)
(* one back that is gone, never list an unfit file or a missing one, and   *)
(* take a file away only when its upload or its video is gone, or can no   *)
(* longer be listed.                                                       *)
Shown(u) ==
    IF u \in row THEN (IF CanFinish(u) THEN "arriving" ELSE "doomed")
    ELSE IF u \in rec THEN "listed"
    ELSE IF multi[u] = "none" \/ \E r \in Requests : At(r, "record") /\ req[r].up = u THEN "absent"
    ELSE "gone"

Promise == INSTANCE VideoPromise
    WITH shown <- [u \in Uploads |-> Shown(u)], files <- object, unfit <- bad

UploadKeepsPromise == Promise!Spec

(* An upload does not hold its space for ever: it finishes, or it goes.    *)
SpaceComesFree == \A u \in Uploads : u \in row ~> u \notin row

(* A try ends, in success or with an error, whatever is lost.              *)
TriesEnd == \A t \in Tabs : pc[t] # "idle" ~> pc[t] = "idle"

(* The row of a good video is not forgotten, short of becoming a           *)
(* recording, while its file is in the bucket: no other trace of it is     *)
(* left, and the video is lost though all of it arrived.                   *)
ForgottenLeavesNoFile ==
    [][\A u \in row \ row' : u \in object /\ ~bad => u \in rec']_vars
=============================================================================
