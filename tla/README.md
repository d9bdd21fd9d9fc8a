# Webinar Liv: a TLA+ model of the platform's concurrent core

This directory models and checks the parts of Webinar Liv (a Go API on several
instances, Postgres, LiveKit video servers, object storage, a Next.js client)
whose correctness depends on the order in which concurrent things happen. Paths
below are relative to `src/`.

## 1. The system

### Components, their state and their operations

| component | code | state | operations |
|---|---|---|---|
| clip render queue | `api/internal/api/clip_jobs.go`, `api/internal/store/clip_jobs.go`, migration `0157_clip_jobs.sql`, `deploy/livekit-box/mixrec/clips.go` | rows of `clip_jobs` (status, tries, lease, rush), the keys in `clip_blob_deletions`, the MP4s in storage, what each clip maker holds | create, claim, progress, requeue, upload URL, complete, fail, delete, cascade, make it now, sweep |
| on-demand video server | `api/internal/api/sfu_box.go`, `api/internal/store/sfu_box.go`, `sfu_box_guard.go` | one row per project (`desired`, `actual`, droplet, failures, backoff, idle clock, hold, lease), the droplets at the cloud | step under a lease, join, mark ready, request, retry |
| captions box | `api/internal/api/captions_box.go`, `store/captions_box.go` | its own row and droplet, beside the video server's; switched off in production since 2026-10-27 | step after the box's |
| server pool and retired servers | `sfu_pool.go`, `sfu_retired.go` | which server a session is on | choose, retire |
| mix recorder, browser and egress recorders | `mixrec.go`, `recorder.go`, `deploy/livekit-box/mixrec/recorder.go` | a take being written | start, stop, finalise |
| recordings | `recordings.go`, `store/recordings.go`, retention, purge | takes and their parts, quota | start, finish, process, delete, expire |
| recap, highlights, reels | `recap.go`, `highlights.go`, `reels.go` | one row each: pending, ready, failed, `claimed_until` | claim, save, fail, rewrite |
| video uploads | `video_upload.go`, `store/video_uploads.go` | multipart uploads | start, part, complete, abort |
| CDN broadcast | `cdn_broadcast.go`, `mix_destinations.go`, `edge.go`, `egresspool/` | egresses and destinations | start, stop, reconcile |
| room control | `host.go`, `join.go`, `lk/`, `stage_cap.go`, `stage_invite.go`, `share_lock.go`, `host_transfer.go` | the participants' rights in Postgres and in LiveKit | join, invite, promote, mute, hide, remove, transfer |
| webinar life cycle | `store/webinars.go`, `api/simulive_live.go`, `store/simulive_live.go` | draft, scheduled, live, ended | schedule, start, end, rerun |
| registrations and lobby | `store/registrations.go`, `approvals.go`, `store/meeting_lobby.go` | registrations, seats, admissions | register, approve, admit |
| chat, questions, polls | `chat.go`, `say.go`, `polls.go` | messages, votes | say, ask, vote, close |
| realtime hub | `realtime/hub.go`, `realtime/bus.go` | subscribers, fan-out | publish, subscribe |
| notification and push outboxes | `notify/`, `store/notifications.go`, `push/`, `store/push.go` | rows due, claimed, sent, failed | enqueue, claim, send, retry |
| calls | `calls.go`, `store/calls.go` | a call ringing, answered, ended | ring, answer, decline, time out |
| WhatsApp and mail CRM | `api/internal/engage/` (`crm_broadcasts.go`, `crm_drips.go`, `crm_bots.go`, `wa_outbox.go`) | campaigns, enrolments, sends | enqueue, send, reply, stop |
| billing, trials | `billing.go`, `trial.go` | subscriptions, trial windows | start, charge, expire |
| sign-in | `auth.go`, password reset, email verification | sessions, one-time tokens | issue, use, expire |
| sweeper | `sweeper.go`, `tick.go` | leases per job | tick |
| web room client | `web/lib/realtime.ts`, `share-lock.ts`, `use-share-lock.ts`, `rejoin.ts`, `components/room/` | connection, who shares the screen, the caller's line, the rings | connect, rejoin, share and yield, call, answer |
| desktop and mobile apps, captions agent, deploy scripts, load tests | `apps/desktop`, `apps/mobile`, `deploy/captions`, `deploy/`, `e2e/` | shells and tools around the above | |

### How they interact

Instances share nothing but Postgres: every hand-over is a row claimed with a
conditional `UPDATE`, most of them under a lease that runs out. A tick (an
external scheduler, every minute) and the requests of users drive everything;
there is no queue process. The video server box and its containers call the API
over HTTP with a shared secret; the API calls the cloud to make and delete the
box, and LiveKit on it. A session that is live or about to be wants the box up;
a clip being made keeps it up; a session going live sends clips back to the
queue.

### What is hard, and what makes each component correct

The difficulties are the same everywhere: several instances run the same code
at the same time, an instance can go at any statement, a call can take effect
without its answer arriving, and a thing read is acted on after it has changed.

| component | hard because | correct when |
|---|---|---|
| clip queue | leases run out under a render or an upload; requests whose caller has gone are still worked on; the file and the row live in two systems | a clip is settled once; a ready clip has its file; every clip asked for settles; no file is left for ever |
| video server | steps, joins, the cloud and people move at once; creates and deletes whose answer is lost | never two droplets; never deleted while needed; up when wanted, gone when not |
| captions box, pool | follow the video server; several boxes | a session's server is one that exists and keeps existing |
| recordings, recorder | a take is finished by the recorder, the sweep and LiveKit's webhook | a take is finished once, never lost, counted once against the quota |
| recap, highlights, reels | an AI call outlives its claim | the last rewrite wins; nothing stays pending for ever |
| video uploads | complete, abort and the abandoned-upload sweep at once; the bucket, the rows and the browser's memory have no transaction over them | a listed video has its whole file; an upload gives its space back; nothing that arrived is forgotten |
| CDN broadcast | egress started, its answer lost, reconciled later | one egress per destination; none left running |
| room control | rights are in Postgres and in LiveKit, counted in one call and changed in another; the API mutes a screen share it read a moment ago | the stage cap holds; a removed person stays out; one screen share is left |
| webinar life cycle | start, end, rerun and the tick at once | a session is live once; an ended one stays ended |
| registrations, lobby | last seat taken twice; approval against withdrawal | never more seats than the plan has |
| chat, polls | votes and a close at once | one vote per person; none after the close |
| realtime hub | a full buffer drops its subscriber | a client that reconnects misses nothing |
| outboxes | an instance that goes between the claim and the send | each message sent; at most once where it is promised |
| calls | answer, decline, cancel and expiry at once; the news of a ring and of its end overtake each other | a call ends in one way, and everybody is told that way; the seat a call gave lasts as long as the call |
| CRM | a reply while the next step is being sent | nobody who opted out is written to |
| billing, trials | a webhook repeated or late | one charge, one period |
| sign-in | one token used twice at once | a token works once |
| tick, leases | two schedulers, a slow job | a job runs on one instance at a time |
| web client | each browser acts on what it has heard so far, in whatever order | what it shows is what happened; nobody gives way to a share that never outranked their own |

Five components are modelled: the clip queue (clips lost or shown without a
file), the on-demand video server (two servers paid for, or a server deleted
under a session), the rule of one screen share (part of room control and of the
web client), video uploads (a video lost or listed without its file) and calls (a
person who accepted and cannot come in). `PROJECT.json` lists all the
components, and the hazards at their lines.

## 2. The clip queue (`ClipJobs`, `ClipPromise`, `ClipJobs_proofs`)

### State and code

| variable | stands for |
|---|---|
| `status`, `attempts`, `lease`, `rushed`, `born` | the columns of a row of `clip_jobs` that any statement reads: `lease_until` is NULL (`"none"`), ahead (`"held"`) or past (`"out"`); `rush_until` ahead; the rank of `created_at` |
| `owed`, `listed`, `cleared` | `clip_blob_deletions`; the keys a sweep has read, and those whose object it has deleted and not yet forgotten |
| `blob` | the MP4s in storage: one key per clip |
| `source`, `live`, `sessions` | whether the takes can be read; whether a session is live or about to start (`clipsHeldBack`) |
| `pc`, `job` | the clip maker of each video server: asking, rendering, asking for the upload URL, uploading, reporting |
| `calls` | the clip makers' requests the API is at work on, with who still waits for them (`Nobody` when no one does) |
| `formats`, `deleting` | create and delete requests between two statements |
| `unheard` | history: deleted clips whose file was written, and whose maker then went or whose report was lost: the API never hears of that file |

Every SQL statement is one action, since each is one transaction: the trigger
that leaves a blob's key (`0157_clip_jobs.sql`) is part of `DeleteRows`, the
clearing of the lease part of `Release`. A handler of several statements is
several actions chained through `calls`, `formats`, `deleting` or
`listed`/`cleared`: `handleClipClaim` is `ClaimHeldBack`, `ClaimFailsStale`,
`ClaimPicks`, `ClaimVets`, the last going round again when the source cannot be
read; progress is `BeatHeldBack`, then `BeatRequeues` or `BeatRenews`; complete is
`CompleteFinishes` then `CompleteVerifies`, or `CompleteFails`; delete is
`OpenDelete`, `DeleteClipJob`, `UnlinkFile`, `ForgetFile`. The clip maker's loop
(`clips.go`) is `Claim`, `Beat`, `RenderEnds`, `Put`/`PutFails`, `ReportMade`,
`Crash`: the object is written by one call and reported by the next, and a maker can
go between them. Its 30 s timeout is `CallTimesOut`: the caller moves on and the API does not.
`MCClipJobs` adds only the symmetry.

`ClipPromise` is what the host is promised: a clip is absent, waiting, ready,
failed or deleted, goes only forward, is ready only with its file, and its file
goes only after it. The refinement shows "processing" and "queued" as waiting.

### Runs

| run | question | instance and why it is enough |
|---|---|---|
| `clip_handover` | no row gets stuck, ready files stay, the queue implements `ClipPromise` | one clip, two clip makers, three tries (the code's number), crashes, timeouts, errors, both deletes, a source that breaks, one session, one late call. One clip is enough for what happens to a row: statements on a row read no other row but for the order of claims. Two makers are the least for a hand-over; a late call and its maker's next one are enough for two reports of one row in any order |
| `clip_queue` | see Findings: the limit of unfinished clips, two requests at once | three clips, limit two, requests for one or two clips |
| `clip_settle` | every clip settles, and a deleted clip's file goes for good | one clip, one clip maker, two tries, `LossySpec`: crashes, timeouts, its deletion, failing calls and storage, one late call. A maker that lost the clip may write the file after the delete: with one clip that is its whole hazard |

### Fairness, and why the code has it

The sweep is a job of the tick (an external scheduler calls it every minute, the
job is due every 5 minutes and leased), so it runs for ever; `SF` for
`SweepDeletes` says that storage takes a delete now and then, since a pass that
fails leaves the key for the next. A lease runs out because it is a time. A clip
maker's loop asks every 30 s (`WF` on `Claim`), its ffmpeg and its upload have
deadlines (`RenderEnds`, `Put`/`PutFails`), and it reports what it has made
(`ReportMade`). The API works on every request it
has (`ApiStep`), unless the run lets it fail. `LossySpec` adds that among
claims that fail, time out or crash, one of each stage gets through now and
then. Nothing says that a render succeeds: a clip may settle as failed. Sessions
end (`EndLive`): a session that never ended would hold clips back for ever, by
design.

### What is proved

`ClipJobs_proofs` proves for every set of clips, clip makers and requests, every
number of tries and all the faults together:

* `TypesHold`: `Spec => []TypeOK`;
* `NoRowIsStuck`: `Spec => [](LeaseIffProcessing /\ TriesLeft)`, and
  `ProcessingIsLeased`, its first half;
* `ReadyFilesAreKept`: `Spec => []ReadyHasFile`;
* `QueueKeepsPromise`: `Spec => PromiseKept`, the refinement of `ClipPromise`;
* `LimitIsKept`: `Spec => []UnfinishedWithinReach`, for any number of create
  requests, any limit and any number of formats: what is unfinished passes the limit by
  at most what all those requests but one may ask for. `OneByOneWithinLimit` is what
  follows for `UnfinishedWithinLimit`, the property that `clip_queue` finds violated:
  where requests come one at a time, it holds.

The inductive invariant is `FullInv == TInv /\ RowInv /\ FileInv`. `TInv` adds to
`TypeOK` that the job of a call past the pick, and of a busy clip maker, is a
clip and not `NoJob`. `RowInv` adds to the two row properties that a row is
inserted with no try counted; it is inductive without the files. `FileInv` is
why a ready clip keeps its file: a report of success is made only after an
upload (`FinishedWasPut`: the file of a `finish` call is there unless its row is
gone), whoever deletes a file (the delete request past its `DELETE`, the sweep
with a key, the verify of a deleted row) holds the key of a row that is gone, and
gone for good, ids being used once (`KeysOfGone`), and nobody works on a row not
yet inserted (`WorkOnRows`). `ReadyHasFile` by itself is not inductive: it says nothing of
who is about to delete. The assumptions are those of the constants only
(`MaxAttempts` positive, `Jobs` finite, the two null values apart). `LimitIsKept`
has an invariant of its own, `LimitInv`: what is unfinished and what every request
past its count is about to insert fit in the limit, but for what all of these requests
but one may ask for; every other statement only takes clips out of what is unfinished.

### Only model-checked, and not modelled

`ClipsSettle` and `DeletedFilesGo` are liveness. The file of a deleted clip leaves
storage for good, unless a maker that lost the clip wrote it after the delete and its
report never arrived (`unheard`): the report is what has the file deleted
(`clip_jobs.go:911-912`), the sweep has no key for it, and it stays. Not modelled: the quota that
may refuse a create (its refusal is `CreateRefused`), the post text written inside
the create request, rendering, percent, the bound of five rows one claim request
vets before it gives up (the next request goes on). The upload has no beat, so a
slow one lets the row be claimed again: that is in the model, since leases run
out at any moment. What it means for the video server, which clips waiting under
an expired lease no longer keep up, would need the two modules together.

## 3. The on-demand video server (`SFUBox`, `SFUBox_proofs`, `SFUBox_people_proofs`)

### State and code

| variable | stands for |
|---|---|
| `row`, `requested`, `grace`, `lease`, `runs` | `sfu_box_state` (`actual`, `droplet_id`, `failures`, `next_attempt_at` ahead, `alerted_at` set), `requested_until` ahead, the idle grace, the lease, the open rows of `sfu_box_runs` |
| `pc`, `st`, `in` | a step of the machine on an instance: where it is, its copy of the row, what it has read (`boxInputs`) |
| `look` | a join: the row it read, and what it does about it |
| `cloud`, `ip` | the droplets with the box's tag, and the droplet the reserved IP is on |
| `sessions`, `clips`, `people` | what needs the box; sessions are live, about to be or recorded (`"now"`), or over and being finalised (`"after"`), which the step reads in two queries |
| `steady` | history: what has needed the box without a break since the step began |
| `faults` | faults so far (bounded by `MaxFaults`) |

`boxStep` is one action per statement or cloud call: `TakeSFUBoxLease`,
`ReadSessions`, `ReadFinalizing`, `ReadClips`, `ReadActivity` (with `decideBox` and the first half
of `boxAct`: `WantedUp`, `Resume`, `FirstCall`), then the call of its state:
`FindManaged`, `ParkIP`, `VolumeByName`, `CreateDroplet`, `Probe`, `ReadDroplet`,
`AssignIP`, `DrainCheck`, `AskFirst`, `DeleteDroplet`; and `SaveSFUBox`,
`ReleaseSFUBoxLease`. `StepBreaks` is its deadline or an error of the database,
`Crash` an instance that goes, leaving its lease. A join is `JoinReads`,
`JoinRequests`, `JoinProbes`, `MarkSFUBoxReady`, `JoinEnters`; the step a join runs
when it finds the box down is a step of some stepper. `RetrySFUBox` is the
admin's "Try again".

The cloud (`ComesUp`, `Vanishes`, `Unnamed`), and `CutOff` (nobody stays on a
server that stops answering) are external. The model does not assume that the
cloud refuses a second create: that there is never a second droplet follows from
the lease, from `FindManaged` and from the volume, which a droplet that exists
holds.

Abstractions, each of them a bound the code sets: a step has 45 s and its lease
90 s, so only a dead step's lease runs out; a join is answered within 60 s, so
neither a request's hold (10 min) nor a boot (2 min) passes under one; failures
are counted to `MaxFailures` and not past it, the code doing the same at any count
from there; an id the cloud gives is one that nothing names; an answer of the
lease's take or release that is lost is a `Crash`. `desired`, `since` and `last_error`
are left out: no step decides by them.

### Runs

| run | question | instance and why it is enough |
|---|---|---|
| `box_lease` | the row names its droplet, and there are never two | two instances, two droplets (a second one to be wrong with), three faults of any kind: a lost create or delete needs one, what it leaves behind is met by a second, and the count of failures goes past the give-up with a third |
| `box_needed` | never deleted while needed | one instance, one join, everything that needs the box coming and going inside the step, one fault. One instance: only the lease's holder deletes. A session that ends and is being finalised from then on is one need, though two queries see it; other moves from one kind of need to another are not claimed to be seen, and are not |
| `box_fair` | what is wanted comes up, what is idle goes down | one instance and two faults; with two failures to give up |
| `box_undone` | see Findings | one instance, one join, no fault |

`DeletesUnoccupied` is checked with one fault: with two (LiveKit not answering
and the readiness check failing) the code takes the box to be empty, by design
(`sfu_box.go`, the drain check). A person who enters after the step has asked
LiveKit is not in `steady` either: the code accepts that window, and the property
says precisely what it excludes.

### Fairness, and why the code has it

The tick runs a step every minute on some instance, and a step ends within its
45 s: `WF` on taking the lease and on `StepOn`. Joins are answered. The cloud
makes a droplet active, its boot script ends, a deleted droplet goes. Backoffs,
the grace and a dead step's lease are times. Faults are finitely many in a
behaviour (`MaxFaults`): with faults for ever nothing could be promised.

### What is proved

`SFUBox_proofs` proves for every number of instances, joins and droplets, any
`MaxFaults` and every set of faults:

* `BoxTypes`: `Spec => []TypeOK`;
* `RowsNameTheirDroplet`: `Spec => []RowNamesDroplet`;
* `NeverTwoDroplets`: `Spec => []OneDroplet`;
* `NeverDeletedWhileNeeded`: `Spec => DeletesUnneeded`;

and `SFUBox_people_proofs`, on top of it,

* `NeverDeletedUnderPeople`: `Spec => DeletesUnoccupied`, when there is one fault at
  most, or LiveKit's answer never fails, or the readiness check never does
  (`MaxFaults < 2 \/ "activity" \notin Events \/ "probe" \notin Events`): it takes a
  failure of both calls in one step to delete the box under somebody, and no number
  of crashes, errors of the cloud and the database, or lost saves is enough;
* `OnlyJoinsUndoReady`: with no joins, `Spec => ReadyIsNotUndone`. The finding of
  `box_undone` is therefore the joins' write without the lease and nothing else.

The inductive invariant is `IInv`:

* `Lock`: a step under way holds the lease, so there is one step at a time;
* `StepsOK`: what a step's copy of the row and its inputs may be at each point of
  it: the copy names a droplet exactly when its state has one, a step about to
  call about a droplet has one, and a step on its way to a delete has read that
  nothing wants the box, or has a box that was being deleted already; what is
  steady and has been asked about by now was read as needed. This last part is
  why reading in four calls, one after the other, misses nothing that is steady, and
  `HandedOver` why a session that ends between the first two of them is not missed;
* `SteadyNow`: what is steady is there now (the definition of the history);
* `RowOK`: `RowNamesDroplet` of the row, so that a step starts in order;
* `DoomedAll`: the droplet of a row that is being deleted is dying or gone, so the
  delete sent again on the way is no new one;
* `OneDroplet` and `CreateOK`: a step at the create has seen that no droplet
  exists, and the lease keeps every other step from creating one meanwhile.

The records of the rows make up most of the proof's length: each update of a row
the actions make has a lemma saying that it is a row and what its state and
droplet are, and the actions cite those.

`DeletesUnoccupied` needs a second invariant, `PeopleInv`, checked by TLC on the
instance of `box_needed` (with a second instance too) before it was proved. It says
where people can be: on a droplet that answers, which is the one the row and a
step's copy name (`NamesAll`); never on one whose row is still `creating`, the state
that is deleted without asking LiveKit (`Unserved`), because no join has seen that
droplet in a state that lets it in (`LookPart`, `Started`). And it counts what a step
has met when people have been there all along (`Met`): at the drain check an answer of
LiveKit has failed, at the question before a booting box is deleted a probe has,
and past either of them both. `Behind`, the invariant of `OnlyJoinsUndoReady`, says
that no step has a copy of the row from before it was ready.

### Not modelled

Several boxes (`placeUpcoming`, the pool), `AlwaysOn`, the guard in front of LiveKit,
the captions box's step, runs that fail to start, droplets deleted by hand in the
cloud's console, the alerts' wording. Two things the model does not turn into
properties: `EndSFUBoxRun`'s error is only logged, and a run so left open is never
ended (the fault `"run"` is in `box_lease`); and the last look at who is on the box
is not atomic with the delete, though a comment of `boxBusy` reads so.

## 4. One screen share at a time (`ShareLock`, `ShareLock_proofs`)

### State and code

There is no lock. Each browser decides from the others' shares it has heard of
(`share-lock.ts`, `use-share-lock.ts`); the API, told by a webhook that a share was
published, reads the room and mutes all but one (`share_lock.go`); a browser whose
share is muted stops it.

| variable | stands for |
|---|---|
| `pc` | a browser: idle, the picker open, sharing, or stopping what has lost |
| `view` | the unmuted shares of the others it knows of (`readRemoteShares`), by sid |
| `seen`, `mutedBy` | the hook's `atStart` and `mutedByServer` |
| `share`, `sids`, `clock`, `untold` | the SFU (external): each client's share, when its first media was stamped, whether it is muted, and the mute its publisher has not heard of |
| `due`, `losers` | the API: webhooks not begun, and whom each has still to mute |
| `outranked`, `failed` | history: some share has outranked this one since Share was pressed; a webhook's read or mute has failed |

The Share button is `PressShare`, what the browser's picker does `CancelPicker` and
`PublishShare` (with the snapshot `LocalTrackPublished` takes); `decide` is
`YieldToMute` and `YieldToOther`, its stop `StopYielded`; a control bar that mounts again
during a share is `Remount`: its hook decides before it has read the room, with the
empty list it starts with, so that its snapshot is empty whatever is live. `enforceOneShare` is `ReadRoom` and one `MuteTrack` or
`MuteTrackFails` per loser, so that the room moves between the read and the mutes:
`MuteTrack` mutes by identity, whatever share that person has by then. `Sync` is any
update of one browser about one other, in any order.

### Run, and its bounds

`share` asks that no panelist stops for a share that did not outrank theirs, that a room
the API is done with has one live share (`SettledRoomHasOneShare`), and that it comes
to that. It has a host and two panelists: the least in which a panelist can lose to
another panelist and to the host, and in which two losers are muted by one
webhook. Two shares are published in a behaviour and one webhook is at work at a
time; a panelist's control bar may be mounted again, shares stop by hand, reads
and mutes fail. Two shares are what a race takes; a third repeats one of them,
and its state space is out of reach with three browsers.

Fairness: the SFU delivers media and news, a browser acts on what it has learnt
(the hook decides on every track event, and once a second), the API works on
every webhook. Nobody has to press anything. `OneShareStays` excuses behaviours in which a
webhook failed: its error is logged and nothing tries again (Known gaps).

### What is proved, and what is not

* `RoomTypesHold`: `Spec => []TypeOK`.
* `OneShareOnceSettled`: `Spec => []SettledRoomHasOneShare`, for any number of hosts,
  panelists, shares and webhooks at work at once. When the API has nothing left to do
  and failed at nothing, one share at most is live. The invariant behind it,
  `LInv`, is short: no two stamps are alike (`StampsDiffer`), so a read of the room
  leaves one share out of its list at most; and whenever no webhook waits to read,
  of any two live shares one is on the list of what some webhook has still to mute
  (`LoserKnown`). It survives the gap between a read and its mutes because a share
  published in the gap brings a webhook of its own.
* `PanelistsStopOnlyWhenOutranked`: `Spec => []PanelistsGiveWayWhenOutranked`, for any
  number of hosts, shares, webhooks and faults, and any control bars mounted again.

The inductive invariant `OInv` follows the fact that a panelist was outranked from the
stage to what its browser has heard (`StageOutranksPicker`, while the picker is
open), to the snapshot it took (`NotedOutranks`) and to why it stops; a host's share
outranks a panelist's at any time (`HostOutranks`). A mount's empty snapshot only takes
reasons to stop away from a panelist. It gives them to a host: of hosts the statement is
false, in two ways (Known gaps), and no property here claims it.

Only model-checked: `OneShareStays`, `MutedShareEnds` (liveness). Not modelled: the
audio of a share, metadata or a role that changes during a share, two stamps of
the same microsecond, the confirmation a takeover shows.

## 5. Video uploads (`VideoUpload`, `VideoPromise`, `VideoUpload_proofs`)

### State and code

| variable | stands for |
|---|---|
| `saved` | the upload of this file in the browser's localStorage, which its tabs share |
| `pc`, `up`, `done`, `round`, `aborted` | a tab in `uploadVideo`: what it has to ask or send, its upload, the parts it believes sent, the rounds of complete, its abort signal |
| `row`, `old`, `rec` | `video_uploads`, those of more than a day, and the `recordings` made of them |
| `multi`, `parts`, `object` | the bucket (external): multipart uploads, their whole parts, stitched files |
| `req` | the API's requests: what, at which of its steps, for which upload, and the tab that waits |
| `sweep` | where the daily sweep is with each upload it has listed |
| `bad` | whether the file is one the probe refuses; one whose reads fail, as they do once the caller is gone, is refused too |

A handler is a chain of actions through `req[r].at`, one per call to the bucket or
to Postgres: start is `CreateMultipart`, `CreateVideoUpload`; status `LoadUpload`,
`ListUploadedParts`; complete goes on with `CompleteMultipart`, `OpenVideo`, `ProbeVideo` and
`FinishVideoUpload`, or `DeleteFile` and `DeleteVideoUpload` for a file that is refused,
which goes on when its caller has gone; cancel is
`AbortUpload`, `DeleteVideoUpload`. `StepFails`, `StartFails`, `RequestDies` and
`LoseCaller` are a step's error, a start's (with its undo), an instance that goes or
a context that ends, and a connection that drops while the request goes on. `Told`
is what the tab does with each answer. `DeleteVideo` deletes the row of a listed
video, then its file.

### Runs, and their bounds

| run | question | instance and why it is enough |
|---|---|---|
| `upload` | a listed video is whole, the handlers keep `VideoPromise`, space comes free, a try ends | one upload of one part, one tab, two requests at once, every fault and outside event. Two requests are the least for a complete to race a cancel, a delete or a late complete; the tab may be closed and come back, which is what a second tab does one after the other. Two rounds of complete, where the code has three: one that is retried and one that is not |
| `upload_orphan` | see Findings | two tabs, one upload, lost connections only |

The safety properties were also explored with two uploads and every event
(2,414,670 states) without an error; the theorems cover any number.

Fairness: a tab goes on with what it has begun, the API with every request (or the
request dies), days pass, the sweep runs every day, and its abort and its delete
succeed now and then (`SF`: a pass that fails leaves the row for the next).
`SpaceComesFree` rests on the sweep: a tab that is closed leaves its row, and only
age removes it.

### What is proved, and what is not

`UploadTypes`; `ListedIsWhole` (`Spec => []ReadyIsWhole`); and `QuotaIsHeld`: what is
listed and what is arriving never pass the quota (`CreateVideoUpload` counts and
inserts under the host's lock; a recording replaces its row). The inductive
invariant is `SInv == TInv /\ Refs /\ Whole`: an upload being started is known to its
request alone (`Refs`), so nothing else deletes or lists it; an upload is stitched once,
by one complete (`Single`), which has the file as long as the row is there (`HasFile`)
and a good one past the probe (`Checked`); so a file is dropped only by the complete
that stitched it and refuses it, or by a delete whose row is gone (`Deleting`). `QInv` adds the count.

`VideoPromise` is what the host is promised of each upload, without tabs, requests or
the sweep: it arrives, and then is listed once or gone for good; only a file that is
whole and fit is listed; a listed video goes by a delete; a file leaves the bucket only
after its upload or its video is gone, or once its upload is doomed: nothing can list it
any more. A good file is doomed too when a read of its probe fails, or the instance goes
or the answer is an error after the stitch (Known gaps); that it never is, the code does
not promise. The mapping of `UploadKeepsPromise` reads what is shown off the two tables
and what can still finish (`Shown`, `CanFinish`; an upload is absent until its row is
made, and gone when it has neither row), the files off the bucket, and what is unfit
off `bad`. TLC checks it in `upload`; the theorem `UploadImplementsPromise` proves it
for any number of tabs, uploads and requests: under the invariant above, each action is
one step of the promise or a stutter. It says what `ReadyIsWhole` does not: that an
upload which is gone, or doomed, is not listed after all (by a late complete, say), and
that no file is dropped under an upload that may still be listed.

Only model-checked: `SpaceComesFree`, `TriesEnd` (liveness). Not modelled: sizes in
bytes, the presigned addresses of parts (good for an hour; a part whose address
ran out is a part that fails), renaming, keeping and expiry of a video.

## 6. Calls (`Calls`, `CallPromise`, `Calls_proofs`)

### State and code

| variable | stands for |
|---|---|
| `state`, `by`, `added` | the columns of a row of `calls`: its state, its caller, `added_panelist` |
| `clock` | where its 45 seconds are: not up, up by `expiresAt` as clients have it (cut to the second), up by the database |
| `seat`, `invited`, `taken`, `crossed` | the callee's row in `webinar_panelists`; history: the host put them there; the host took them off; two ends have left the seat to each other |
| `ending` | `EndCall`'s transaction on each call while it is open: the statement to come, the end it makes, the calls late by its `now()`, whether it has deleted the seat |
| `start` | a panel's `POST /api/calls` at the API |
| `line`, `mine`, `checked` | what the panel says of the callee, of which call, and whether it has made its one read |
| `shown` | the rings on each of the callee's tabs |
| `mail` | events and answers on their way or lost, a set: they arrive in any order, or never |

A call is placed by `CallSomeone`, `CheckRinging` (`RingingCall`), `CreateCall` (the seat
and the row in one transaction, then the ring), `AnswerStart` or `StartFails`. It ends
by a transaction at READ COMMITTED, a statement at a time: `EndCall` (begin and the
conditional `UPDATE`, which locks the row), `ReleaseCallSeat` (the `DELETE`, which sees
other calls as they are committed, and late or not by the transaction's start), and
`Commit` or `RollBack`; who would delete the same seat, or give it, waits
(`SeatLocked`). It starts from `Press` (the callee's accept or
decline), `HangUp`, `ReadAtEnd` (the caller's read settles what has expired) or
`ExpireCalls` (the sweep). The caller's line changes by its own answers and by
`HearEnd`; the callee's rings by `HearRing`, `StopRinging` and `MeEvents`, a stream that
connects again. A read of `RingingCall` that fails is taken for none
(`CheckRinging`); `ClosePanel` forgets the line;
`AddPanelist` and `RemovePanelist` are the host's own hand.

### Runs, and their bounds

| run | question | instance and why it is enough |
|---|---|---|
| `calls` | the seat lasts as long as its call and goes back after; the panel says how its call ended; the handlers keep `CallPromise` | one panel, one device, two calls, every event. Two calls are the least for one's end to take what another gave, for two ends to cross, and for a late answer or event to be about the call before: the host closes the panel or waits, removes the callee, and calls again while the first call is not settled. Hosts and panels act alike on a call's row; two hosts, one of whom takes the callee off, were explored too, without an error |
| `calls_seat` | see Findings | two hosts, no event lost, no hand on the panel |

No liveness is claimed, because there is none to have: a line whose end event is
lost, and whose one read failed or was answered "ringing", says Ringing for good.
The specification has no fairness.

### What is proved, and what is not

`CallTypes`, `SeatIsHeld`, `SeatIsTakenBack` and `PanelIsTold`: the types and the three
safety properties of `calls`, for any panels, accounts, devices and calls and all
events, and any number of ends at once. Two clauses say where the code's transactions
do less than its comments do. `SeatHeld` is about calls whose time runs: an accept that
began in time and commits after finds its seat gone if another end took the call for
late. `SeatGoesBack` excepts `crossed`: two calls that both gave the seat, ended at once,
each of which sees the other ringing, leave it behind. TLC finds both violated without
the clause (Known gaps). The inductive invariant is `CInv == RowInv /\ CallerInv /\ ShownTypes`.
`RowInv` needs that the news of an end is about a call that ended (`NewsOfEnds`), since
ended states are final; what an open transaction is about (`Underway`); that no other
call lives by the seat that one has deleted (`TookFromNobody`), and that one which leaves
the seat leaves it to somebody (`LeftToSomebody`); `CallerInv` that the call a start answers with, and the one
a line is about, were placed (`StartPlaced`, `MinePlaced`).

`CallPromise` is what calling somebody promises, without the requests, the streams or
the callee's tabs: a call rings, is answered while its time runs (an answer may be
forgotten before it counts), and is decided once and for all, by such an answer or as
missed after its time, and never the other way; its end takes the
seat only if the call gave it, was not accepted, and no other call that gave one rings
in time or was accepted; a panel tells of an end only if it is so, whether the same
step decided the call or an earlier one. The mapping of `CallsKeepPromise` takes the
calls whose time is up from `clock`, what the calls gave from `added`, and what panels
tell from `line` and `mine`. TLC checks it in `calls`, and `CallsImplementPromise`
proves it for any number of everything, from `CInv`: the rows' part of each step is
one of the promise's actions or leaves them (`RowPromise`), and what is told is so by
`PanelSaysSo`. It says what the invariants do not: that an end is final, that an
answer a second late is no answer, and that the seat is never lost but by the host's
hand or the right call's end.

Not modelled: a call without a meeting, which makes an instant one; who may call
whom and how often; pushes to phones and the service worker's notification.

## 7. Findings

Each is a run that ends in a violation, of a property that states what the
repository's own text says. The counterexample is the shortest behaviour.

| run | what the text says | what the code does |
|---|---|---|
| `clip_queue` | "clipMaxUnfinished bounds the clips of one recording waiting or being made at once" (`api/clip_jobs.go:57`) | the count (`410`) and the insert (`457`) are two transactions with no lock between: two requests at once both pass, and the recording has more waiting |
| `box_undone` | `MarkSFUBoxReady` is "safe without the lease" and "can only race with itself" (`store/sfu_box.go:16-19`, `153`) | a step that read the row as booting saves booting over it: LiveKit calls are refused until the next probe succeeds |
| `upload_orphan` | a multipart upload that is gone was "aborted by a lifecycle rule" (`video_upload.go:237`), and from the stitch on "refusing it means deleting it, and forgetting the upload" (`365`) | the stitch ends it too: a status, or a second complete, that comes while the first is at its probe forgets the row, and the first can no longer finish. The video stays in the bucket, with no row and no recording |
| `calls_seat` | "accepted keeps it" (`docs/calling.md:52-53`), "another call still ringing (or one that was answered) holds it" (`store/calls.go:235-236`) | only calls that added the seat hold it: a second call to somebody who had it from the first does not, and the end of the first takes it from the person who accepted the second |

### Known gaps

Behaviours of the code met while modelling, which the models have and no property
of a run is about:

* the object of a clip is written (`clips.go:245`) before the API hears of it (`250`):
  when the maker goes between, the upload answers an error, or the report is lost, and
  the row is deleted meanwhile or never finishes, the object stays with no key for the
  sweep (`0157_clip_jobs.sql:20-22`, `64`);
* a beat renews a clip's lease by id, also for a clip maker that lost the row
  (`store/clip_jobs.go:217`): the clip is rendered twice, and nothing is lost;
* the alert stamp survives a ready that a join marked: the next outage is not
  told (`sfu_box.go:1099-1100`, `store/sfu_box.go:157`); a run whose end is not
  written stays open (`sfu_box.go:624`); the last look at who is on the box is not
  atomic with the delete, though a comment of `boxBusy` reads so;
* two hosts who publish while each other's share is on its way both stop, before any
  mute (`share-lock.ts:97-99` has the server settle it, `108-110` says that only a newer
  host share replaces a host's); a host whose bar is mounted again during a share takes
  every other host's share for a newer one and stops, where `use-share-lock.ts:186-188`
  says that a remount "can only ever keep a host's share" (the snapshot is taken of the
  empty list the hook starts with); a bar mounted again on a muted share leaves it muted;
  `MuteTrack` mutes whatever the loser shares by then; a webhook's error is only
  logged;
* any error of the probe refuses the file, one of a read from the bucket or of a caller
  who has gone among them (`video_upload.go:394-399`): the whole good file that arrived
  and its row are deleted (`365-374`), and the host is told that the video is damaged;
* a 5xx at complete makes the browser forget an upload whose parts all arrived; a
  start that dies between the bucket's create and the insert leaves an open
  multipart upload nobody knows of;
* the caller's one read (`call-someone.tsx:92-102`) may come before the database's
  45 seconds, or fail, or its stale answer overwrite an end already heard; an end
  that overtakes the start's answer is ignored until the read; a ring that
  arrives after its end, or a device that missed the end, rings to the expiry;
* two ends at once of calls that both gave the seat (the host took the callee off the
  panel between them) each see the other ringing and both leave it
  (`store/calls.go:213`, `238`), against `docs/calling.md:52-53`; an accept that commits
  after the call's time is up may find the seat taken by another call's end;
* adding somebody to the panel while a call to them rings leaves no trace
  (`ON CONFLICT DO NOTHING`), so the call's end takes the seat; Call pressed in two
  tabs at once can place two calls; what `calls_seat` shows of two hosts happens with
  one too, when the first call's time is up and not settled yet as the second is placed.

## 8. What is proved, and what cannot be

The six `_proofs` modules are checked by TLAPS to the last leaf, from the named
assumptions on the constants, the hypotheses their theorems state, and nothing
else. Liveness under fairness, and anything about `ENABLED`, is TLC's alone; so
is what a definition recursive over data computes for every input. No module here
has a recursive operator.

| | properties |
|---|---|
| proved, and checked by runs | `TypeOK` of all five; `LeaseIffProcessing`, `TriesLeft`, `ReadyHasFile`, `PromiseKept`; `RowNamesDroplet`, `OneDroplet`, `DeletesUnneeded`, `DeletesUnoccupied` (one fault, or one of two calls that always answers); `SettledRoomHasOneShare`, `PanelistsGiveWayWhenOutranked`; `ReadyIsWhole`, `UploadKeepsPromise`; `SeatHeld`, `SeatGoesBack`, `PanelSaysSo`, `CallsKeepPromise` |
| proved only | the quota of video uploads (`QuotaIsHeld`); no run has two uploads to fill it with; how far create requests at once may pass the limit of unfinished clips (`UnfinishedWithinReach`), and that one at a time they do not; `ReadyIsNotUndone` without joins, where with them a run finds it violated |
| only model-checked | `ClipsSettle`, `DeletedFilesGo`, `WantedComesUp`, `IdleGoesDown`, `OneShareStays`, `MutedShareEnds`, `SpaceComesFree`, `TriesEnd` (liveness) |

What helps when extending the proofs: the SMT backend does badly on records with
Boolean fields, so whether an updated row is a row is a lemma per kind of
update, proved once and cited with Zenon; definitions local to a proof are hidden
before its QED; an expression that must be primed in part (`Doomed(r, cloud)`)
takes the variable as a parameter; an invariant cut along what the steps change
(`RowInv`, `CallerInv`) lets a step cite `UNCHANGED` of a whole part.

## 9. Not modelled, and what would come next

In the order of what it would add:

1. `ClipsOnBox`: the clip queue, the video server and the sessions together. The
   upload outlasts its lease, the demand for the server goes with it
   (`ClipDemand`), and the server is deleted under the upload. It would compose
   `ClipJobs` with an abstract server that is up or not, which `SFUBox` implements.
2. The claim shared by recap, highlights and suggested reels (`claimed_until`):
   claim, save, fail, rewrite; a first writer whose claim ran out saves over a
   later rewrite (`store/clip_jobs.go:354`).
3. `Recordings`: a take from start to ready or failed, its parts, retention and the
   purge queue.
4. The rest of room control: the stage cap, counted in one call and used in
   another, invitations, removal, transfer.
5. The notification, push and WhatsApp outboxes: one claim-and-send module; at most
   once, or at least once, as each promises.
6. The webinar's life cycle with simulive and the tick; lobby and approvals; the
   realtime hub, its dropped subscribers and the client's re-read.

Left out on purpose: votes, one-time tokens and most of the life cycle are single
conditional statements, which hold by the database; the captions box is switched
off; the desktop and mobile apps, the captions agent, the deploy scripts and the
load tests are shells, deployment and measurement; the media pipelines of the web
client (segmentation, mixing, captions) are computation, with no order of events
to get wrong that a model this size would show.
