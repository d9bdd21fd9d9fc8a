-------------------------- MODULE ClipJobs_proofs --------------------------
(***************************************************************************)
(* Theorems about ClipJobs, for any number of clips, clip makers, create   *)
(* requests, tries and late calls, and any choice of faults.               *)
(***************************************************************************)
EXTENDS ClipJobs, FiniteSetTheorems, TLAPS

-----------------------------------------------------------------------------
(* Types.  TypeOK is not inductive: that the job of a call or of a busy clip
   maker is a clip (and not NoJob) has to be carried along. *)

CallsTyped == \A c \in calls : c.kind \notin {"claim", "stale", "pick"} => c.job \in Jobs

MakersTyped == \A w \in Workers : pc[w] \in {"render", "put", "sent"} => job[w] \in Jobs

TInv == TypeOK /\ CallsTyped /\ MakersTyped

LEMMA InitTypes == Init => TInv
<1> SUFFICES ASSUME Init PROVE TInv
    OBVIOUS
<1>1. 0 \in 0 .. MaxAttempts /\ 0 \in 0 .. MaxSessions /\ 0 \in 0 .. MaxFormats
    BY MaxAttemptsAssumption, MaxSessionsAssumption, MaxFormatsAssumption
<1>2. TypeOK
    BY <1>1 DEF Init, TypeOK, Callers, Statuses
<1> QED BY <1>2 DEF Init, TInv, CallsTyped, MakersTyped

(* A row keeps its type whatever is done to it. *)
LEMMA ReleaseTypes ==
    ASSUME TInv, NEW S, NEW st \in Statuses, Release(S, st)
    PROVE  /\ status' \in [Jobs -> Statuses]
           /\ lease' \in [Jobs -> {"none", "held", "out"}]
           /\ rushed' \subseteq Jobs
           /\ born' \in [Jobs -> Nat]
BY DEF Release, TInv, TypeOK, Callers

LEMMA DeleteTypes ==
    ASSUME TInv, NEW S \in SUBSET Jobs, DeleteRows(S)
    PROVE  /\ status' \in [Jobs -> Statuses]
           /\ attempts' \in [Jobs -> 0 .. MaxAttempts]
           /\ lease' \in [Jobs -> {"none", "held", "out"}]
           /\ rushed' \subseteq Jobs
           /\ born' \in [Jobs -> Nat]
           /\ owed' \subseteq Jobs
<1>1. Release(S, "gone") /\ "gone" \in Statuses
    BY DEF DeleteRows, Statuses
<1>2. attempts' \in [Jobs -> 0 .. MaxAttempts]
    BY MaxAttemptsAssumption DEF DeleteRows, TInv, TypeOK
<1>3. owed' \subseteq Jobs
    BY DEF DeleteRows, TInv, TypeOK
<1> QED BY <1>1, <1>2, <1>3, ReleaseTypes

(* The calls a step leaves are calls, with a clip to work on. *)
LEMMA DetachedTypes ==
    ASSUME TInv, NEW w
    PROVE  \A c \in Detached(w) : c \in Calls /\ (c.kind \notin {"claim", "stale", "pick"} => c.job \in Jobs)
BY DEF Detached, Call, TInv, TypeOK, CallsTyped, Calls, Callers

(* The same, for every statement on a row. *)
RowsOK ==
    /\ status \in [Jobs -> Statuses]
    /\ attempts \in [Jobs -> 0 .. MaxAttempts]
    /\ lease \in [Jobs -> {"none", "held", "out"}]
    /\ rushed \subseteq Jobs
    /\ born \in [Jobs -> Nat]

LEMMA StaleTypes ==
    ASSUME TInv, FailStaleClipJobs
    PROVE  RowsOK'
<1>1. Release(Stale, "failed") /\ "failed" \in Statuses
    BY DEF FailStaleClipJobs, Statuses
<1> QED BY <1>1, ReleaseTypes DEF FailStaleClipJobs, RowsOK, TInv, TypeOK

LEMMA RowTypes ==
    ASSUME TInv, NEW j \in Jobs
    PROVE  /\ KeepRows => RowsOK'
           /\ j \in Claimable /\ TakeRow(j) => RowsOK'
           /\ RequeueClipJob(j) => RowsOK'
           /\ ClipJobProgress(j) => RowsOK'
           /\ FinishClipJob(j) => RowsOK'
           /\ \A retry \in BOOLEAN : FailClipJob(j, retry) => RowsOK'
<1> USE MaxAttemptsAssumption
<1>0. KeepRows => RowsOK'
    BY DEF KeepRows, rows, RowsOK, TInv, TypeOK
<1>s. \A st \in Statuses : \A S : Release(S, st) /\ attempts' \in [Jobs -> 0 .. MaxAttempts] => RowsOK'
    BY ReleaseTypes DEF RowsOK
<1>2. ASSUME j \in Claimable, TakeRow(j) PROVE RowsOK'
    <2>1. attempts[j] \in 0 .. MaxAttempts /\ attempts[j] < MaxAttempts
        BY <1>2 DEF Claimable, TInv, TypeOK
    <2>2. attempts[j] + 1 \in 0 .. MaxAttempts
        BY <2>1
    <2> QED BY <1>2, <2>2 DEF TakeRow, RowsOK, TInv, TypeOK, Statuses
<1>3. RequeueClipJob(j) => RowsOK'
    <2>1. (IF attempts[j] > 0 THEN attempts[j] - 1 ELSE 0) \in 0 .. MaxAttempts
        BY DEF TInv, TypeOK
    <2>2. CASE status[j] = "processing"
        BY <1>s, <2>1, <2>2 DEF RequeueClipJob, WhenProcessing, Statuses, TInv, TypeOK
    <2> QED BY <1>0, <2>2 DEF RequeueClipJob, WhenProcessing
<1>4. ClipJobProgress(j) => RowsOK'
    BY <1>0 DEF ClipJobProgress, WhenProcessing, RenewLease, RowsOK, TInv, TypeOK
<1>5. FinishClipJob(j) => RowsOK'
    BY <1>0, <1>s DEF FinishClipJob, WhenProcessing, Statuses, TInv, TypeOK
<1>6. ASSUME NEW retry \in BOOLEAN, FailClipJob(j, retry) PROVE RowsOK'
    BY <1>6, <1>0, <1>s DEF FailClipJob, WhenProcessing, Statuses, TInv, TypeOK
<1> QED BY <1>0, <1>2, <1>3, <1>4, <1>5, <1>6

(* Where an answer sends a clip maker. *)
LEMMA GoesTypes ==
    ASSUME TInv, NEW c \in Calls, NEW p \in {"idle", "render", "put", "report"},
           NEW j \in Jobs \cup {NoJob}, p \in {"render", "put"} => j \in Jobs,
           Goes(c, p, j)
    PROVE  /\ pc' \in [Workers -> {"idle", "claim", "render", "url", "put", "sent", "report"}]
           /\ job' \in [Workers -> Jobs \cup {NoJob}]
           /\ MakersTyped'
<1>1. CASE c.from = Nobody
    BY <1>1 DEF Goes, TInv, TypeOK, MakersTyped
<1>2. CASE c.from # Nobody
    <2>1. c.from \in Workers
        BY <1>2 DEF Calls, Callers
    <2> QED BY <1>2, <2>1 DEF Goes, TInv, TypeOK, MakersTyped
<1> QED BY <1>1, <1>2

(* What is left of a call that fails. *)
LEMMA OnErrorTypes ==
    ASSUME TInv, NEW c \in calls, NEW left \in SUBSET Calls,
           \A d \in left : d.kind \notin {"claim", "stale", "pick"} => d.job \in Jobs,
           OnError(c, left)
    PROVE  /\ pc' \in [Workers -> {"idle", "claim", "render", "url", "put", "sent", "report"}]
           /\ job' \in [Workers -> Jobs \cup {NoJob}]
           /\ MakersTyped'
           /\ calls' \subseteq Calls
           /\ CallsTyped'
<1>c. c \in Calls /\ (c.kind = "url" => c.job \in Jobs)
    BY DEF TInv, TypeOK, CallsTyped
<1>1. CASE c.from # Nobody /\ c.kind = "url"
    <2>1. Goes(c, "report", c.job) /\ calls' = left \cup {Call("fail", c.job, c.from)}
        BY <1>1 DEF OnError
    <2>2. Call("fail", c.job, c.from) \in Calls /\ Call("fail", c.job, c.from).job \in Jobs
        BY <1>1, <1>c DEF Call, Calls, Kinds, ReportKinds
    <2> QED BY <1>c, <1>1, <2>1, <2>2, GoesTypes DEF CallsTyped
<1>2. CASE ~(c.from # Nobody /\ c.kind = "url")
    <2>1. calls' = left /\ (UNCHANGED <<pc, job>> \/ Goes(c, "idle", NoJob))
        BY <1>2 DEF OnError
    <2>2. CASE UNCHANGED <<pc, job>>
        BY <2>1, <2>2 DEF TInv, TypeOK, CallsTyped, MakersTyped
    <2>3. CASE Goes(c, "idle", NoJob)
        BY <1>c, <2>1, <2>3, GoesTypes DEF CallsTyped
    <2> QED BY <2>1, <2>2, <2>3
<1> QED BY <1>1, <1>2

LEMMA HostTypes == TInv /\ HostStep => TInv'
<1> SUFFICES ASSUME TInv, HostStep PROVE TInv'
    OBVIOUS
<1> USE DEF TInv, TypeOK, CallsTyped, MakersTyped
<1>1. ASSUME NEW c \in Creators, NEW n \in 1 .. MaxFormats, CountUnfinished(c, n) PROVE TInv'
    BY <1>1, MaxFormatsAssumption DEF CountUnfinished, rows, storage, makers, world, sweep
<1>2. ASSUME NEW c \in Creators, NEW S \in SUBSET Jobs, InsertClipJobs(c, S) PROVE TInv'
    <2>1. Cardinality(Jobs \ InStatus("new")) \in Nat
        BY JobsAssumption, FS_Difference, FS_CardinalityType
    <2> QED BY <1>2, <2>1, MaxFormatsAssumption DEF InsertClipJobs, Statuses, storage, makers, world, sweep
<1>3. ASSUME NEW c \in Creators, CreateRefused(c) PROVE TInv'
    BY <1>3, MaxFormatsAssumption DEF CreateRefused, rows, storage, makers, world, sweep
<1>4. ASSUME NEW j \in Jobs, OpenDelete(j) PROVE TInv'
    BY <1>4 DEF OpenDelete, rows, storage, makers, world, sweep
<1>5. ASSUME NEW j \in Jobs, DeleteClipJob(j) PROVE TInv'
    <2>1. CASE status[j] = "gone"
        BY <1>5, <2>1 DEF DeleteClipJob, rows, storage, makers, world, sweep
    <2>2. CASE status[j] # "gone"
        <3>1. DeleteRows({j})
            BY <1>5, <2>2 DEF DeleteClipJob
        <3> QED BY <1>5, <3>1, DeleteTypes DEF DeleteClipJob, makers, world, sweep
    <2> QED BY <2>1, <2>2
<1>6. ASSUME NEW j \in Jobs, UnlinkFile(j) \/ ForgetFile(j) \/ DeleteBreaksOff(j) PROVE TInv'
    BY <1>6 DEF UnlinkFile, ForgetFile, DeleteBreaksOff, rows, storage, makers, world, sweep
<1>7. ASSUME DeleteRecording PROVE TInv'
    BY <1>7, DeleteTypes DEF DeleteRecording, makers, sweep
<1>8. ASSUME RushClipJobs PROVE TInv'
    BY <1>8 DEF RushClipJobs, InStatus, storage, makers, world, sweep
<1> QED BY <1>1, <1>2, <1>3, <1>4, <1>5, <1>6, <1>7, <1>8 DEF HostStep

LEMMA WorkerTypes == TInv /\ (\E w \in Workers : WorkerStep(w)) => TInv'
<1> SUFFICES ASSUME TInv, NEW w \in Workers, WorkerStep(w) PROVE TInv'
    OBVIOUS
<1> USE DEF TInv, TypeOK, CallsTyped, MakersTyped
<1>a. \A k \in Kinds, j \in Jobs \cup {NoJob} :
          /\ Call(k, j, w) \in Calls
          /\ Call(k, j, w).kind = k /\ Call(k, j, w).job = j
    BY DEF Call, Calls, Callers
<1>k. {"claim", "beat", "url", "fail", "finish"} \subseteq Kinds
    BY DEF Kinds, ClaimKinds, BeatKinds, ReportKinds
<1>1. CASE Claim(w)
    BY <1>1, <1>a, <1>k DEF Claim, rows, storage, world, sweep
<1>2. CASE Beat(w)
    BY <1>2, <1>a, <1>k DEF Beat, rows, storage, world, sweep
<1>3. ASSUME NEW ok \in BOOLEAN, RenderEnds(w, ok) PROVE TInv'
    BY <1>3, <1>a, <1>k, DetachedTypes DEF RenderEnds, rows, storage, world, sweep
<1>4. CASE Put(w)
    BY <1>4 DEF Put, rows, world, sweep
<1>5. CASE ReportMade(w)
    BY <1>5, <1>a, <1>k DEF ReportMade, rows, storage, world, sweep
<1>6. CASE PutFails(w)
    BY <1>6, <1>a, <1>k DEF PutFails, Unheard, rows, world, sweep
<1>7. CASE Crash(w)
    <2>1. unheard' \subseteq Jobs
        BY <1>7 DEF Crash, Unheard
    <2> QED BY <1>7, <2>1, DetachedTypes DEF Crash, rows, storage, world, sweep
<1> QED BY <1>1, <1>2, <1>3, <1>4, <1>5, <1>6, <1>7 DEF WorkerStep

LEMMA CallTypes ==
    ASSUME TInv, NEW c \in calls, CallTimesOut(c) \/ CallFails(c)
    PROVE  TInv'
<1> DEFINE d == Call(c.kind, c.job, Nobody)
<1>1. /\ calls \ {c} \in SUBSET Calls
      /\ \A e \in calls \ {c} : e.kind \notin {"claim", "stale", "pick"} => e.job \in Jobs
    BY DEF TInv, TypeOK, CallsTyped
<1>2. d \in Calls /\ (d.kind \notin {"claim", "stale", "pick"} => d.job \in Jobs)
    BY DEF Call, Calls, Callers, TInv, TypeOK, CallsTyped
<1>3. CASE CallTimesOut(c)
    <2>1. OnError(c, (calls \ {c}) \cup {d})
        BY <1>3 DEF CallTimesOut
    <2> HIDE DEF d
    <2>2. (calls \ {c}) \cup {d} \in SUBSET Calls
        BY <1>1, <1>2
    <2>3. \A e \in (calls \ {c}) \cup {d} : e.kind \notin {"claim", "stale", "pick"} => e.job \in Jobs
        BY <1>1, <1>2
    <2>4. TypeOK' /\ CallsTyped' /\ MakersTyped'
        BY <1>3, <2>1, <2>2, <2>3, OnErrorTypes DEF CallTimesOut, TInv, TypeOK, rows, storage, world, sweep
    <2> QED BY <2>4 DEF TInv
<1>4. CASE CallFails(c)
    <2>1. OnError(c, calls \ {c})
        BY <1>4 DEF CallFails
    <2>u. unheard' \subseteq Jobs
        BY <1>4 DEF CallFails, Unheard, TInv, TypeOK, CallsTyped
    <2>2. TypeOK' /\ CallsTyped' /\ MakersTyped'
        BY <1>1, <1>4, <2>1, <2>u, OnErrorTypes DEF CallFails, TInv, TypeOK, rows, storage, world, sweep
    <2> QED BY <2>2 DEF TInv
<1> QED BY <1>3, <1>4

LEMMA ApiTypes ==
    ASSUME TInv, NEW c \in calls, ApiStep(c)
    PROVE  TInv'
<1> DEFINE makersOK == /\ pc' \in [Workers -> {"idle", "claim", "render", "url", "put", "sent", "report"}]
                      /\ job' \in [Workers -> Jobs \cup {NoJob}]
                      /\ calls' \subseteq Calls
                      /\ CallsTyped' /\ MakersTyped'
                      /\ unheard' \subseteq Jobs
           storageOK == blob' \subseteq Jobs /\ owed' \subseteq Jobs
<1>c. c \in Calls /\ c.from \in Callers /\ c.kind \in Kinds /\ c.job \in Jobs \cup {NoJob}
    BY DEF TInv, TypeOK, Calls
<1>j. c.kind \notin {"claim", "stale", "pick"} => c.job \in Jobs
    BY DEF TInv, CallsTyped
<1>r. UNCHANGED rows => RowsOK'
    BY DEF rows, RowsOK, TInv, TypeOK
<1>s. UNCHANGED storage => storageOK
    BY DEF storage, TInv, TypeOK
<1>a. ASSUME NEW p \in {"idle", "render", "put", "report"}, NEW j \in Jobs \cup {NoJob},
             p \in {"render", "put"} => j \in Jobs, Answer(c, p, j),
             unheard' \subseteq Jobs
      PROVE  makersOK
    <2>1. Goes(c, p, j) /\ calls' = calls \ {c}
        BY <1>a DEF Answer
    <2> QED BY <1>a, <1>c, <2>1, GoesTypes DEF TInv, TypeOK, CallsTyped
<1>k. ASSUME NEW k \in Kinds, NEW j \in Jobs \cup {NoJob},
             k \notin {"claim", "stale", "pick"} => j \in Jobs,
             Continue(c, k, j), UNCHANGED <<pc, job>>, unheard' \subseteq Jobs
      PROVE  makersOK
    <2>1. Call(k, j, c.from) \in Calls /\ Call(k, j, c.from).kind = k /\ Call(k, j, c.from).job = j
        BY <1>k, <1>c DEF Call, Calls
    <2> QED BY <1>k, <2>1 DEF Continue, TInv, TypeOK, CallsTyped, MakersTyped
<1>q. {"stale", "pick", "vet", "requeue", "renew", "verify"} \subseteq Kinds
    BY DEF Kinds, ClaimKinds, BeatKinds, ReportKinds
<1>h. unheard' \subseteq Jobs
    BY <1>j DEF ApiStep, CompleteVerifies, Unheard, TInv, TypeOK
<1> SUFFICES RowsOK' /\ storageOK /\ makersOK
    BY DEF ApiStep, RowsOK, TInv, TypeOK, world, sweep
<1>1. CASE ClaimHeldBack(c)
    BY <1>1, <1>a, <1>h, <1>k, <1>q, <1>r, <1>s DEF ClaimHeldBack
<1>2. CASE ClaimFailsStale(c)
    BY <1>2, <1>k, <1>h, <1>q, <1>s, StaleTypes DEF ClaimFailsStale
<1>3. CASE ClaimPicks(c)
    BY <1>3, <1>a, <1>h, <1>c, <1>k, <1>q, <1>r, <1>s, RowTypes DEF ClaimPicks, NextInLine, Claimable
<1>4. CASE ClaimVets(c)
    BY <1>4, <1>a, <1>h, <1>j, <1>k, <1>q, <1>r, <1>s, RowTypes DEF ClaimVets
<1>5. CASE BeatHeldBack(c)
    BY <1>5, <1>j, <1>k, <1>h, <1>q, <1>r, <1>s DEF BeatHeldBack
<1>6. CASE BeatRequeues(c)
    BY <1>6, <1>a, <1>h, <1>j, <1>s, RowTypes DEF BeatRequeues
<1>7. CASE BeatRenews(c)
    <2>1. RowsOK' /\ storageOK
        BY <1>7, <1>j, <1>s, RowTypes DEF BeatRenews
    <2>2. makersOK
        BY <1>7, <1>a, <1>h DEF BeatRenews, TInv, TypeOK, CallsTyped, MakersTyped
    <2> QED BY <2>1, <2>2
<1>8. CASE UploadURL(c)
    <2>1. CASE status[c.job] = "processing"
        BY <1>8, <2>1, <1>a, <1>h, <1>j, <1>r, <1>s DEF UploadURL
    <2>2. CASE status[c.job] # "processing"
        <3>1. OnError(c, calls \ {c})
            BY <1>8, <2>2 DEF UploadURL
        <3>2. /\ calls \ {c} \in SUBSET Calls
              /\ \A e \in calls \ {c} : e.kind \notin {"claim", "stale", "pick"} => e.job \in Jobs
            BY DEF TInv, TypeOK, CallsTyped
        <3> QED BY <1>8, <1>h, <1>r, <1>s, <3>1, <3>2, OnErrorTypes DEF UploadURL
    <2> QED BY <2>1, <2>2
<1>9. CASE CompleteFinishes(c)
    BY <1>9, <1>a, <1>h, <1>j, <1>k, <1>q, <1>s, RowTypes DEF CompleteFinishes
<1>10. CASE CompleteVerifies(c)
    BY <1>10, <1>a, <1>h, <1>r DEF CompleteVerifies, TInv, TypeOK
<1>11. CASE CompleteFails(c)
    BY <1>11, <1>a, <1>h, <1>j, <1>s, RowTypes DEF CompleteFails
<1> QED
    BY <1>1, <1>2, <1>3, <1>4, <1>5, <1>6, <1>7, <1>8, <1>9, <1>10, <1>11 DEF ApiStep

LEMMA SweepTypes == TInv /\ SweepStep => TInv'
<1> SUFFICES ASSUME TInv, SweepStep PROVE TInv'
    OBVIOUS
<1>1. CASE SweepFailsStale
    <2>1. RowsOK'
        BY <1>1, StaleTypes DEF SweepFailsStale
    <2> QED BY <1>1, <2>1 DEF SweepFailsStale, RowsOK, TInv, TypeOK, CallsTyped, MakersTyped,
                             storage, makers, world, sweep
<1>2. CASE SweepLists \/ SweepForgets \/ SweepDies
    BY <1>2 DEF SweepLists, SweepForgets, SweepDies, TInv, TypeOK, CallsTyped, MakersTyped,
                rows, storage, makers, world
<1>3. ASSUME NEW j \in Jobs, SweepDeletes(j) \/ SweepSkips(j) PROVE TInv'
    BY <1>3 DEF SweepDeletes, SweepSkips, TInv, TypeOK, CallsTyped, MakersTyped,
                rows, storage, makers, world
<1> QED BY <1>1, <1>2, <1>3 DEF SweepStep

LEMMA WorldTypes == TInv /\ WorldStep => TInv'
<1> SUFFICES ASSUME TInv, WorldStep PROVE TInv'
    OBVIOUS
<1> USE DEF TInv, TypeOK, CallsTyped, MakersTyped
<1>1. ASSUME NEW j \in Jobs, LeaseRunsOut(j) \/ RushRunsOut(j) PROVE TInv'
    BY <1>1 DEF LeaseRunsOut, RushRunsOut, storage, makers, world, sweep
<1>2. CASE GoLive
    <2>1. sessions + 1 \in 0 .. MaxSessions
        BY <1>2, MaxSessionsAssumption DEF GoLive
    <2> QED BY <1>2, <2>1 DEF GoLive, rows, storage, makers, sweep
<1>3. CASE EndLive \/ SourceBreaks
    BY <1>3 DEF EndLive, SourceBreaks, rows, storage, makers, sweep
<1> QED BY <1>1, <1>2, <1>3 DEF WorldStep

LEMMA StepTypes == TInv /\ [Next]_vars => TInv'
<1> SUFFICES ASSUME TInv, [Next]_vars PROVE TInv'
    OBVIOUS
<1>1. CASE UNCHANGED vars
    BY <1>1 DEF vars, rows, storage, makers, world, sweep, TInv, TypeOK, CallsTyped, MakersTyped
<1>2. CASE Next
    BY <1>2, HostTypes, WorkerTypes, ApiTypes, CallTypes, SweepTypes, WorldTypes DEF Next
<1> QED BY <1>1, <1>2

(* Every variable keeps its type (clip_jobs' CHECK constraints, and no more
   than clipMaxAttempts tries are ever counted on a row). *)
THEOREM TypesHold == Spec => []TypeOK
<1>1. TInv => TypeOK
    BY DEF TInv
<1> QED BY <1>1, InitTypes, StepTypes, PTL DEF Spec

-----------------------------------------------------------------------------
(* Rows.  Whatever the API, the hosts and the clip makers do, a step changes
   the rows by one of a few statements. *)

RowStep ==
    \/ UNCHANGED <<status, attempts, lease>>
    \/ \E c \in Creators, S \in SUBSET Jobs : InsertClipJobs(c, S)
    \/ \E j \in Jobs : DeleteClipJob(j) /\ DeleteRows({j})
    \/ DeleteRecording
    \/ FailStaleClipJobs
    \/ \E j \in Claimable : TakeRow(j)
    \/ \E j \in Jobs : RequeueClipJob(j) \/ ClipJobProgress(j) \/ LeaseRunsOut(j)
    \/ \E j \in Jobs, retry \in BOOLEAN : FailClipJob(j, retry)
    \/ \E c \in calls : CompleteFinishes(c)

LEMMA RowSteps == TInv /\ [Next]_vars => RowStep
<1> SUFFICES ASSUME TInv, [Next]_vars PROVE RowStep
    OBVIOUS
<1>1. CASE UNCHANGED rows
    BY <1>1 DEF rows, RowStep
<1>2. CASE HostStep
    <2>1. ASSUME NEW j \in Jobs, DeleteClipJob(j) PROVE RowStep
        <3>1. CASE status[j] = "gone"
            BY <1>1, <2>1, <3>1 DEF DeleteClipJob
        <3>2. CASE status[j] # "gone"
            BY <2>1, <3>2 DEF DeleteClipJob, RowStep
        <3> QED BY <3>1, <3>2
    <2> QED
        BY <1>1, <1>2, <2>1
        DEF HostStep, CountUnfinished, CreateRefused, OpenDelete, UnlinkFile, ForgetFile,
            DeleteBreaksOff, RushClipJobs, RowStep, rows
<1>3. CASE \E w \in Workers : WorkerStep(w)
    BY <1>1, <1>3 DEF WorkerStep, Claim, Beat, RenderEnds, Put, ReportMade, PutFails, Crash
<1>4. CASE \E c \in calls : CallTimesOut(c) \/ CallFails(c)
    BY <1>1, <1>4 DEF CallTimesOut, CallFails
<1>5. ASSUME NEW c \in calls, ApiStep(c) PROVE RowStep
    <2>j. c.kind \notin {"claim", "stale", "pick"} => c.job \in Jobs
        BY DEF TInv, CallsTyped
    <2>f. c.from \in Callers
        BY DEF TInv, TypeOK, Calls
    <2>1. CASE ClaimPicks(c)
        BY <1>1, <2>1, <2>f DEF ClaimPicks, NextInLine, RowStep
    <2>2. CASE BeatRequeues(c) \/ BeatRenews(c) \/ CompleteFails(c)
        BY <1>1, <2>2, <2>j DEF BeatRequeues, BeatRenews, CompleteFails, RowStep
    <2>3. CASE ClaimVets(c)
        <3>1. c.job \in Jobs /\ (FailClipJob(c.job, FALSE) \/ UNCHANGED rows)
            BY <2>3, <2>j DEF ClaimVets, KeepRows
        <3> QED BY <1>1, <3>1 DEF RowStep
    <2> QED
        BY <1>1, <1>5, <2>1, <2>2, <2>3
        DEF ApiStep, ClaimHeldBack, ClaimFailsStale, BeatHeldBack, UploadURL, CompleteVerifies, RowStep
<1>6. CASE SweepStep
    BY <1>1, <1>6 DEF SweepStep, SweepFailsStale, SweepLists, SweepForgets, SweepDies,
                      SweepDeletes, SweepSkips, RowStep
<1>7. CASE WorldStep
    BY <1>1, <1>7 DEF WorldStep, RushRunsOut, GoLive, EndLive, SourceBreaks, RowStep
<1>8. CASE UNCHANGED vars
    BY <1>1, <1>8 DEF vars
<1> QED BY <1>2, <1>3, <1>4, <1>5, <1>6, <1>7, <1>8 DEF Next

(* A row is inserted with no try counted (the column's default). *)
NewRowsUntried == \A j \in Jobs : status[j] = "new" => attempts[j] = 0

RowInv == LeaseIffProcessing /\ TriesLeft /\ NewRowsUntried

LEMMA InitRows == Init => RowInv
BY DEF Init, RowInv, LeaseIffProcessing, TriesLeft, NewRowsUntried

LEMMA StepRows == TInv /\ RowInv /\ RowStep => RowInv'
<1> SUFFICES ASSUME TInv, RowInv, RowStep PROVE RowInv'
    OBVIOUS
<1> USE MaxAttemptsAssumption
    DEF RowInv, LeaseIffProcessing, TriesLeft, NewRowsUntried, TInv, TypeOK
<1>1. CASE UNCHANGED <<status, attempts, lease>>
    BY <1>1
<1>2. ASSUME NEW c \in Creators, NEW S \in SUBSET Jobs, InsertClipJobs(c, S) PROVE RowInv'
    <2>1. \A j \in S : status[j] = "new"
        BY <1>2 DEF InsertClipJobs, InStatus
    <2> QED BY <1>2, <2>1 DEF InsertClipJobs
<1>3. ASSUME NEW S \in SUBSET Jobs, DeleteRows(S) PROVE RowInv'
    BY <1>3 DEF DeleteRows, Release
<1>4. CASE FailStaleClipJobs
    BY <1>4 DEF FailStaleClipJobs, Release
<1>5. ASSUME NEW j \in Claimable, TakeRow(j) PROVE RowInv'
    BY <1>5 DEF TakeRow, Claimable
<1>6. ASSUME NEW j \in Jobs, RequeueClipJob(j) PROVE RowInv'
    BY <1>6 DEF RequeueClipJob, WhenProcessing, KeepRows, rows, Release
<1>7. ASSUME NEW j \in Jobs, ClipJobProgress(j) \/ LeaseRunsOut(j) PROVE RowInv'
    BY <1>7 DEF ClipJobProgress, LeaseRunsOut, RenewLease, WhenProcessing, KeepRows, rows
<1>8. ASSUME NEW j \in Jobs, NEW retry \in BOOLEAN, FailClipJob(j, retry) PROVE RowInv'
    BY <1>8 DEF FailClipJob, WhenProcessing, KeepRows, rows, Release
<1>9. ASSUME NEW c \in calls, CompleteFinishes(c) PROVE RowInv'
    BY <1>9 DEF CompleteFinishes, FinishClipJob, WhenProcessing, KeepRows, rows, Release
<1>10. DeleteRecording => RowInv'
    BY <1>3 DEF DeleteRecording
<1> QED BY <1>1, <1>2, <1>3, <1>4, <1>5, <1>6, <1>7, <1>8, <1>9, <1>10 DEF RowStep

(* No row is processing without a lease, and no queued row is out of tries:
   every unfinished row can be claimed or failed (ClaimClipJob,
   FailStaleClipJobs, RequeueClipJob, FailClipJob). *)
THEOREM NoRowIsStuck == Spec => [](LeaseIffProcessing /\ TriesLeft)
<1>1. TInv /\ RowInv /\ [Next]_vars => TInv' /\ RowInv'
    BY StepTypes, RowSteps, StepRows
<1>2. TInv /\ RowInv => LeaseIffProcessing /\ TriesLeft
    BY DEF RowInv
<1> QED BY <1>1, <1>2, InitTypes, InitRows, PTL DEF Spec

(* A row has a lease exactly while it is being processed, so an instance   *)
(* that goes cannot leave a row that nobody may claim (store/clip_jobs.go).*)
THEOREM ProcessingIsLeased == Spec => []LeaseIffProcessing
BY NoRowIsStuck, PTL

-----------------------------------------------------------------------------
(* Files.  A file is taken out of storage by four hands; each of them only
   ever holds the key of a row that is gone, and a row that is gone does not
   come back.  A finish is only reported of a file that was written. *)

KeysOfGone ==
    /\ owed \cup listed \cup cleared \subseteq InStatus("gone")
    /\ \A j \in Jobs : deleting[j] \in {"unlink", "forget"} => status[j] = "gone"

FinishedWasPut ==
    /\ \A c \in calls : c.kind = "finish" => c.job \in blob \cup InStatus("gone")
    /\ \A w \in Workers : pc[w] = "sent" => job[w] \in blob \cup InStatus("gone")

(* Nobody works on, or deletes, a row that was never inserted. *)
WorkOnRows ==
    /\ \A c \in calls : c.kind \notin {"claim", "stale", "pick"} => status[c.job] # "new"
    /\ \A w \in Workers : pc[w] \in {"render", "put", "sent"} => status[job[w]] # "new"
    /\ \A j \in Jobs : deleting[j] # "no" => status[j] # "new"

FileInv == KeysOfGone /\ FinishedWasPut /\ WorkOnRows /\ ReadyHasFile

LEMMA InitFiles == Init => FileInv
BY DEF Init, FileInv, KeysOfGone, FinishedWasPut, WorkOnRows, ReadyHasFile, InStatus

(* What a step may do to the status of a row. *)
LEMMA StatusMoves ==
    ASSUME TInv, RowStep, NEW j \in Jobs
    PROVE  /\ status[j] = "gone" => status'[j] \in {"gone"}
           /\ status[j] # "new" => status'[j] # "new"
           /\ status'[j] = "ready" => \/ status[j] = "ready"
                                     \/ \E c \in calls : c.kind = "finish" /\ c.job = j
<1> USE DEF TInv, TypeOK
<1>1. CASE UNCHANGED <<status, attempts, lease>>
    BY <1>1
<1>2. ASSUME NEW c \in Creators, NEW S \in SUBSET Jobs, InsertClipJobs(c, S)
      PROVE  status'[j] = status[j] \/ (status[j] = "new" /\ status'[j] = "queued")
    BY <1>2 DEF InsertClipJobs, InStatus
<1>3. ASSUME NEW S \in SUBSET Jobs, DeleteRows(S) PROVE status'[j] \in {status[j], "gone"}
    BY <1>3 DEF DeleteRows, Release
<1>4. CASE FailStaleClipJobs
    BY <1>4 DEF FailStaleClipJobs, Release, Stale, InStatus
<1>5. ASSUME NEW i \in Claimable, TakeRow(i)
      PROVE  status'[j] = status[j] \/ (status[j] \in {"queued", "processing"} /\ status'[j] = "processing")
    BY <1>5 DEF TakeRow, Claimable
<1>6. ASSUME NEW i \in Jobs, RequeueClipJob(i)
      PROVE  status'[j] = status[j] \/ (status[j] = "processing" /\ status'[j] = "queued")
    BY <1>6 DEF RequeueClipJob, WhenProcessing, KeepRows, rows, Release
<1>7. ASSUME NEW i \in Jobs, ClipJobProgress(i) \/ LeaseRunsOut(i) PROVE status' = status
    BY <1>7 DEF ClipJobProgress, LeaseRunsOut, RenewLease, WhenProcessing, KeepRows, rows
<1>8. ASSUME NEW i \in Jobs, NEW retry \in BOOLEAN, FailClipJob(i, retry)
      PROVE  status'[j] = status[j] \/ (status[j] = "processing" /\ status'[j] \in {"queued", "failed"})
    BY <1>8 DEF FailClipJob, WhenProcessing, KeepRows, rows, Release
<1>9. ASSUME NEW c \in calls, CompleteFinishes(c)
      PROVE  \/ status'[j] = status[j]
             \/ c.kind = "finish" /\ c.job = j /\ status[j] = "processing" /\ status'[j] = "ready"
    BY <1>9 DEF CompleteFinishes, FinishClipJob, WhenProcessing, KeepRows, rows, Release
<1> QED BY <1>1, <1>2, <1>3, <1>4, <1>5, <1>6, <1>7, <1>8, <1>9 DEF RowStep, DeleteRecording

(* What a step may do to the keys promised for deletion, to the files, and to
   the reports of finished clips. *)
FileMoves ==
    /\ owed' \cup listed' \cup cleared' \subseteq
           owed \cup listed \cup cleared \cup {j \in Jobs : status'[j] = "gone"}
    /\ \A j \in Jobs : deleting'[j] \in {"unlink", "forget"} =>
           deleting[j] \in {"unlink", "forget"} \/ status'[j] = "gone"
    /\ \A j \in blob : j \in blob' \/ status[j] = "gone"
    /\ \A c \in calls' : c.kind = "finish" =>
           \/ c.job \in blob'
           \/ \E d \in calls : d.kind = "finish" /\ d.job = c.job
           \/ \E w \in Workers : pc[w] = "sent" /\ job[w] = c.job
    /\ \A w \in Workers : pc'[w] = "sent" =>
           job'[w] \in blob' \/ (pc[w] = "sent" /\ job'[w] = job[w])
    /\ \A c \in calls' : c.kind \notin {"claim", "stale", "pick"} => status'[c.job] # "new"
    /\ \A w \in Workers : pc'[w] \in {"render", "put", "sent"} => status'[job'[w]] # "new"
    /\ \A j \in Jobs : deleting'[j] # "no" => status'[j] # "new"

LEMMA StepFromMoves ==
    ASSUME TInv, TInv', FileInv, RowStep, FileMoves
    PROVE  FileInv'
<1>1. \A j \in Jobs : status[j] = "gone" => status'[j] = "gone"
    BY StatusMoves
<1>2. KeysOfGone'
    BY <1>1 DEF FileMoves, FileInv, KeysOfGone, InStatus, TInv, TypeOK
<1>3. FinishedWasPut'
    <2>0. ASSUME NEW j \in blob \cup InStatus("gone"), j \in Jobs, j \notin blob'
          PROVE  j \in InStatus("gone")'
        BY <1>1, <2>0 DEF FileMoves, InStatus
    <2>1. ASSUME NEW c \in calls', c.kind = "finish", c.job \notin blob'
          PROVE  c.job \in InStatus("gone")'
        <3>1. CASE \E d \in calls : d.kind = "finish" /\ d.job = c.job
            BY <2>0, <2>1, <3>1 DEF FileInv, FinishedWasPut, TInv, CallsTyped
        <3>2. CASE \E w \in Workers : pc[w] = "sent" /\ job[w] = c.job
            BY <2>0, <2>1, <3>2 DEF FileInv, FinishedWasPut, TInv, MakersTyped
        <3> QED BY <2>1, <3>1, <3>2 DEF FileMoves
    <2>2. ASSUME NEW w \in Workers, pc'[w] = "sent", job'[w] \notin blob'
          PROVE  job'[w] \in InStatus("gone")'
        BY <2>0, <2>2 DEF FileMoves, FileInv, FinishedWasPut, TInv, MakersTyped
    <2> QED BY <2>1, <2>2 DEF FinishedWasPut
<1>4. ReadyHasFile'
    <2> SUFFICES ASSUME NEW j \in Jobs, status'[j] = "ready" PROVE j \in blob'
        BY DEF ReadyHasFile, InStatus
    <2>1. status[j] # "gone"
        BY <1>1
    <2>2. j \in blob
        BY <2>1, StatusMoves DEF FileInv, ReadyHasFile, FinishedWasPut, InStatus
    <2> QED BY <2>1, <2>2 DEF FileMoves
<1>5. WorkOnRows'
    BY DEF WorkOnRows, FileMoves
<1> QED BY <1>2, <1>3, <1>4, <1>5 DEF FileInv

LEMMA DeleteMoves ==
    ASSUME TInv, NEW S \in SUBSET Jobs, DeleteRows(S)
    PROVE  owed' \subseteq owed \cup {j \in Jobs : status'[j] = "gone"}
BY DEF DeleteRows, Release

LEMMA StepMoves ==
    ASSUME TInv, FileInv, RowStep, [Next]_vars
    PROVE  FileMoves
<1> DEFINE Stay(j) == status[j] # "new" => status'[j] # "new"
<1>n. \A j \in Jobs : Stay(j)
    BY StatusMoves
<1>w. /\ \A c \in calls : c.kind \notin {"claim", "stale", "pick"} => c.job \in Jobs /\ status'[c.job] # "new"
      /\ \A w \in Workers : pc[w] \in {"render", "put", "sent"} => job[w] \in Jobs /\ status'[job[w]] # "new"
      /\ \A j \in Jobs : deleting[j] # "no" => status'[j] # "new"
    BY <1>n DEF FileInv, WorkOnRows, TInv, CallsTyped, MakersTyped
<1>1. CASE UNCHANGED <<storage, makers, sweep, deleting>>
    BY <1>1, <1>w DEF FileMoves, storage, makers, sweep
<1>2. CASE HostStep
    <2>1. ASSUME NEW j \in Jobs, OpenDelete(j) PROVE FileMoves
        BY <2>1, <1>w DEF OpenDelete, FileMoves, rows, storage, makers, sweep, TInv, TypeOK
    <2>2. ASSUME NEW j \in Jobs, DeleteClipJob(j) PROVE FileMoves
        <3>1. CASE status[j] = "gone"
            BY <1>w, <2>2, <3>1 DEF DeleteClipJob, FileMoves, rows, makers, sweep, TInv, TypeOK
        <3>2. CASE status[j] # "gone"
            <4>1. DeleteRows({j})
                BY <2>2, <3>2 DEF DeleteClipJob
            <4>2. status'[j] = "gone"
                BY <4>1 DEF DeleteRows, Release
            <4>3. owed' \subseteq owed \cup {i \in Jobs : status'[i] = "gone"}
                BY <4>1, DeleteMoves
            <4> QED BY <1>w, <2>2, <3>2, <4>2, <4>3 DEF DeleteClipJob, FileMoves, makers, sweep, TInv, TypeOK
        <3> QED BY <3>1, <3>2
    <2>3. ASSUME NEW j \in Jobs, UnlinkFile(j) PROVE FileMoves
        <3>1. status[j] = "gone" /\ status' = status
            BY <2>3 DEF UnlinkFile, FileInv, KeysOfGone, rows
        <3> QED BY <1>w, <2>3, <3>1 DEF UnlinkFile, FileMoves, makers, sweep, TInv, TypeOK
    <2>4. ASSUME NEW j \in Jobs, ForgetFile(j) \/ DeleteBreaksOff(j) PROVE FileMoves
        BY <1>w, <2>4 DEF ForgetFile, DeleteBreaksOff, FileMoves, storage, makers, sweep, TInv, TypeOK
    <2>5. CASE DeleteRecording
        <3>1. owed' \subseteq owed \cup {i \in Jobs : status'[i] = "gone"}
            BY <2>5, DeleteMoves DEF DeleteRecording
        <3> QED BY <1>w, <2>5, <3>1 DEF DeleteRecording, FileMoves, makers, sweep
    <2> QED BY <1>1, <1>2, <2>1, <2>2, <2>3, <2>4, <2>5
            DEF HostStep, CountUnfinished, InsertClipJobs, CreateRefused, RushClipJobs
<1>3. ASSUME NEW w \in Workers, WorkerStep(w) PROVE FileMoves
    <2>1. CASE Claim(w) \/ Beat(w)
        BY <1>w, <2>1 DEF Claim, Beat, Call, FileMoves, storage, sweep, TInv, TypeOK
    <2>2. ASSUME NEW ok \in BOOLEAN, RenderEnds(w, ok) PROVE FileMoves
        BY <1>w, <2>2 DEF RenderEnds, Detached, Call, FileMoves, storage, sweep, TInv, TypeOK
    <2>3. CASE Put(w)
        BY <1>w, <2>3 DEF Put, FileMoves, sweep, TInv, TypeOK
    <2>6. CASE ReportMade(w)
        BY <1>w, <2>6 DEF ReportMade, Call, FileMoves, storage, sweep, TInv, TypeOK
    <2>4. CASE PutFails(w)
        BY <1>w, <2>4 DEF PutFails, Call, FileMoves, sweep, TInv, TypeOK
    <2>5. CASE Crash(w)
        BY <1>w, <2>5 DEF Crash, Detached, Call, FileMoves, storage, sweep, TInv, TypeOK
    <2> QED BY <1>3, <2>1, <2>2, <2>3, <2>4, <2>5, <2>6 DEF WorkerStep
<1>4. ASSUME NEW c \in calls, CallTimesOut(c) \/ CallFails(c) PROVE FileMoves
    BY <1>4, <1>w DEF CallTimesOut, CallFails, OnError, Goes, Call, FileMoves, storage, sweep, TInv, TypeOK
<1>5. ASSUME NEW c \in calls, ApiStep(c) PROVE FileMoves
    <2> USE DEF Answer, Continue, Goes, Call, FileMoves, sweep, TInv, TypeOK
    <2>u. UNCHANGED <<sweep, deleting>>
        BY <1>5 DEF ApiStep
    <2>1. CASE ClaimHeldBack(c) \/ ClaimFailsStale(c)
        BY <1>w, <2>1, <2>u DEF ClaimHeldBack, ClaimFailsStale, storage
    <2>2. CASE ClaimPicks(c)
        <3>1. ASSUME NEW j \in NextInLine, TakeRow(j) PROVE status'[j] = "processing"
            BY <3>1 DEF TakeRow, NextInLine, Claimable
        <3> QED BY <1>w, <2>2, <2>u, <3>1 DEF ClaimPicks, NextInLine, Claimable, storage
    <2>3. CASE ClaimVets(c)
        <3>1. CASE source = "ready"
            <4>1. c.job \in Jobs /\ status'[c.job] # "new" /\ (c.from = Nobody \/ c.from \in Workers)
                BY <1>w, <2>3 DEF ClaimVets, Calls, Callers
            <4> QED BY <1>w, <2>3, <2>u, <3>1, <4>1 DEF ClaimVets, storage
        <3>2. CASE source # "ready"
            BY <1>w, <2>3, <2>u, <3>2 DEF ClaimVets, storage
        <3> QED BY <3>1, <3>2
    <2>8. CASE BeatHeldBack(c)
        BY <1>w, <2>8, <2>u DEF BeatHeldBack, storage
    <2>9. CASE BeatRequeues(c)
        BY <1>w, <2>9, <2>u DEF BeatRequeues, storage
    <2>4. CASE BeatRenews(c)
        BY <1>w, <2>4, <2>u DEF BeatRenews, storage
    <2>5. CASE UploadURL(c)
        BY <1>w, <2>5, <2>u DEF UploadURL, OnError, storage
    <2>6. CASE CompleteFinishes(c)
        BY <1>w, <2>6, <2>u DEF CompleteFinishes, storage
    <2>10. CASE CompleteFails(c)
        BY <1>w, <2>10, <2>u DEF CompleteFails, storage
    <2>7. CASE CompleteVerifies(c)
        BY <1>w, <2>7, <2>u DEF CompleteVerifies
    <2> QED BY <1>5, <2>1, <2>2, <2>3, <2>4, <2>5, <2>6, <2>7, <2>8, <2>9, <2>10 DEF ApiStep
<1>6. CASE SweepStep
    <2>1. CASE SweepLists \/ SweepForgets \/ SweepDies
        BY <1>w, <2>1 DEF SweepLists, SweepForgets, SweepDies, FileMoves, storage, makers
    <2>2. ASSUME NEW j \in Jobs, SweepDeletes(j) PROVE FileMoves
        <3>1. status[j] = "gone"
            BY <2>2 DEF SweepDeletes, FileInv, KeysOfGone, InStatus
        <3> QED BY <1>w, <2>2, <3>1 DEF SweepDeletes, FileMoves, makers
    <2>3. ASSUME NEW j \in Jobs, SweepSkips(j) PROVE FileMoves
        BY <1>w, <2>3 DEF SweepSkips, FileMoves, storage, makers
    <2> QED BY <1>1, <1>6, <2>1, <2>2, <2>3 DEF SweepStep, SweepFailsStale
<1>7. CASE WorldStep
    BY <1>1, <1>7 DEF WorldStep, LeaseRunsOut, RushRunsOut, GoLive, EndLive, SourceBreaks
<1>8. CASE UNCHANGED vars
    BY <1>1, <1>8 DEF vars
<1> QED BY <1>2, <1>3, <1>4, <1>5, <1>6, <1>7, <1>8 DEF Next

FullInv == TInv /\ RowInv /\ FileInv

LEMMA InitFull == Init => FullInv
BY InitTypes, InitRows, InitFiles DEF FullInv

LEMMA StepFull == FullInv /\ [Next]_vars => FullInv'
<1> SUFFICES ASSUME FullInv, [Next]_vars PROVE FullInv'
    OBVIOUS
<1>1. TInv' /\ RowStep
    BY StepTypes, RowSteps DEF FullInv
<1>2. RowInv'
    BY <1>1, StepRows DEF FullInv
<1>3. FileInv'
    BY <1>1, StepMoves, StepFromMoves DEF FullInv
<1> QED BY <1>1, <1>2, <1>3 DEF FullInv

(* A clip shown as ready has its file: neither a delete request, nor the
   sweep, nor the complete handler of a clip maker that lost the clip takes it
   (handleDeleteClip, sweepClipBlobs, handleClipComplete). *)
THEOREM ReadyFilesAreKept == Spec => []ReadyHasFile
<1>1. FullInv => ReadyHasFile
    BY DEF FullInv, FileInv
<1> QED BY <1>1, InitFull, StepFull, PTL DEF Spec

-----------------------------------------------------------------------------
(* The promise to the host.  A step changes the rows or the files, never
   both; each statement on the rows, and each write or delete of a file, is a
   step of ClipPromise under the mapping, or changes nothing it shows. *)

Shown == [j \in Jobs |-> View[status[j]]]

LEMMA ViewFacts ==
    ASSUME TInv
    PROVE  /\ Shown \in [Jobs -> {"absent", "waiting", "ready", "failed", "deleted"}]
           /\ \A j \in Jobs :
                 /\ Shown[j] = "absent" <=> status[j] = "new"
                 /\ Shown[j] = "waiting" <=> status[j] \in {"queued", "processing"}
                 /\ Shown[j] = "ready" <=> status[j] = "ready"
                 /\ Shown[j] = "failed" <=> status[j] = "failed"
                 /\ Shown[j] = "deleted" <=> status[j] = "gone"
BY DEF Shown, View, TInv, TypeOK, Statuses

(* The files change only when the rows do not, by a write of a row's file or
   a delete of a deleted one's. *)
FileStep ==
    \/ blob' = blob
    \/ /\ UNCHANGED status
       /\ \E j \in Jobs : (status[j] # "new" /\ blob' = blob \cup {j})
                          \/ (status[j] = "gone" /\ blob' = blob \ {j})

LEMMA FileSteps ==
    ASSUME TInv, FileInv, [Next]_vars
    PROVE  FileStep
<1>1. CASE UNCHANGED storage
    BY <1>1 DEF storage, FileStep
<1>2. CASE HostStep
    <2>1. ASSUME NEW j \in Jobs, UnlinkFile(j) PROVE FileStep
        BY <2>1 DEF UnlinkFile, FileStep, FileInv, KeysOfGone, rows
    <2> QED BY <1>1, <1>2, <2>1
            DEF HostStep, CountUnfinished, InsertClipJobs, CreateRefused, OpenDelete, DeleteClipJob,
                ForgetFile, DeleteBreaksOff, DeleteRecording, RushClipJobs, FileStep
<1>3. ASSUME NEW w \in Workers, WorkerStep(w) PROVE FileStep
    <2>1. CASE Put(w) \/ PutFails(w)
        <3>1. job[w] \in Jobs /\ status[job[w]] # "new"
            BY <2>1 DEF Put, PutFails, TInv, MakersTyped, FileInv, WorkOnRows
        <3>2. UNCHANGED status /\ (blob' = blob \/ blob' = blob \cup {job[w]})
            BY <2>1 DEF Put, PutFails, rows
        <3> QED BY <3>1, <3>2 DEF FileStep
    <2> QED BY <1>1, <1>3, <2>1 DEF WorkerStep, Claim, Beat, RenderEnds, ReportMade, Crash
<1>4. ASSUME NEW c \in calls, CallTimesOut(c) \/ CallFails(c) PROVE FileStep
    BY <1>1, <1>4 DEF CallTimesOut, CallFails
<1>5. ASSUME NEW c \in calls, ApiStep(c) PROVE FileStep
    <2>1. CASE CompleteVerifies(c)
        BY <2>1 DEF CompleteVerifies, FileStep, rows, TInv, CallsTyped
    <2> QED BY <1>1, <1>5, <2>1
            DEF ApiStep, ClaimHeldBack, ClaimFailsStale, ClaimPicks, ClaimVets, BeatHeldBack,
                BeatRequeues, BeatRenews, UploadURL, CompleteFinishes, CompleteFails
<1>6. CASE SweepStep
    <2>1. ASSUME NEW j \in Jobs, SweepDeletes(j) PROVE FileStep
        BY <2>1 DEF SweepDeletes, FileStep, FileInv, KeysOfGone, InStatus, rows
    <2> QED BY <1>1, <1>6, <2>1
            DEF SweepStep, SweepFailsStale, SweepLists, SweepForgets, SweepDies, SweepSkips, FileStep
<1>7. CASE WorldStep
    BY <1>1, <1>7 DEF WorldStep, LeaseRunsOut, RushRunsOut, GoLive, EndLive, SourceBreaks
<1>8. CASE UNCHANGED vars
    BY <1>1, <1>8 DEF vars
<1> QED BY <1>2, <1>3, <1>4, <1>5, <1>6, <1>7, <1>8 DEF Next

(* What the host sees of one statement on the rows. *)
ShownStep ==
    \/ UNCHANGED Shown
    \/ \E S \in SUBSET Jobs : Promise!Ask(S) \/ Promise!Fail(S) \/ Promise!Delete(S)
    \/ \E j \in Jobs : Promise!Make(j)

LEMMA ShownSteps ==
    ASSUME FullInv, FullInv', RowStep, UNCHANGED blob
    PROVE  ShownStep
<1> USE DEF FullInv
<1>v. \A j \in Jobs :
          /\ Shown[j] = View[status[j]] /\ Shown'[j] = View[status'[j]]
          /\ status[j] \in Statuses /\ status'[j] \in Statuses
    BY DEF Shown, TInv, TypeOK
<1>f. DOMAIN Shown = Jobs /\ DOMAIN Shown' = Jobs
    BY DEF Shown
<1>s. ASSUME NEW S \in SUBSET Jobs, NEW st \in Statuses,
             \A j \in Jobs : status'[j] = IF j \in S THEN st ELSE status[j]
      PROVE  Promise!Show(S, View[st])
    BY <1>s, <1>v DEF Promise!Show, TInv, TypeOK
<1>w. ASSUME \A j \in Jobs : \/ status'[j] = status[j]
                             \/ /\ status[j] \in {"queued", "processing"}
                                /\ status'[j] \in {"queued", "processing"}
      PROVE  ShownStep
    <2>1. \A j \in Jobs : View[status'[j]] = View[status[j]]
        BY <1>w DEF View
    <2> QED BY <2>1 DEF ShownStep, Shown
<1>1. CASE UNCHANGED <<status, attempts, lease>>
    BY <1>1, <1>w
<1>2. ASSUME NEW c \in Creators, NEW S \in SUBSET Jobs, InsertClipJobs(c, S) PROVE ShownStep
    <2>1. Promise!Show(S, "waiting")
        BY <1>2, <1>s DEF InsertClipJobs, Statuses, View
    <2>2. S \subseteq Promise!Showing("absent")
        BY <1>2 DEF InsertClipJobs, InStatus, Promise!Showing, View
    <2> QED BY <2>1, <2>2 DEF Promise!Ask, ShownStep
<1>3. ASSUME NEW S \in SUBSET Jobs, \A j \in S : status[j] # "new", DeleteRows(S) PROVE ShownStep
    <2>1. Promise!Show(S, "deleted")
        BY <1>3, <1>s DEF DeleteRows, Release, Statuses, View
    <2>2. S \cap Promise!Showing("absent") = {}
        BY <1>3, <1>v DEF Promise!Showing, View, Statuses
    <2> QED BY <2>1, <2>2 DEF Promise!Delete, ShownStep
<1>4. CASE FailStaleClipJobs
    <2>1. Promise!Show(Stale, "failed")
        BY <1>4, <1>s DEF FailStaleClipJobs, Release, Stale, InStatus, Statuses, View
    <2>2. Stale \subseteq Promise!Showing("waiting") /\ Stale \in SUBSET Jobs
        BY DEF Stale, InStatus, Promise!Showing, View
    <2> QED BY <2>1, <2>2 DEF Promise!Fail, ShownStep
<1>5. ASSUME NEW j \in Claimable, TakeRow(j) PROVE ShownStep
    BY <1>5, <1>w DEF TakeRow, Claimable, TInv, TypeOK
<1>6. ASSUME NEW j \in Jobs, RequeueClipJob(j) \/ ClipJobProgress(j) \/ LeaseRunsOut(j) PROVE ShownStep
    BY <1>6, <1>w DEF RequeueClipJob, ClipJobProgress, LeaseRunsOut, RenewLease, WhenProcessing,
                      KeepRows, rows, Release, TInv, TypeOK
<1>7. ASSUME NEW j \in Jobs, NEW retry \in BOOLEAN, FailClipJob(j, retry) PROVE ShownStep
    <2>1. CASE status[j] # "processing"
        BY <1>7, <2>1, <1>w DEF FailClipJob, WhenProcessing, KeepRows, rows
    <2>2. CASE status[j] = "processing" /\ retry /\ attempts[j] < MaxAttempts
        BY <1>7, <2>2, <1>w DEF FailClipJob, WhenProcessing, Release, TInv, TypeOK
    <2>3. CASE status[j] = "processing" /\ ~(retry /\ attempts[j] < MaxAttempts)
        <3>1. Promise!Show({j}, "failed")
            BY <1>7, <2>3, <1>s DEF FailClipJob, WhenProcessing, Release, Statuses, View
        <3>2. {j} \subseteq Promise!Showing("waiting")
            BY <2>3 DEF Promise!Showing, View
        <3> QED BY <3>1, <3>2 DEF Promise!Fail, ShownStep
    <2> QED BY <2>1, <2>2, <2>3
<1>8. ASSUME NEW c \in calls, CompleteFinishes(c) PROVE ShownStep
    <2>j. c.job \in Jobs
        BY <1>8 DEF CompleteFinishes, TInv, CallsTyped
    <2>1. CASE status[c.job] # "processing"
        BY <1>8, <2>1, <1>w DEF CompleteFinishes, FinishClipJob, WhenProcessing, KeepRows, rows
    <2>2. CASE status[c.job] = "processing"
        <3>1. Promise!Show({c.job}, "ready")
            BY <1>8, <2>j, <2>2, <1>s DEF CompleteFinishes, FinishClipJob, WhenProcessing, Release, Statuses, View
        <3>2. c.job \in Promise!Showing("waiting")
            BY <2>j, <2>2 DEF Promise!Showing, View
        <3>3. c.job \in blob
            BY <1>8, <2>2 DEF CompleteFinishes, FileInv, FinishedWasPut, InStatus
        <3> QED BY <2>j, <3>1, <3>2, <3>3 DEF Promise!Make, ShownStep
    <2> QED BY <2>1, <2>2
<1>9. ASSUME NEW j \in Jobs, DeleteClipJob(j), DeleteRows({j}) PROVE ShownStep
    BY <1>3, <1>9 DEF DeleteClipJob, FileInv, WorkOnRows
<1>10. CASE DeleteRecording
    BY <1>3, <1>10 DEF DeleteRecording, InStatus
<1> QED BY <1>1, <1>2, <1>4, <1>5, <1>6, <1>7, <1>8, <1>9, <1>10 DEF RowStep

LEMMA StepPromise ==
    ASSUME FullInv, FullInv', [Next]_vars
    PROVE  Promise!Next \/ UNCHANGED <<Shown, blob>>
<1>1. RowStep /\ FileStep
    BY RowSteps, FileSteps DEF FullInv
<1>2. CASE blob' = blob
    BY <1>1, <1>2, ShownSteps DEF ShownStep, Promise!Next
<1>3. ASSUME UNCHANGED status, NEW j \in Jobs, status[j] # "new", blob' = blob \cup {j}
      PROVE  Promise!Write(j)
    BY <1>3, ViewFacts DEF Promise!Write, FullInv, Shown
<1>4. ASSUME UNCHANGED status, NEW j \in Jobs, status[j] = "gone", blob' = blob \ {j}
      PROVE  Promise!Erase(j)
    BY <1>4, ViewFacts DEF Promise!Erase, FullInv, Shown
<1> QED BY <1>1, <1>2, <1>3, <1>4 DEF FileStep, Promise!Next

(* The queue implements what it promises the host: a clip is made or fails
   once and for all, and no file goes before its clip is deleted. *)
THEOREM QueueKeepsPromise == Spec => PromiseKept
<1>1. Init => Promise!Init
    BY DEF Init, Promise!Init, View
<1>2. FullInv /\ FullInv' /\ [Next]_vars => [Promise!Next]_<<Shown, blob>>
    BY StepPromise
<1>3. [Promise!Next]_<<Shown, blob>> <=> [Promise!Next]_<<[j \in Jobs |-> View[status[j]]], blob>>
    BY DEF Shown
<1> QED BY <1>1, <1>2, <1>3, InitFull, StepFull, PTL DEF Spec, PromiseKept, Promise!Spec

-----------------------------------------------------------------------------
(* The limit.  Create requests that have counted and not yet inserted are as
   many clips more: with those, the unfinished clips of a recording stay within
   MaxUnfinished and what all requests but one may ask for, because a request
   counts while it has none asked for itself, and only inserts what it asked. *)

Asked == {x \in Creators \X (1 .. MaxFormats) : x[2] <= formats[x[1]]}

OthersMayAsk == (Cardinality(Creators) - 1) * MaxFormats

LimitInv == Cardinality(Unfinished) + Cardinality(Asked) <= MaxUnfinished + OthersMayAsk

(* So many clips may a set of requests ask for. *)
LEMMA AskedBound ==
    ASSUME NEW C \in SUBSET Creators
    PROVE  /\ IsFiniteSet(C \X (1 .. MaxFormats))
           /\ Cardinality(C \X (1 .. MaxFormats)) = Cardinality(C) * MaxFormats
           /\ IsFiniteSet(C) /\ Cardinality(C) \in Nat
<1>1. IsFiniteSet(C) /\ Cardinality(C) \in Nat
    BY CreatorsAssumption, FS_Subset, FS_CardinalityType
<1>2. IsFiniteSet(1 .. MaxFormats) /\ Cardinality(1 .. MaxFormats) = MaxFormats
    BY MaxFormatsAssumption, FS_Interval
<1> QED BY <1>1, <1>2, FS_Product

LEMMA AskedFinite == IsFiniteSet(Asked) /\ Cardinality(Asked) \in Nat
<1>1. Asked \in SUBSET (Creators \X (1 .. MaxFormats))
    BY DEF Asked
<1> QED BY <1>1, AskedBound, FS_Subset, FS_CardinalityType

(* What the others may ask for is what is left when one asks for nothing. *)
LEMMA OthersBound ==
    ASSUME NEW c \in Creators
    PROVE  /\ Cardinality(Creators \ {c}) = Cardinality(Creators) - 1
           /\ OthersMayAsk \in Nat
           /\ Cardinality((Creators \ {c}) \X (1 .. MaxFormats)) = OthersMayAsk
<1>1. IsFiniteSet(Creators) /\ Cardinality(Creators) \in Nat
    BY CreatorsAssumption, FS_CardinalityType
<1>2. Cardinality(Creators \ {c}) = Cardinality(Creators) - 1
    BY <1>1, FS_RemoveElement
<1>3. Cardinality((Creators \ {c}) \X (1 .. MaxFormats)) = OthersMayAsk
    BY <1>2, AskedBound DEF OthersMayAsk
<1>4. IsFiniteSet((Creators \ {c}) \X (1 .. MaxFormats))
    BY AskedBound
<1> QED BY <1>2, <1>3, <1>4, FS_CardinalityType

LEMMA UnfinishedFinite == IsFiniteSet(Unfinished) /\ Cardinality(Unfinished) \in Nat
<1>1. Unfinished \in SUBSET Jobs
    BY DEF Unfinished, InStatus
<1> QED BY <1>1, JobsAssumption, FS_Subset, FS_CardinalityType

(* Only an insert makes a clip unfinished. *)
LEMMA UnfinishedShrinks ==
    ASSUME TInv, RowStep, ~\E c \in Creators, S \in SUBSET Jobs : InsertClipJobs(c, S)
    PROVE  Unfinished' \subseteq Unfinished
<1> USE DEF Unfinished, InStatus
<1>0. status \in [Jobs -> Statuses]
    BY DEF TInv, TypeOK
<1>1. ASSUME NEW S, NEW st \in {"gone", "failed", "ready"}, Release(S, st)
      PROVE  Unfinished' \subseteq Unfinished
    BY <1>1 DEF Release
<1>2. ASSUME NEW j \in Jobs, status[j] = "processing", Release({j}, "queued")
      PROVE  Unfinished' \subseteq Unfinished
    BY <1>2 DEF Release
<1>3. CASE UNCHANGED <<status, attempts, lease>>
    BY <1>3
<1>4. CASE (\E j \in Jobs : DeleteClipJob(j) /\ DeleteRows({j})) \/ DeleteRecording
    BY <1>1, <1>4 DEF DeleteRows, DeleteRecording
<1>5. CASE FailStaleClipJobs
    BY <1>1, <1>5 DEF FailStaleClipJobs
<1>6. ASSUME NEW j \in Claimable, TakeRow(j) PROVE Unfinished' \subseteq Unfinished
    BY <1>0, <1>6 DEF TakeRow, Claimable
<1>7. ASSUME NEW j \in Jobs, RequeueClipJob(j) \/ ClipJobProgress(j) \/ LeaseRunsOut(j)
      PROVE  Unfinished' \subseteq Unfinished
    BY <1>2, <1>7 DEF RequeueClipJob, ClipJobProgress, LeaseRunsOut, RenewLease, WhenProcessing, KeepRows, rows
<1>8. ASSUME NEW j \in Jobs, NEW retry \in BOOLEAN, FailClipJob(j, retry)
      PROVE  Unfinished' \subseteq Unfinished
    BY <1>1, <1>2, <1>8 DEF FailClipJob, WhenProcessing, KeepRows, rows
<1>9. ASSUME NEW c \in calls, CompleteFinishes(c) PROVE Unfinished' \subseteq Unfinished
    BY <1>1, <1>9 DEF CompleteFinishes, FinishClipJob, WhenProcessing, KeepRows, rows
<1> QED BY <1>3, <1>4, <1>5, <1>6, <1>7, <1>8, <1>9 DEF RowStep

(* What is asked for changes with a count, an insert or a refusal only. *)
LEMMA FormatsMove ==
    ASSUME TInv, [Next]_vars
    PROVE  \/ UNCHANGED formats
           \/ \E c \in Creators : \/ \E n \in 1 .. MaxFormats : CountUnfinished(c, n)
                                  \/ \E S \in SUBSET Jobs : InsertClipJobs(c, S)
                                  \/ CreateRefused(c)
<1>1. CASE HostStep
    BY <1>1 DEF HostStep, OpenDelete, DeleteClipJob, UnlinkFile, ForgetFile, DeleteBreaksOff,
       DeleteRecording, RushClipJobs
<1>2. CASE \E w \in Workers : WorkerStep(w)
    BY <1>2 DEF WorkerStep, Claim, Beat, RenderEnds, Put, ReportMade, PutFails, Crash
<1>3. CASE \E c \in calls : CallTimesOut(c) \/ CallFails(c)
    BY <1>3 DEF CallTimesOut, CallFails
<1>4. CASE \E c \in calls : ApiStep(c)
    BY <1>4 DEF ApiStep, ClaimHeldBack, ClaimFailsStale, ClaimPicks, ClaimVets, BeatHeldBack,
       BeatRequeues, BeatRenews, UploadURL, CompleteFinishes, CompleteVerifies, CompleteFails
<1>5. CASE SweepStep
    BY <1>5 DEF SweepStep, SweepFailsStale, SweepLists, SweepForgets, SweepDies, SweepDeletes, SweepSkips
<1>6. CASE WorldStep
    BY <1>6 DEF WorldStep, LeaseRunsOut, RushRunsOut, GoLive, EndLive, SourceBreaks
<1>7. CASE UNCHANGED vars
    BY <1>7 DEF vars
<1> QED BY <1>1, <1>2, <1>3, <1>4, <1>5, <1>6, <1>7 DEF Next

(* A request counts clips: it had asked for none. *)
LEMMA CountLimit ==
    ASSUME TInv, NEW c \in Creators, NEW n \in 1 .. MaxFormats, CountUnfinished(c, n)
    PROVE  LimitInv'
<1> DEFINE others == (Creators \ {c}) \X (1 .. MaxFormats)
           own == {c} \X (1 .. n)
<1>0. n \in Nat /\ MaxFormats \in Nat /\ formats \in [Creators -> 0 .. MaxFormats]
    BY MaxFormatsAssumption DEF TInv, TypeOK
<1>1. Unfinished' = Unfinished /\ Cardinality(Unfinished) + n <= MaxUnfinished
    BY DEF CountUnfinished, Unfinished, InStatus, rows
<1>2. Asked' \subseteq others \cup own
    <2> SUFFICES ASSUME NEW x \in Creators \X (1 .. MaxFormats), x[2] <= formats'[x[1]], x[1] = c
                 PROVE  x[2] \in 1 .. n
        BY DEF Asked
    <2> QED BY <1>0 DEF CountUnfinished
<1>3. IsFiniteSet(others) /\ Cardinality(others) = OthersMayAsk /\ OthersMayAsk \in Nat
    BY AskedBound, OthersBound
<1>4. IsFiniteSet(own) /\ Cardinality(own) = n
    <2>1. IsFiniteSet({c}) /\ Cardinality({c}) = 1
        BY FS_Singleton
    <2>2. IsFiniteSet(1 .. n) /\ Cardinality(1 .. n) = n
        BY <1>0, FS_Interval
    <2>3. IsFiniteSet(own) /\ Cardinality(own) = 1 * n
        BY <2>1, <2>2, FS_Product
    <2> QED BY <1>0, <2>3
<1>5. IsFiniteSet(others \cup own) /\ Cardinality(others \cup own) <= OthersMayAsk + n
    <2>1. others \cap own = {}
        OBVIOUS
    <2> HIDE DEF others, own
    <2>2. Cardinality(others \cup own) = Cardinality(others) + Cardinality(own) - Cardinality({})
        BY <1>3, <1>4, <2>1, FS_Union
    <2>3. Cardinality({}) = 0
        BY FS_EmptySet
    <2>4. IsFiniteSet(others \cup own)
        BY <1>3, <1>4, FS_Union
    <2>5. Cardinality(others \cup own) = OthersMayAsk + n
        BY <1>0, <1>3, <1>4, <2>2, <2>3
    <2>6. Cardinality(others \cup own) \in Nat
        BY <2>4, FS_CardinalityType
    <2> QED BY <2>4, <2>5, <2>6
<1>6. Cardinality(Asked') <= OthersMayAsk + n /\ Cardinality(Asked') \in Nat
    <2> HIDE DEF others, own
    <2>1. IsFiniteSet(Asked') /\ Cardinality(Asked') <= Cardinality(others \cup own)
        BY <1>2, <1>5, FS_Subset
    <2>2. Cardinality(Asked') \in Nat /\ Cardinality(others \cup own) \in Nat
        BY <1>5, <2>1, FS_CardinalityType
    <2> QED BY <1>0, <1>3, <1>5, <2>1, <2>2
<1> QED BY <1>0, <1>1, <1>3, <1>6, UnfinishedFinite, MaxUnfinishedAssumption DEF LimitInv, OthersMayAsk

(* A request inserts what it asked for, and asks for nothing any more. *)
LEMMA InsertLimit ==
    ASSUME TInv, LimitInv, NEW c \in Creators, NEW S \in SUBSET Jobs, InsertClipJobs(c, S)
    PROVE  LimitInv'
<1> DEFINE own == {c} \X (1 .. formats[c])
<1>0. formats[c] \in Nat /\ formats \in [Creators -> 0 .. MaxFormats] /\ MaxFormats \in Nat
    BY MaxFormatsAssumption DEF TInv, TypeOK
<1>1. Unfinished' = Unfinished \cup S /\ Unfinished \cap S = {}
    BY DEF InsertClipJobs, Unfinished, InStatus
<1>2. IsFiniteSet(S) /\ Cardinality(S) = formats[c]
    BY JobsAssumption, FS_Subset DEF InsertClipJobs
<1>3. Cardinality(Unfinished') = Cardinality(Unfinished) + formats[c]
    <2>1. Cardinality(Unfinished \cup S) = Cardinality(Unfinished) + Cardinality(S) - Cardinality({})
        BY <1>1, <1>2, UnfinishedFinite, FS_Union
    <2>2. Cardinality({}) = 0
        BY FS_EmptySet
    <2> QED BY <1>0, <1>1, <1>2, <2>1, <2>2, UnfinishedFinite
<1>4. IsFiniteSet(own) /\ Cardinality(own) = formats[c]
    <2>1. IsFiniteSet({c}) /\ Cardinality({c}) = 1
        BY FS_Singleton
    <2>2. IsFiniteSet(1 .. formats[c]) /\ Cardinality(1 .. formats[c]) = formats[c]
        BY <1>0, FS_Interval
    <2>3. IsFiniteSet(own) /\ Cardinality(own) = 1 * formats[c]
        BY <2>1, <2>2, FS_Product
    <2> QED BY <1>0, <2>3
<1>5. Asked = Asked' \cup own /\ Asked' \cap own = {}
    <2>1. formats' = [formats EXCEPT ![c] = 0] /\ formats[c] <= MaxFormats
        BY <1>0 DEF InsertClipJobs
    <2>2. Asked' = {x \in Asked : x[1] # c}
        BY <1>0, <2>1 DEF Asked
    <2>3. own = {x \in Asked : x[1] = c}
        BY <1>0, <2>1 DEF Asked
    <2> HIDE DEF own
    <2> QED BY <2>2, <2>3
<1>6. Cardinality(Asked) = Cardinality(Asked') + formats[c] /\ Cardinality(Asked') \in Nat
    <2> HIDE DEF own
    <2>1. IsFiniteSet(Asked')
        BY <1>5, AskedFinite, FS_Subset
    <2>2. Cardinality(Asked) = Cardinality(Asked') + Cardinality(own) - Cardinality({})
        BY <1>4, <1>5, <2>1, FS_Union
    <2>3. Cardinality({}) = 0
        BY FS_EmptySet
    <2> QED BY <1>0, <1>4, <2>1, <2>2, <2>3, FS_CardinalityType
<1> QED BY <1>0, <1>3, <1>6, UnfinishedFinite, OthersBound, MaxUnfinishedAssumption DEF LimitInv, OthersMayAsk

LEMMA StepLimit ==
    ASSUME TInv, LimitInv, [Next]_vars
    PROVE  LimitInv'
<1>1. CASE \E c \in Creators : \E n \in 1 .. MaxFormats : CountUnfinished(c, n)
    BY <1>1, CountLimit
<1>2. CASE \E c \in Creators : \E S \in SUBSET Jobs : InsertClipJobs(c, S)
    BY <1>2, InsertLimit
<1>3. CASE /\ UNCHANGED formats \/ \E c \in Creators : CreateRefused(c)
           /\ ~\E c \in Creators, S \in SUBSET Jobs : InsertClipJobs(c, S)
  <2>1. Unfinished' \subseteq Unfinished
      BY <1>3, RowSteps, UnfinishedShrinks
  <2>2. Cardinality(Unfinished') <= Cardinality(Unfinished) /\ Cardinality(Unfinished') \in Nat
      BY <2>1, UnfinishedFinite, FS_Subset, FS_CardinalityType
  <2>3. \A c \in Creators : formats'[c] <= formats[c] /\ formats'[c] \in Nat /\ formats[c] \in Nat
      BY <1>3, MaxFormatsAssumption DEF CreateRefused, TInv, TypeOK
  <2>4. Asked' \subseteq Asked
      BY <2>3 DEF Asked
  <2>5. Cardinality(Asked') <= Cardinality(Asked) /\ Cardinality(Asked') \in Nat
      BY <2>4, AskedFinite, FS_Subset, FS_CardinalityType
  <2>6. OthersMayAsk \in Nat
      BY OthersBound, CreatorsAssumption
  <2> QED BY <2>2, <2>5, <2>6, UnfinishedFinite, AskedFinite, MaxUnfinishedAssumption DEF LimitInv, OthersMayAsk
<1> QED BY <1>1, <1>2, <1>3, FormatsMove

(* A recording never has more clips unfinished than the limit and what the
   create requests at work, but one, may ask for: handleCreateClips counts and
   inserts in two statements, and nothing else adds to the queue.  (One request
   at a time, and it is the limit clip_jobs.go:57 names.) *)
THEOREM LimitIsKept == Spec => []UnfinishedWithinReach
<1>0. OthersMayAsk \in Nat
    BY OthersBound, CreatorsAssumption
<1>1. Init => LimitInv
  <2> SUFFICES ASSUME Init PROVE LimitInv
      OBVIOUS
  <2>1. Unfinished = {} /\ Asked = {}
      BY MaxFormatsAssumption DEF Init, Unfinished, InStatus, Asked
  <2>2. Cardinality(Unfinished) = 0 /\ Cardinality(Asked) = 0
      BY <2>1, FS_EmptySet
  <2> QED BY <1>0, <2>2, MaxUnfinishedAssumption DEF LimitInv
<1>2. TInv /\ LimitInv /\ [Next]_vars => TInv' /\ LimitInv'
    BY StepTypes, StepLimit
<1>3. LimitInv => UnfinishedWithinReach
    BY <1>0, UnfinishedFinite, AskedFinite, MaxUnfinishedAssumption
       DEF LimitInv, UnfinishedWithinReach, OthersMayAsk
<1> QED BY <1>1, <1>2, <1>3, InitTypes, PTL DEF Spec

(* "clipMaxUnfinished bounds the clips of one recording waiting or being made
   at once" (clip_jobs.go:57) is so when create requests come one at a time. *)
THEOREM OneByOneWithinLimit == ASSUME Cardinality(Creators) = 1 PROVE Spec => []UnfinishedWithinLimit
<1>1. UnfinishedWithinReach => UnfinishedWithinLimit
    BY UnfinishedFinite, MaxUnfinishedAssumption, MaxFormatsAssumption
       DEF UnfinishedWithinReach, UnfinishedWithinLimit
<1> QED BY <1>1, LimitIsKept, PTL
=============================================================================
