------------------------- MODULE VideoUpload_proofs -------------------------
(***************************************************************************)
(* Theorems about VideoUpload, for any number of tabs, uploads, parts,     *)
(* requests and rounds, any quota and any choice of faults: the types, the *)
(* listed videos' files, the quota, and the promise to the host            *)
(* (VideoPromise), which uploading implements.                             *)
(***************************************************************************)
EXTENDS VideoUpload, FiniteSetTheorems, TLAPS

-----------------------------------------------------------------------------
(* Types.  TypeOK is not inductive: a tab that asks after an upload or
   sends it has one, and so has a request that is past its start; a place
   for a request that is free is as it was at first. *)

TabsHaveUpload ==
    \A t \in Tabs : pc[t] \in {"status", "send", "complete", "again"} => up[t] # NoUpload

ReqsHaveUpload ==
    \A r \in Requests :
        /\ req[r].kind = "none" => req[r].at = "load"
        /\ req[r].kind = "start" => req[r].at \in {"make", "record"}
        /\ req[r].kind \notin {"start", "none"} =>
               req[r].up # NoUpload /\ req[r].at \notin {"make", "record"}
        /\ req[r].kind = "start" /\ req[r].at = "record" => req[r].up # NoUpload

TInv == TypeOK /\ TabsHaveUpload /\ ReqsHaveUpload

TabTypes ==
    /\ saved \in Uploads \cup {NoUpload}
    /\ pc \in [Tabs -> {"idle", "status", "start", "send", "complete", "again"}]
    /\ up \in [Tabs -> Uploads \cup {NoUpload}]
    /\ done \in [Tabs -> SUBSET Parts]
    /\ round \in [Tabs -> 0 .. Rounds - 1]
    /\ aborted \in [Tabs -> BOOLEAN]
    /\ TabsHaveUpload

ReqTypes == req \in [Requests -> Reqs] /\ ReqsHaveUpload

StoreTypes ==
    /\ bad \in BOOLEAN
    /\ row \in SUBSET Uploads
    /\ old \in SUBSET row
    /\ rec \in SUBSET Uploads
    /\ multi \in [Uploads -> {"none", "open", "gone"}]
    /\ parts \in [Uploads -> SUBSET Parts]
    /\ object \in SUBSET Uploads
    /\ sweep \in [Uploads -> {"no", "listed", "aborted"}]

LEMMA TypesSplit == TInv <=> TabTypes /\ ReqTypes /\ StoreTypes
BY DEF TInv, TypeOK, TabTypes, ReqTypes, StoreTypes

LEMMA TypesJoin == TabTypes' /\ ReqTypes' /\ StoreTypes' => TInv'
BY DEF TInv, TypeOK, TabTypes, ReqTypes, StoreTypes

LEMMA NoReqTyped == NoReq \in Reqs
BY DEF NoReq, Reqs, Steps

LEMMA InitTypes == Init => TInv
<1> SUFFICES ASSUME Init PROVE TInv
    OBVIOUS
<1>1. 0 \in 0 .. Rounds - 1
    BY RoundsAssumption
<1>2. TabTypes
    BY <1>1 DEF Init, TabTypes, TabsHaveUpload
<1>3. ReqTypes
    BY NoReqTyped DEF Init, ReqTypes, ReqsHaveUpload, NoReq
<1>4. StoreTypes
    BY DEF Init, StoreTypes
<1> QED BY <1>2, <1>3, <1>4, TypesSplit

(* A tab that is told something keeps its types. *)
LEMMA OverTypes ==
    ASSUME TabTypes, NEW t \in Tabs, Over(t), saved' \in Uploads \cup {NoUpload}
    PROVE  TabTypes'
<1>1. 0 \in 0 .. Rounds - 1
    BY RoundsAssumption
<1> QED BY <1>1 DEF Over, TabTypes, TabsHaveUpload

LEMMA ToldTypes ==
    ASSUME TInv, NEW t \in Tabs, NEW u \in Uploads \cup {NoUpload}, NEW code,
           code = "ok" => u # NoUpload, Told(t, u, code)
    PROVE  TabTypes'
<1>0. TabTypes /\ StoreTypes
    BY TypesSplit
<1>1. CASE Over(t)
  <2>1. saved' \in Uploads \cup {NoUpload}
      BY <1>0, <1>1 DEF Told, TabTypes, GoOn, Ask
  <2> QED BY <1>0, <1>1, <2>1, OverTypes
<1>2. CASE /\ code = "ok" /\ GoOn(t, u)
           /\ saved' \in {saved, u} /\ UNCHANGED <<round, aborted>>
  <2>1. u \in Uploads /\ parts[u] \in SUBSET Parts
      BY <1>0, <1>2 DEF StoreTypes
  <2> QED BY <1>0, <1>2, <2>1 DEF GoOn, TabTypes, TabsHaveUpload
<1>3. CASE /\ saved' = NoUpload /\ Ask(t, "start") /\ UNCHANGED <<round, aborted>>
    BY <1>0, <1>3 DEF Ask, TabTypes, TabsHaveUpload
<1>4. CASE /\ pc[t] = "complete" /\ MoreRounds(t) /\ round' = [round EXCEPT ![t] = @ + 1]
           /\ Ask(t, "again") /\ UNCHANGED <<saved, aborted>>
  <2>1. round[t] + 1 \in 0 .. Rounds - 1
      BY <1>0, <1>4, RoundsAssumption DEF TabTypes, MoreRounds
  <2> QED BY <1>0, <1>4, <2>1 DEF Ask, TabTypes, TabsHaveUpload
<1> QED BY <1>1, <1>2, <1>3, <1>4 DEF Told

LEMMA AnswerTypes ==
    ASSUME TInv, NEW r \in Requests, NEW code,
           code = "ok" => req[r].up # NoUpload, Answer(r, req[r].up, code)
    PROVE  TabTypes' /\ ReqTypes'
<1>0. TabTypes /\ ReqTypes /\ req[r] \in Reqs
    BY TypesSplit DEF ReqTypes
<1>1. ReqTypes'
    BY <1>0, NoReqTyped DEF Answer, ReqTypes, ReqsHaveUpload, NoReq
<1>2. req[r].up \in Uploads \cup {NoUpload} /\ req[r].tab \in Tabs \cup {Nobody}
    BY <1>0 DEF Reqs
<1>3. TabTypes'
  <2>1. CASE req[r].tab = Nobody
      BY <1>0, <2>1 DEF Answer, TabTypes, tab, TabsHaveUpload
  <2>2. CASE req[r].tab # Nobody
      BY <1>2, <2>2, ToldTypes DEF Answer
  <2> QED BY <2>1, <2>2
<1> QED BY <1>1, <1>3

LEMMA GoToTypes ==
    ASSUME TInv, NEW r \in Requests, NEW at \in Steps \ {"make", "record"},
           req[r].kind \notin {"start", "none"}, GoTo(r, at)
    PROVE  TabTypes' /\ ReqTypes'
<1>0. TabTypes /\ ReqTypes /\ req[r] \in Reqs
    BY TypesSplit DEF ReqTypes
<1>1. [req[r] EXCEPT !.at = at] \in Reqs
    BY <1>0 DEF Reqs
<1>2. ReqTypes'
    BY <1>0, <1>1 DEF GoTo, ReqTypes, ReqsHaveUpload, Reqs
<1>3. TabTypes'
    BY <1>0 DEF GoTo, TabTypes, tab, TabsHaveUpload
<1> QED BY <1>2, <1>3

LEMMA SendTypes ==
    ASSUME ReqTypes, NEW kind \in {"start", "status", "complete", "cancel", "delete"}, NEW at \in Steps,
           NEW u \in Uploads \cup {NoUpload}, NEW t \in Tabs \cup {Nobody},
           kind = "start" => at = "make",
           kind # "start" => u # NoUpload /\ at \notin {"make", "record"},
           Send(kind, at, u, t)
    PROVE  ReqTypes'
<1> DEFINE q == [kind |-> kind, at |-> at, up |-> u, tab |-> t]
<1>1. PICK r \in Free : req' = [req EXCEPT ![r] = q]
    BY DEF Send
<1>2. r \in Requests
    BY DEF Free
<1>3. q \in Reqs
    BY DEF Reqs
<1> QED BY <1>1, <1>2, <1>3 DEF ReqTypes, ReqsHaveUpload

LEMMA TabStepTypes ==
    ASSUME TInv, NEW t \in Tabs, TabStep(t)
    PROVE  TInv'
<1>0. TabTypes /\ ReqTypes /\ StoreTypes
    BY TypesSplit
<1>a. UNCHANGED <<bad, db, bucket, sweep>> => StoreTypes'
    BY <1>0 DEF StoreTypes, db, bucket
<1>b. UNCHANGED req => ReqTypes'
    BY <1>0 DEF ReqTypes, ReqsHaveUpload
<1>1. CASE ChooseFile(t)
  <2>1. TabTypes'
      BY <1>0, <1>1 DEF ChooseFile, TabTypes, TabsHaveUpload
  <2> QED BY <1>1, <1>a, <1>b, <2>1, TypesJoin DEF ChooseFile
<1>2. CASE Call(t)
  <2>1. TabTypes'
      BY <1>0, <1>2 DEF Call, tab, TabTypes, TabsHaveUpload
  <2>2. ReqTypes'
    <3>1. up[t] \in Uploads \cup {NoUpload}
        BY <1>0 DEF TabTypes
    <3>2. pc[t] \in {"status", "again", "complete"} => up[t] # NoUpload
        BY <1>0 DEF TabTypes, TabsHaveUpload
    <3>3. "load" \in Steps /\ "make" \in Steps
        BY DEF Steps
    <3>4. CASE pc[t] \in {"status", "again"} /\ Send("status", "load", up[t], t)
        BY <1>0, <3>1, <3>2, <3>3, <3>4, SendTypes
    <3>5. CASE pc[t] = "start" /\ Send("start", "make", NoUpload, t)
        BY <1>0, <3>3, <3>5, SendTypes
    <3>6. CASE pc[t] = "complete" /\ Send("complete", "load", up[t], t)
        BY <1>0, <3>1, <3>2, <3>3, <3>6, SendTypes
    <3> QED BY <1>2, <3>4, <3>5, <3>6 DEF Call
  <2> QED BY <1>2, <1>a, <1>b, <2>1, <2>2, TypesJoin DEF Call
<1>3. ASSUME NEW p \in Parts, PutPart(t, p) \/ PutPartShort(t, p)
      PROVE  TInv'
  <2>1. TabTypes'
      BY <1>0, <1>3 DEF PutPart, PutPartShort, TabTypes, TabsHaveUpload
  <2>2. parts' \in [Uploads -> SUBSET Parts] /\ UNCHANGED <<bad, db, multi, object, sweep, req>>
      BY <1>0, <1>3 DEF PutPart, PutPartShort, bucket, StoreTypes
  <2>3. StoreTypes'
      BY <1>0, <2>2 DEF StoreTypes, db
  <2> QED BY <1>b, <2>1, <2>2, <2>3, TypesJoin
<1>4. CASE SendFails(t) \/ CloseTab(t)
  <2>1. TabTypes'
      BY <1>0, <1>4, OverTypes DEF SendFails, CloseTab, TabTypes
  <2>2. ReqTypes'
    <3>1. ASSUME NEW q \in Reqs
          PROVE  [q EXCEPT !.tab = Nobody] \in Reqs
        BY DEF Reqs
    <3>2. WithoutTab(t) \in [Requests -> Reqs]
        BY <1>0, <3>1 DEF WithoutTab, ReqTypes
    <3>3. \A r \in Requests : /\ WithoutTab(t)[r].kind = req[r].kind
                              /\ WithoutTab(t)[r].at = req[r].at
                              /\ WithoutTab(t)[r].up = req[r].up
        BY <1>0 DEF WithoutTab, ReqTypes, Reqs
    <3> QED BY <1>0, <1>4, <3>2, <3>3 DEF SendFails, CloseTab, ReqTypes, ReqsHaveUpload
  <2> QED BY <1>4, <1>a, <1>b, <2>1, <2>2, TypesJoin DEF SendFails, CloseTab
<1>5. CASE AllSent(t) \/ Leave(t)
  <2>1. TabTypes'
      BY <1>0, <1>5 DEF AllSent, Leave, Ask, TabTypes, TabsHaveUpload
  <2> QED BY <1>5, <1>a, <1>b, <2>1, TypesJoin DEF AllSent, Leave
<1>6. CASE Cancel(t)
  <2>1. TabTypes'
      BY <1>0, <1>6 DEF Cancel, TabTypes, TabsHaveUpload
  <2>2. ReqTypes'
    <3>1. CASE pc[t] \in {"status", "start"}
        BY <1>b, <1>6, <3>1 DEF Cancel
    <3>2. CASE pc[t] \notin {"status", "start"}
      <4>1. up[t] \in Uploads \cup {NoUpload} /\ up[t] # NoUpload
          BY <1>0, <1>6, <3>2 DEF Cancel, TabTypes, TabsHaveUpload
      <4>2. "load" \in Steps
          BY DEF Steps
      <4> QED BY <1>0, <1>6, <3>2, <4>1, <4>2, SendTypes DEF Cancel
    <3> QED BY <3>1, <3>2
  <2> QED BY <1>6, <1>a, <1>b, <2>1, <2>2, TypesJoin DEF Cancel
<1> QED BY <1>1, <1>2, <1>3, <1>4, <1>5, <1>6 DEF TabStep, SendStep

(* What a step leaves of the rows and of the bucket keeps their types. *)
LEMMA StoresShrink ==
    ASSUME StoreTypes, row' \subseteq row, old' \subseteq row', rec' \subseteq rec \cup row,
           object' \subseteq Uploads,
           UNCHANGED bad, sweep' \in [Uploads -> {"no", "listed", "aborted"}],
           \/ UNCHANGED <<multi, parts>>
           \/ \E u \in Uploads : EndMultipart(u)
    PROVE  StoreTypes'
<1>1. multi' \in [Uploads -> {"none", "open", "gone"}] /\ parts' \in [Uploads -> SUBSET Parts]
    BY DEF StoreTypes, EndMultipart
<1> QED BY <1>1 DEF StoreTypes

(* The upload of a request past its start. *)
LEMMA ReqUpload ==
    ASSUME TInv, NEW r \in Requests, req[r].kind # "none",
           req[r].at \notin {"make"}
    PROVE  /\ req[r].up \in Uploads
           /\ req[r].at # "record" => req[r].kind # "start"
           /\ req[r].at = "record" => req[r].kind = "start"
BY DEF TInv, TypeOK, ReqsHaveUpload, Reqs

LEMMA HandleTypes ==
    ASSUME TInv, NEW r \in Requests, ServerStep(r)
    PROVE  TInv'
<1>0. TabTypes /\ ReqTypes /\ StoreTypes
    BY TypesSplit
<1>a. {"load", "list", "forget", "stitch", "stat", "probe", "finish", "abort", "dropfile", "droprow"}
          \subseteq Steps \ {"make", "record"}
    BY DEF Steps
<1>b. UNCHANGED <<bad, db, bucket, sweep>> => StoreTypes'
    BY <1>0 DEF StoreTypes, db, bucket
<1>1. CASE LoadUpload(r) \/ ListUploadedParts(r) \/ OpenVideo(r) \/ ProbeVideo(r) \/ StepFails(r)
  <2>1. UNCHANGED <<bad, db, bucket, sweep>>
      BY <1>1 DEF LoadUpload, ListUploadedParts, OpenVideo, ProbeVideo, StepFails
  <2>2. req[r].kind # "none" /\ req[r].at \notin {"make", "record"}
        /\ ((\E at \in Steps \ {"make", "record"} : GoTo(r, at)) \/ \E code : Answer(r, req[r].up, code))
    <3>1. CASE LoadUpload(r)
        BY <3>1, <1>a DEF LoadUpload, At
    <3>2. CASE ListUploadedParts(r)
        BY <3>2, <1>a DEF ListUploadedParts, At
    <3>3. CASE OpenVideo(r) \/ ProbeVideo(r)
        BY <3>3, <1>a DEF OpenVideo, ProbeVideo, At
    <3>4. CASE StepFails(r)
      <4>1. CASE At(r, "abort") \/ Refusing(r)
          BY <3>4, <4>1, <1>a DEF StepFails, At, Refusing
      <4>2. CASE ~(At(r, "abort") \/ Refusing(r))
          BY <3>4, <4>2 DEF StepFails
      <4> QED BY <4>1, <4>2
    <3> QED BY <1>1, <3>1, <3>2, <3>3, <3>4
  <2>3. req[r].up \in Uploads /\ req[r].kind \notin {"start", "none"}
      BY <2>2, ReqUpload
  <2>4. req[r].up # NoUpload
      BY <2>3, UploadsAssumption
  <2>5. TabTypes' /\ ReqTypes'
      BY <2>2, <2>3, <2>4, AnswerTypes, GoToTypes
  <2> QED BY <1>b, <2>1, <2>5, TypesJoin
<1>2. CASE CreateMultipart(r)
  <2>1. PICK u \in Uploads : /\ multi' = [multi EXCEPT ![u] = "open"]
                             /\ req' = [req EXCEPT ![r].up = u, ![r].at = "record"]
      BY <1>2 DEF CreateMultipart
  <2>2. req[r].kind = "start" /\ req[r] \in Reqs
      BY <1>0, <1>2 DEF CreateMultipart, At, ReqTypes, ReqsHaveUpload, Reqs
  <2>3. [req[r] EXCEPT !.up = u, !.at = "record"] \in Reqs
      BY <2>2 DEF Reqs, Steps
  <2>4. req' = [req EXCEPT ![r] = [req[r] EXCEPT !.up = u, !.at = "record"]]
      BY <1>0, <2>1 DEF ReqTypes
  <2>5. ReqTypes'
    <3>1. u # NoUpload
        BY UploadsAssumption
    <3>2. /\ req'[r].kind = "start" /\ req'[r].at = "record" /\ req'[r].up = u
          /\ \A q \in Requests \ {r} : req'[q] = req[q]
        BY <1>0, <2>2, <2>4 DEF ReqTypes, Reqs
    <3>3. req' \in [Requests -> Reqs]
        BY <1>0, <2>3, <2>4 DEF ReqTypes
    <3> QED BY <1>0, <3>1, <3>2, <3>3 DEF ReqTypes, ReqsHaveUpload
  <2>6. TabTypes'
      BY <1>0, <1>2 DEF CreateMultipart, tab, TabTypes, TabsHaveUpload
  <2>7. StoreTypes'
      BY <1>0, <1>2, <2>1 DEF CreateMultipart, db, StoreTypes
  <2> QED BY <2>5, <2>6, <2>7, TypesJoin
<1>3. CASE CreateVideoUpload(r)
  <2>1. req[r].up \in Uploads
      BY <1>3, ReqUpload DEF CreateVideoUpload, At
  <2>2. req[r].up # NoUpload
      BY <2>1, UploadsAssumption
  <2>3. TabTypes' /\ ReqTypes'
      BY <1>3, <2>2, AnswerTypes DEF CreateVideoUpload
  <2>4. multi' \in [Uploads -> {"none", "open", "gone"}] /\ parts' \in [Uploads -> SUBSET Parts]
      BY <1>0, <1>3 DEF CreateVideoUpload, EndMultipart, StoreTypes
  <2>5. StoreTypes'
      BY <1>0, <1>3, <2>1, <2>4 DEF CreateVideoUpload, StoreTypes
  <2> QED BY <2>3, <2>5, TypesJoin
<1>4. CASE DeleteVideoUpload(r) \/ FinishVideoUpload(r) \/ CompleteMultipart(r)
            \/ AbortUpload(r) \/ DeleteFile(r)
  <2>1. req[r].kind # "none" /\ req[r].at \notin {"make", "record"}
      BY <1>4 DEF DeleteVideoUpload, FinishVideoUpload, CompleteMultipart, AbortUpload, DeleteFile, At
  <2>2. req[r].up \in Uploads /\ req[r].kind \notin {"start", "none"}
      BY <2>1, ReqUpload
  <2>3. req[r].up # NoUpload
      BY <2>2, UploadsAssumption
  <2>4. (\E at \in Steps \ {"make", "record"} : GoTo(r, at)) \/ \E code : Answer(r, req[r].up, code)
      BY <1>4, <1>a DEF DeleteVideoUpload, FinishVideoUpload, CompleteMultipart, AbortUpload, DeleteFile
  <2>5. TabTypes' /\ ReqTypes'
      BY <2>2, <2>3, <2>4, AnswerTypes, GoToTypes
  <2>6. /\ row' \subseteq row /\ old' \subseteq row' /\ rec' \subseteq rec \cup row
        /\ object' \subseteq Uploads
        /\ UNCHANGED <<bad, sweep>>
      BY <1>0, <1>4, <2>2 DEF DeleteVideoUpload, FinishVideoUpload, CompleteMultipart, AbortUpload,
         DeleteFile, StoreTypes, db, bucket
  <2>7. UNCHANGED <<multi, parts>> \/ EndMultipart(req[r].up)
      BY <1>4 DEF DeleteVideoUpload, FinishVideoUpload, CompleteMultipart, AbortUpload, DeleteFile, bucket
  <2>8. sweep' \in [Uploads -> {"no", "listed", "aborted"}]
      BY <1>0, <2>6 DEF StoreTypes
  <2>9. StoreTypes'
      BY <1>0, <2>2, <2>6, <2>7, <2>8, StoresShrink
  <2> QED BY <2>5, <2>9, TypesJoin
<1>5. CASE StartFails(r)
  <2>1. TabTypes' /\ ReqTypes'
      BY <1>5, AnswerTypes DEF StartFails
  <2>2. multi' \in [Uploads -> {"none", "open", "gone"}] /\ parts' \in [Uploads -> SUBSET Parts]
      BY <1>0, <1>5 DEF StartFails, EndMultipart, StoreTypes
  <2>3. StoreTypes'
      BY <1>0, <1>5, <2>2 DEF StartFails, StoreTypes, db
  <2> QED BY <2>1, <2>3, TypesJoin
<1>6. CASE RequestDies(r)
  <2>1. TabTypes' /\ ReqTypes'
      BY <1>6, AnswerTypes DEF RequestDies
  <2> QED BY <1>6, <1>b, <2>1, TypesJoin DEF RequestDies
<1>7. CASE LoseCaller(r)
  <2>1. req[r] \in Reqs
      BY <1>0 DEF ReqTypes
  <2>2. req[r].up \in Uploads \cup {NoUpload} /\ req[r].tab \in Tabs
      BY <1>7, <2>1 DEF LoseCaller, Reqs
  <2>3. TabTypes'
      BY <1>7, <2>2, ToldTypes DEF LoseCaller
  <2>4. [req[r] EXCEPT !.tab = Nobody] \in Reqs
      BY <2>1 DEF Reqs
  <2>5. /\ req'[r].kind = req[r].kind /\ req'[r].at = req[r].at /\ req'[r].up = req[r].up
        /\ \A q \in Requests \ {r} : req'[q] = req[q]
      BY <1>0, <1>7, <2>1 DEF LoseCaller, ReqTypes, Reqs
  <2>6. ReqTypes'
    <3>1. req' \in [Requests -> Reqs]
        BY <1>0, <1>7, <2>4 DEF LoseCaller, ReqTypes
    <3> QED BY <1>0, <2>5, <3>1 DEF ReqTypes, ReqsHaveUpload
  <2> QED BY <1>7, <1>b, <2>3, <2>6, TypesJoin DEF LoseCaller
<1> QED BY <1>1, <1>2, <1>3, <1>4, <1>5, <1>6, <1>7 DEF ServerStep, Handle

LEMMA SweepTypes ==
    ASSUME TInv, StaleVideoUploads \/ \E u \in Uploads : SweepStep(u)
    PROVE  TInv'
<1>0. TabTypes /\ ReqTypes /\ StoreTypes
    BY TypesSplit
<1>a. UNCHANGED <<saved, tab>> => TabTypes'
    BY <1>0 DEF TabTypes, tab, TabsHaveUpload
<1>b. UNCHANGED req => ReqTypes'
    BY <1>0 DEF ReqTypes, ReqsHaveUpload
<1>1. CASE StaleVideoUploads
  <2>1. StoreTypes'
      BY <1>0, <1>1 DEF StaleVideoUploads, StoreTypes, db, bucket
  <2> QED BY <1>1, <1>a, <1>b, <2>1, TypesJoin DEF StaleVideoUploads
<1>2. ASSUME NEW u \in Uploads, GetsOld(u) \/ SweepAborts(u) \/ SweepForgets(u) \/ SweepSkips(u)
      PROVE  TInv'
  <2>1. StoreTypes'
    <3>1. multi' \in [Uploads -> {"none", "open", "gone"}] /\ parts' \in [Uploads -> SUBSET Parts]
          /\ sweep' \in [Uploads -> {"no", "listed", "aborted"}]
        BY <1>0, <1>2 DEF GetsOld, SweepAborts, SweepForgets, SweepSkips, StoreTypes, EndMultipart, bucket
    <3> QED BY <1>0, <1>2, <3>1 DEF GetsOld, SweepAborts, SweepForgets, SweepSkips, StoreTypes, db, bucket
  <2>2. UNCHANGED <<saved, tab, req>>
      BY <1>2 DEF GetsOld, SweepAborts, SweepForgets, SweepSkips
  <2> QED BY <1>a, <1>b, <2>1, <2>2, TypesJoin
<1>3. ASSUME NEW u \in Uploads, DeleteVideo(u)
      PROVE  TInv'
  <2>1. StoreTypes'
      BY <1>0, <1>3 DEF DeleteVideo, StoreTypes, bucket
  <2>2. u # NoUpload /\ "dropfile" \in Steps
      BY UploadsAssumption DEF Steps
  <2>3. ReqTypes'
      BY <1>0, <1>3, <2>2, SendTypes DEF DeleteVideo
  <2> QED BY <1>3, <1>a, <2>1, <2>3, TypesJoin DEF DeleteVideo
<1> QED BY <1>1, <1>2, <1>3 DEF SweepStep

LEMMA NextTypes == TInv /\ [Next]_vars => TInv'
<1> SUFFICES ASSUME TInv, [Next]_vars PROVE TInv'
    OBVIOUS
<1>1. CASE UNCHANGED vars
    BY <1>1 DEF vars, tab, db, bucket, TInv, TypeOK, TabsHaveUpload, ReqsHaveUpload
<1> QED BY <1>1, TabStepTypes, HandleTypes, SweepTypes DEF Next

(* Every variable keeps its type, whatever is lost, dies or goes on: in    *)
(* particular only rows of uploads under way are old, and a tab counts no  *)
(* round past its last.                                                    *)
THEOREM UploadTypes == Spec => []TypeOK
<1>1. TInv => TypeOK
    BY DEF TInv
<1> QED BY <1>1, InitTypes, NextTypes, PTL DEF Spec

-----------------------------------------------------------------------------
(* Whole files.  ReadyIsWhole is not inductive: it rests on what each
   request has seen to, and on an upload that is being started being known
   to nobody else, so that no other request deletes or lists what it is
   about to. *)

Known(u) == saved = u \/ \E t \in Tabs : up[t] = u
Taken(u) == u \in row \cup rec \cup object \/ Known(u)
Starts(r) == req[r].kind = "start" /\ req[r].at = "record"

(* An upload that is known anywhere was made. *)
Fresh == \A u \in Uploads : (Taken(u) \/ \E r \in Requests : req[r].up = u) => multi[u] # "none"

(* One that is being started is known to its request alone. *)
Starting ==
    \A r \in Requests : Starts(r) =>
        /\ ~Taken(req[r].up)
        /\ \A q \in Requests \ {r} : req[q].up # req[r].up

Refs == Fresh /\ Starting

(* A complete that has stitched the parts, and has not answered. *)
Late == {"stat", "probe", "finish"}
Stitched(r) == req[r].kind # "delete" /\ req[r].at \in Late \cup {"dropfile", "droprow"}

(* An upload is stitched once, and before it is listed. *)
Single ==
    /\ \A u \in rec : multi[u] = "gone"
    /\ \A r \in Requests : Stitched(r) =>
        /\ multi[req[r].up] = "gone"
        /\ req[r].up \notin rec
        /\ \A q \in Requests \ {r} : req[q].up = req[r].up => ~Stitched(q)

HasFile == \A r \in Requests : req[r].at \in Late /\ req[r].up \in row => req[r].up \in object
Checked == \A r \in Requests : req[r].at = "finish" => ~bad
Deleting == \A r \in Requests : req[r].kind = "delete" => req[r].at = "dropfile" /\ req[r].up \notin Stored

Whole == row \cap rec = {} /\ Single /\ HasFile /\ Checked /\ Deleting /\ ReadyIsWhole

SInv == TInv /\ Refs /\ Whole

LEMMA SplitS == SInv <=> TInv /\ Refs /\ Whole
BY DEF SInv

LEMMA JoinS == TInv' /\ Refs' /\ Whole' => SInv'
BY DEF SInv

(* What a step changes of the requests. *)
LEMMA GoToIs ==
    ASSUME TInv, NEW r \in Requests, NEW at, GoTo(r, at)
    PROVE  /\ req'[r].kind = req[r].kind /\ req'[r].up = req[r].up /\ req'[r].at = at
           /\ \A q \in Requests \ {r} : req'[q] = req[q]
           /\ UNCHANGED <<saved, pc, up>>
<1>1. req \in [Requests -> Reqs]
    BY DEF TInv, TypeOK
<1> QED BY <1>1 DEF GoTo, Reqs, tab

LEMMA AnswerIs ==
    ASSUME TInv, NEW r \in Requests, NEW u, NEW code, Answer(r, u, code)
    PROVE  /\ req'[r] = NoReq
           /\ \A q \in Requests \ {r} : req'[q] = req[q]
BY DEF TInv, TypeOK, Answer

LEMMA SendIs ==
    ASSUME TInv, NEW kind, NEW at, NEW u, NEW t, Send(kind, at, u, t)
    PROVE  \E r \in Requests :
               /\ req[r] = NoReq
               /\ req'[r].kind = kind /\ req'[r].at = at /\ req'[r].up = u
               /\ \A q \in Requests \ {r} : req'[q] = req[q]
BY DEF TInv, TypeOK, Send, Free

LEMMA NoReqIs == NoReq.kind = "none" /\ NoReq.at = "load" /\ NoReq.up = NoUpload
BY DEF NoReq

(* Nothing becomes known to a tab by being told, but an upload answered.   *)
LEMMA ToldKnows ==
    ASSUME TInv, NEW t \in Tabs, NEW u, NEW code, Told(t, u, code), NEW w \in Uploads, Known(w)'
    PROVE  Known(w) \/ (code = "ok" /\ w = u)
<1>1. up \in [Tabs -> Uploads \cup {NoUpload}] /\ w # NoUpload
    BY UploadsAssumption DEF TInv, TypeOK
<1>2. saved' = saved \/ saved' = NoUpload \/ (code = "ok" /\ saved' = u)
    BY DEF Told
<1>3. up' = up \/ up' = [up EXCEPT ![t] = NoUpload] \/ (code = "ok" /\ up' = [up EXCEPT ![t] = u])
    BY DEF Told, GoOn, Ask, Over
<1> QED BY <1>1, <1>2, <1>3 DEF Known

LEMMA AnswerKnows ==
    ASSUME TInv, NEW r \in Requests, NEW u, NEW code, Answer(r, u, code), NEW w \in Uploads, Known(w)'
    PROVE  Known(w) \/ (code = "ok" /\ w = u)
<1>1. req[r].tab \in Tabs \cup {Nobody}
    BY DEF TInv, TypeOK, Reqs
<1>2. CASE req[r].tab = Nobody
    BY <1>2 DEF Answer, Known, tab
<1>3. CASE req[r].tab # Nobody
    BY <1>1, <1>3, ToldKnows DEF Answer
<1> QED BY <1>2, <1>3

(* A step that makes nothing known but what a request past its start asks
   about, and starts nothing, keeps the references apart. *)
LEMMA RefsKeep ==
    ASSUME TInv, Refs,
           \A u \in Uploads : Taken(u)' => Taken(u) \/ \E r \in Requests : req[r].up = u /\ ~Starts(r),
           \A r \in Requests : \/ req'[r].up = req[r].up
                               \/ req'[r].up = NoUpload
                               \/ Taken(req'[r].up),
           \A r \in Requests : Starts(r)' => Starts(r) /\ req'[r].up = req[r].up,
           \A u \in Uploads : multi'[u] = "none" => multi[u] = "none"
    PROVE  Refs'
<1>1. ASSUME NEW r \in Requests, Starts(r)'
      PROVE  (~Taken(req[r].up) /\ \A q \in Requests \ {r} : req[q].up # req[r].up)'
  <2>1. Starts(r) /\ req'[r].up = req[r].up /\ req[r].up \in Uploads /\ req[r].up # NoUpload
    <3>1. Starts(r) /\ req'[r].up = req[r].up
        BY <1>1
    <3> QED BY <3>1, UploadsAssumption DEF Starts, TInv, TypeOK, ReqsHaveUpload, Reqs
  <2>2. ~Taken(req[r].up) /\ \A q \in Requests \ {r} : req[q].up # req[r].up
      BY <2>1 DEF Refs, Starting
  <2>3. ~(\E q \in Requests : req[q].up = req[r].up /\ ~Starts(q))
      BY <2>1, <2>2
  <2>4. PICK u \in Uploads : u = req[r].up
      BY <2>1
  <2>5. ~Taken(u)'
      BY <2>2, <2>3, <2>4
  <2>6. ~Taken(req[r].up)'
      BY <2>1, <2>4, <2>5 DEF Taken, Known
  <2> QED BY <2>1, <2>2, <2>6
<1>2. Starting'
    BY <1>1 DEF Starting
<1>3. ASSUME NEW u \in Uploads, Taken(u)' \/ \E r \in Requests : req'[r].up = u
      PROVE  multi'[u] # "none"
  <2>1. Taken(u) \/ \E r \in Requests : req[r].up = u
      BY <1>3, UploadsAssumption
  <2> QED BY <2>1 DEF Refs, Fresh
<1>4. Fresh'
    BY <1>3 DEF Fresh
<1> QED BY <1>2, <1>4 DEF Refs

(* A step that lists nothing, keeps the files, and takes no request to
   where something is made of them, but one that has stitched its own,
   keeps the files whole. *)
LEMMA WholeKeep ==
    ASSUME TInv, Whole, row' \subseteq row, UNCHANGED <<bad, rec, object>>,
           \A u \in Uploads : multi[u] = "gone" => multi'[u] = "gone",
           \A r \in Requests :
               \/ req'[r] = NoReq
               \/ req'[r].kind = req[r].kind /\ req'[r].at = req[r].at /\ req'[r].up = req[r].up
               \/ req'[r].at \notin Late \cup {"dropfile", "droprow"} /\ req'[r].kind # "delete"
               \/ /\ Stitched(r) /\ Stitched(r)' /\ req'[r].up = req[r].up
                  /\ req'[r].at \in Late => req[r].at \in Late
                  /\ req'[r].at = "finish" => ~bad
    PROVE  Whole'
<1>1. (row \cap rec = {})' /\ ReadyIsWhole'
    BY DEF Whole, ReadyIsWhole
<1>2. \A r \in Requests : Stitched(r)' => Stitched(r) /\ req'[r].up = req[r].up
    BY NoReqIs DEF Stitched, Late
<1>3. \A r \in Requests : Stitched(r) => req[r].up \in Uploads
  <2> SUFFICES ASSUME NEW r \in Requests, Stitched(r) PROVE req[r].up \in Uploads
      OBVIOUS
  <2>1. req[r].kind \notin {"none", "start"} /\ req[r] \in Reqs
      BY DEF Stitched, Late, TInv, TypeOK, ReqsHaveUpload
  <2> QED BY <2>1, UploadsAssumption DEF TInv, ReqsHaveUpload, Reqs
<1>4. Single'
  <2>1. rec \subseteq Uploads
      BY DEF TInv, TypeOK
  <2> QED BY <1>2, <1>3, <2>1 DEF Whole, Single
<1>5. HasFile'
    BY NoReqIs DEF Whole, HasFile, Late
<1>6. Checked'
    BY NoReqIs DEF Whole, Checked, Late
<1>7. Deleting'
    BY NoReqIs DEF Whole, Deleting, Stored, Stitched
<1> QED BY <1>1, <1>4, <1>5, <1>6, <1>7 DEF Whole

(* What a tab does to the stores, and to the requests. *)
LEMMA TabStepIs ==
    ASSUME TInv, NEW t \in Tabs, TabStep(t)
    PROVE  /\ UNCHANGED <<bad, row, rec, object, multi, sweep>>
           /\ \A u \in Uploads : Known(u)' => Known(u)
           /\ \A r \in Requests :
                  \/ req'[r].kind = req[r].kind /\ req'[r].at = req[r].at /\ req'[r].up = req[r].up
                  \/ /\ req[r] = NoReq
                     /\ req'[r].at \in {"load", "make"} /\ req'[r].kind # "delete"
                     /\ req'[r].up = NoUpload \/ req'[r].up = up[t]
<1>0. req \in [Requests -> Reqs] /\ up \in [Tabs -> Uploads \cup {NoUpload}]
    BY DEF TInv, TypeOK
<1>1. UNCHANGED <<bad, row, rec, object, multi, sweep>>
    BY DEF TabStep, SendStep, ChooseFile, Call, PutPart, PutPartShort, SendFails, AllSent, Cancel, Leave,
       CloseTab, db, bucket
<1>2. \A u \in Uploads : Known(u)' => Known(u)
  <2>1. saved' \in {saved, NoUpload}
      BY DEF TabStep, SendStep, ChooseFile, Call, PutPart, PutPartShort, SendFails, AllSent, Cancel, Leave,
         CloseTab, tab
  <2>2. up' \in {up, [up EXCEPT ![t] = NoUpload], [up EXCEPT ![t] = saved]}
      BY DEF TabStep, SendStep, ChooseFile, Call, PutPart, PutPartShort, SendFails, AllSent, Cancel, Leave,
         CloseTab, tab, Over, Ask
  <2> QED BY <1>0, <2>1, <2>2, UploadsAssumption DEF Known
<1>3. \A r \in Requests :
          \/ req'[r].kind = req[r].kind /\ req'[r].at = req[r].at /\ req'[r].up = req[r].up
          \/ /\ req[r] = NoReq
             /\ req'[r].at \in {"load", "make"} /\ req'[r].kind # "delete"
             /\ req'[r].up = NoUpload \/ req'[r].up = up[t]
  <2>1. CASE UNCHANGED req
      BY <2>1
  <2>2. CASE req' = WithoutTab(t)
      BY <1>0, <2>2 DEF WithoutTab, Reqs
  <2>3. CASE Call(t)
    <3>1. CASE pc[t] \in {"status", "again"} /\ Send("status", "load", up[t], t)
        BY <3>1, SendIs
    <3>2. CASE pc[t] = "start" /\ Send("start", "make", NoUpload, t)
        BY <3>2, SendIs
    <3>3. CASE pc[t] = "complete" /\ Send("complete", "load", up[t], t)
        BY <3>3, SendIs
    <3> QED BY <2>3, <3>1, <3>2, <3>3 DEF Call
  <2>4. CASE Cancel(t)
    <3>1. CASE Send("cancel", "load", up[t], Nobody)
        BY <3>1, SendIs
    <3> QED BY <2>4, <3>1 DEF Cancel
  <2> QED BY <2>1, <2>2, <2>3, <2>4
          DEF TabStep, SendStep, ChooseFile, PutPart, PutPartShort, SendFails, AllSent, Leave, CloseTab
<1> QED BY <1>1, <1>2, <1>3

LEMMA TabStepSafe ==
    ASSUME TInv, Refs, Whole, NEW t \in Tabs, TabStep(t)
    PROVE  Refs' /\ Whole'
<1>1. UNCHANGED <<bad, row, rec, object, multi>>
    BY TabStepIs
<1>2. \A r \in Requests :
          \/ req'[r].kind = req[r].kind /\ req'[r].at = req[r].at /\ req'[r].up = req[r].up
          \/ /\ req'[r].at \in {"load", "make"} /\ req'[r].kind # "delete"
             /\ req'[r].up = NoUpload \/ req'[r].up = up[t]
    BY TabStepIs
<1>3. \A u \in Uploads : Taken(u)' => Taken(u)
    BY <1>1, TabStepIs DEF Taken
<1>4. Taken(up[t])
    BY DEF Taken, Known
<1>5. Refs'
  <2>1. \A r \in Requests : \/ req'[r].up = req[r].up
                            \/ req'[r].up = NoUpload
                            \/ Taken(req'[r].up)
      BY <1>2, <1>4
  <2>2. \A r \in Requests : Starts(r)' => Starts(r) /\ req'[r].up = req[r].up
      BY <1>2 DEF Starts
  <2> QED BY <1>1, <1>3, <2>1, <2>2, RefsKeep
<1>6. Whole'
  <2>1. {"load", "make"} \cap (Late \cup {"dropfile", "droprow"}) = {}
      BY DEF Late
  <2> QED BY <1>1, <1>2, <2>1, WholeKeep
<1> QED BY <1>5, <1>6

(* A reply, or a step on the way to one, that makes known or stored only
   the upload it is about. *)
LEMMA ReplyRefs ==
    ASSUME TInv, Refs, NEW r \in Requests, req[r].kind # "none",
           \/ \E at \in Steps \ {"record"} : GoTo(r, at)
           \/ \E code : Answer(r, req[r].up, code) /\ (code = "ok" => ~Starts(r)),
           \A u \in Uploads : u \in row' \cup rec' \cup object' =>
               u \in row \cup rec \cup object \/ (u = req[r].up /\ ~Starts(r)),
           \A u \in Uploads : multi'[u] = "none" => multi[u] = "none"
    PROVE  Refs'
<1>1. CASE \E at \in Steps \ {"record"} : GoTo(r, at)
  <2>1. PICK at \in Steps \ {"record"} : GoTo(r, at)
      BY <1>1
  <2>2. /\ req'[r].up = req[r].up /\ req'[r].at = at
        /\ \A q \in Requests \ {r} : req'[q] = req[q]
        /\ UNCHANGED <<saved, pc, up>>
      BY <2>1, GoToIs
  <2>3. \A u \in Uploads : Taken(u)' => Taken(u) \/ \E q \in Requests : req[q].up = u /\ ~Starts(q)
      BY <2>2 DEF Taken, Known
  <2>4. \A q \in Requests : req'[q].up = req[q].up
      BY <2>2
  <2>5. \A q \in Requests : Starts(q)' => Starts(q) /\ req'[q].up = req[q].up
      BY <2>2 DEF Starts
  <2> QED BY <2>3, <2>4, <2>5, RefsKeep
<1>2. CASE \E code : Answer(r, req[r].up, code) /\ (code = "ok" => ~Starts(r))
  <2>1. PICK code : Answer(r, req[r].up, code) /\ (code = "ok" => ~Starts(r))
      BY <1>2
  <2>2. req'[r] = NoReq /\ \A q \in Requests \ {r} : req'[q] = req[q]
      BY <2>1, AnswerIs
  <2>3. \A u \in Uploads : Known(u)' => Known(u) \/ (u = req[r].up /\ ~Starts(r))
      BY <2>1, AnswerKnows
  <2>4. \A u \in Uploads : Taken(u)' => Taken(u) \/ \E q \in Requests : req[q].up = u /\ ~Starts(q)
      BY <2>3 DEF Taken
  <2>5. \A q \in Requests : req'[q].up = req[q].up \/ req'[q].up = NoUpload
      BY <2>2, NoReqIs
  <2>6. \A q \in Requests : Starts(q)' => Starts(q) /\ req'[q].up = req[q].up
      BY <2>2, NoReqIs DEF Starts
  <2> QED BY <2>4, <2>5, <2>6, RefsKeep
<1> QED BY <1>1, <1>2

LEMMA ReplyWhole ==
    ASSUME TInv, Whole, NEW r \in Requests,
           \/ req[r].kind # "delete" /\ \E at \in {"list", "abort", "forget", "stitch"} : GoTo(r, at)
           \/ Stitched(r) /\ GoTo(r, "droprow")
           \/ \E u, code : Answer(r, u, code),
           row' \subseteq row, UNCHANGED <<bad, rec, object>>,
           \A u \in Uploads : multi[u] = "gone" => multi'[u] = "gone"
    PROVE  Whole'
<1>1. CASE req[r].kind # "delete" /\ \E at \in {"list", "abort", "forget", "stitch"} : GoTo(r, at)
  <2>1. PICK at \in {"list", "abort", "forget", "stitch"} : GoTo(r, at)
      BY <1>1
  <2>2. /\ req'[r].at = at /\ req'[r].kind # "delete"
        /\ \A q \in Requests \ {r} : req'[q] = req[q]
      BY <1>1, <2>1, GoToIs
  <2>3. at \notin Late \cup {"dropfile", "droprow"}
      BY DEF Late
  <2> QED BY <2>2, <2>3, WholeKeep
<1>2. CASE Stitched(r) /\ GoTo(r, "droprow")
  <2>1. /\ req'[r].kind = req[r].kind /\ req'[r].up = req[r].up /\ req'[r].at = "droprow"
        /\ \A q \in Requests \ {r} : req'[q] = req[q]
      BY <1>2, GoToIs
  <2>2. Stitched(r)' /\ "droprow" \notin Late
      BY <1>2, <2>1 DEF Stitched, Late
  <2> QED BY <1>2, <2>1, <2>2, WholeKeep
<1>3. CASE \E u, code : Answer(r, u, code)
  <2>1. PICK u, code : Answer(r, u, code)
      BY <1>3
  <2>2. req'[r] = NoReq /\ \A q \in Requests \ {r} : req'[q] = req[q]
      BY <2>1, AnswerIs
  <2> QED BY <2>2, WholeKeep
<1> QED BY <1>1, <1>2, <1>3

(* The steps of the API that list nothing and touch no file. *)
LEMMA PlainSafe ==
    ASSUME TInv, Refs, Whole, NEW r \in Requests,
           \/ LoadUpload(r) \/ ListUploadedParts(r) \/ DeleteVideoUpload(r) \/ AbortUpload(r)
           \/ StartFails(r) \/ StepFails(r) \/ RequestDies(r)
    PROVE  Refs' /\ Whole'
<1>1. row' \subseteq row /\ UNCHANGED <<bad, rec, object>>
    BY DEF LoadUpload, ListUploadedParts, DeleteVideoUpload, AbortUpload, StartFails, StepFails,
       RequestDies, db, bucket
<1>2. \A u \in Uploads : /\ multi'[u] = "none" => multi[u] = "none"
                         /\ multi[u] = "gone" => multi'[u] = "gone"
    BY DEF LoadUpload, ListUploadedParts, DeleteVideoUpload, AbortUpload, StartFails, StepFails,
       RequestDies, bucket, EndMultipart, TInv, TypeOK
<1>3. req[r].kind # "none"
    BY DEF LoadUpload, ListUploadedParts, DeleteVideoUpload, AbortUpload, StartFails, StepFails, RequestDies, At
<1>4. req[r].kind = "delete" => req[r].at = "dropfile"
    BY DEF Whole, Deleting
<1>5. \/ /\ req[r].kind # "delete"
         /\ \E at \in {"list", "abort", "forget", "stitch"} : GoTo(r, at)
      \/ Stitched(r) /\ GoTo(r, "droprow")
      \/ \E code \in {"not_found", "incomplete", "error", "network"} : Answer(r, req[r].up, code)
      \/ Answer(r, req[r].up, "ok") /\ ~Starts(r)
  <2>1. CASE LoadUpload(r)
      BY <1>4, <2>1 DEF LoadUpload, At
  <2>2. CASE ListUploadedParts(r)
      BY <1>4, <2>2 DEF ListUploadedParts, At, Starts
  <2>3. CASE DeleteVideoUpload(r) \/ AbortUpload(r) \/ StartFails(r) \/ RequestDies(r)
      BY <1>4, <2>3 DEF DeleteVideoUpload, AbortUpload, StartFails, RequestDies, At
  <2>4. CASE StepFails(r)
      BY <1>4, <2>4 DEF StepFails, At, Refusing, Stitched
  <2> QED BY <2>1, <2>2, <2>3, <2>4
<1>6. Whole'
    BY <1>1, <1>2, <1>5, ReplyWhole
<1>7. Refs'
  <2>1. {"list", "abort", "forget", "stitch", "droprow"} \subseteq Steps \ {"record"}
      BY DEF Steps
  <2>2. \/ \E at \in Steps \ {"record"} : GoTo(r, at)
        \/ \E code : Answer(r, req[r].up, code) /\ (code = "ok" => ~Starts(r))
      BY <1>5, <2>1
  <2> QED BY <1>1, <1>2, <1>3, <2>2, ReplyRefs
<1> QED BY <1>6, <1>7

LEMMA LoseCallerSafe ==
    ASSUME TInv, Refs, Whole, NEW r \in Requests, LoseCaller(r)
    PROVE  Refs' /\ Whole'
<1>0. req \in [Requests -> Reqs]
    BY DEF TInv, TypeOK
<1>1. UNCHANGED <<bad, row, rec, object, multi>>
    BY DEF LoseCaller, db, bucket
<1>2. \A q \in Requests : req'[q].kind = req[q].kind /\ req'[q].at = req[q].at /\ req'[q].up = req[q].up
    BY <1>0 DEF LoseCaller, Reqs
<1>3. req[r].tab \in Tabs
    BY <1>0 DEF LoseCaller, Reqs
<1>4. \A u \in Uploads : Known(u)' => Known(u)
    BY <1>3, ToldKnows DEF LoseCaller
<1>5. \A u \in Uploads : Taken(u)' => Taken(u)
    BY <1>1, <1>4 DEF Taken
<1>6. \A q \in Requests : Starts(q)' => Starts(q)
    BY <1>2 DEF Starts
<1>7. Refs'
    BY <1>1, <1>2, <1>5, <1>6, RefsKeep
<1>8. Whole'
    BY <1>1, <1>2, WholeKeep
<1> QED BY <1>7, <1>8

(* The steps of a complete that has stitched, and those that make, list or
   delete files. *)
LEMMA FileStepRefs ==
    ASSUME TInv, Refs, Whole, NEW r \in Requests,
           CompleteMultipart(r) \/ OpenVideo(r) \/ ProbeVideo(r) \/ FinishVideoUpload(r) \/ DeleteFile(r)
    PROVE  Refs'
<1>1. req[r].kind # "none" /\ ~Starts(r)
    BY DEF CompleteMultipart, OpenVideo, ProbeVideo, FinishVideoUpload, DeleteFile, At, Starts
<1>2. (\E at \in Steps \ {"record"} : GoTo(r, at)) \/ \E code : Answer(r, req[r].up, code)
  <2>1. {"stat", "probe", "finish", "dropfile", "droprow"} \subseteq Steps \ {"record"}
      BY DEF Steps
  <2> QED BY <2>1 DEF CompleteMultipart, OpenVideo, ProbeVideo, FinishVideoUpload, DeleteFile
<1>3. \A u \in Uploads : u \in row' \cup rec' \cup object' =>
          u \in row \cup rec \cup object \/ u = req[r].up
    BY DEF CompleteMultipart, OpenVideo, ProbeVideo, FinishVideoUpload, DeleteFile, db, bucket
<1>4. \A u \in Uploads : multi'[u] = "none" => multi[u] = "none"
    BY DEF CompleteMultipart, OpenVideo, ProbeVideo, FinishVideoUpload, DeleteFile, bucket, EndMultipart,
       TInv, TypeOK
<1> QED BY <1>1, <1>2, <1>3, <1>4, ReplyRefs

(* What is stitched was open, so nobody has stitched it before. *)
LEMMA CompleteWhole ==
    ASSUME TInv, Whole, NEW r \in Requests, CompleteMultipart(r)
    PROVE  Whole'
<1> DEFINE u == req[r].up
<1>0. req[r].at = "stitch" /\ req[r].kind \notin {"none", "delete"} /\ u \in Uploads
    BY ReqUpload DEF CompleteMultipart, At, Whole, Deleting
<1>1. CASE multi[u] = "open"
  <2>1. /\ UNCHANGED <<bad, row, rec>> /\ object' = object \cup {u}
        /\ multi' = [multi EXCEPT ![u] = "gone"]
        /\ GoTo(r, "stat") \/ Answer(r, u, "error")
      BY <1>1 DEF CompleteMultipart, EndMultipart, db
  <2>2. /\ \A q \in Requests \ {r} : req'[q] = req[q]
        /\ \/ req'[r].at = "stat" /\ req'[r].kind # "delete" /\ req'[r].up = u
           \/ req'[r] = NoReq
    <3>1. CASE GoTo(r, "stat")
        BY <1>0, <3>1, GoToIs
    <3>2. CASE Answer(r, u, "error")
        BY <3>2, AnswerIs
    <3> QED BY <2>1, <3>1, <3>2
  <2>3. multi \in [Uploads -> {"none", "open", "gone"}]
      BY DEF TInv, TypeOK
  <2>4. u \notin rec /\ \A q \in Requests : req[q].up = u => ~Stitched(q)
      BY <1>0, <1>1 DEF Whole, Single
  <2>5. (row \cap rec = {})' /\ ReadyIsWhole'
      BY <2>1 DEF Whole, ReadyIsWhole
  <2>6. \A q \in Requests \ {r} : Stitched(q)' <=> Stitched(q)
      BY <2>2 DEF Stitched
  <2>7. Stitched(r)' => req'[r].up = u
      BY <2>2, NoReqIs DEF Stitched, Late
  <2>8. Single'
    <3>1. \A w \in Uploads : multi[w] = "gone" => multi'[w] = "gone"
        BY <2>1, <2>3
    <3>2. rec \subseteq Uploads /\ multi'[u] = "gone"
        BY <1>0, <2>1, <2>3 DEF TInv, TypeOK
    <3>3. \A q \in Requests : Stitched(q) => req[q].up \in Uploads
        BY ReqUpload DEF Stitched, Late, TInv, ReqsHaveUpload
    <3> QED BY <2>1, <2>2, <2>4, <2>6, <2>7, <3>1, <3>2, <3>3 DEF Whole, Single
  <2>9. HasFile' /\ Checked'
      BY <2>1, <2>2, NoReqIs DEF Whole, HasFile, Checked, Late
  <2>10. Deleting'
      BY <2>1, <2>2, NoReqIs DEF Whole, Deleting, Stored
  <2> QED BY <2>5, <2>8, <2>9, <2>10 DEF Whole
<1>2. CASE multi[u] # "open"
  <2>1. Answer(r, u, "error") /\ UNCHANGED <<bad, row, rec, object, multi>>
      BY <1>2 DEF CompleteMultipart, db, bucket
  <2> QED BY <2>1, ReplyWhole
<1> QED BY <1>1, <1>2

LEMMA ProbeWhole ==
    ASSUME TInv, Whole, NEW r \in Requests, OpenVideo(r) \/ ProbeVideo(r)
    PROVE  Whole'
<1>0. Stitched(r) /\ req[r].at \in Late
    BY DEF OpenVideo, ProbeVideo, At, Whole, Deleting, Stitched, Late
<1>1. UNCHANGED <<bad, row, rec, object, multi>>
    BY DEF OpenVideo, ProbeVideo, db, bucket
<1>2. PICK at \in {"probe", "finish", "dropfile"} : GoTo(r, at) /\ (at = "finish" => ~bad)
    BY DEF OpenVideo, ProbeVideo
<1>3. /\ req'[r].kind = req[r].kind /\ req'[r].up = req[r].up /\ req'[r].at = at
      /\ \A q \in Requests \ {r} : req'[q] = req[q]
    BY <1>2, GoToIs
<1>4. Stitched(r)'
    BY <1>0, <1>3 DEF Stitched, Late
<1> QED BY <1>0, <1>1, <1>2, <1>3, <1>4, WholeKeep

LEMMA FinishWhole ==
    ASSUME TInv, Whole, NEW r \in Requests, FinishVideoUpload(r)
    PROVE  Whole'
<1> DEFINE u == req[r].up
<1>0. Stitched(r) /\ req[r].at \in Late /\ req[r].at = "finish"
    BY DEF FinishVideoUpload, At, Whole, Deleting, Stitched, Late
<1>1. UNCHANGED <<bad, object, multi>>
    BY DEF FinishVideoUpload, bucket
<1>2. req'[r] = NoReq /\ \A q \in Requests \ {r} : req'[q] = req[q]
    BY AnswerIs DEF FinishVideoUpload
<1>3. CASE UNCHANGED <<row, rec>>
    BY <1>1, <1>2, <1>3, WholeKeep
<1>4. CASE u \in row /\ row' = row \ {u} /\ rec' = rec \cup {u}
  <2>1. ~bad /\ u \in object
      BY <1>0, <1>4 DEF Whole, Checked, HasFile
  <2>2. (row \cap rec = {})' /\ ReadyIsWhole'
      BY <1>1, <1>4, <2>1 DEF Whole, ReadyIsWhole
  <2>3. /\ ~Stitched(r)'
        /\ \A q \in Requests \ {r} : Stitched(q)' <=> Stitched(q)
      BY <1>2, NoReqIs DEF Stitched, Late
  <2>4. Single'
      BY <1>0, <1>1, <1>2, <1>4, <2>3 DEF Whole, Single
  <2>5. HasFile' /\ Checked'
      BY <1>1, <1>2, <1>4, NoReqIs DEF Whole, HasFile, Checked, Late
  <2>6. Deleting'
      BY <1>2, <1>4, NoReqIs DEF Whole, Deleting, Stored
  <2> QED BY <2>2, <2>4, <2>5, <2>6 DEF Whole
<1> QED BY <1>3, <1>4 DEF FinishVideoUpload, db

(* What deletes a file deletes one it has itself stitched and not listed,
   or one no longer listed. *)
LEMMA DeleteFileWhole ==
    ASSUME TInv, Whole, NEW r \in Requests, DeleteFile(r)
    PROVE  Whole'
<1> DEFINE u == req[r].up
<1>0. /\ req[r].at = "dropfile" /\ req[r].kind # "none"
      /\ UNCHANGED <<bad, row, rec, multi>> /\ object' = object \ {u}
    BY DEF DeleteFile, At, db
<1>1. /\ \A q \in Requests \ {r} : req'[q] = req[q]
      /\ \/ req'[r] = NoReq
         \/ req'[r].at = "droprow" /\ req'[r].kind # "delete" /\ req'[r].up = u /\ req[r].kind # "delete"
  <2>1. CASE Answer(r, u, "ok")
      BY <2>1, AnswerIs
  <2>2. CASE req[r].kind # "delete" /\ GoTo(r, "droprow")
      BY <2>2, GoToIs
  <2> QED BY <2>1, <2>2 DEF DeleteFile
<1>2. u \notin rec /\ \A q \in Requests : req[q].at \in Late /\ req[q].up = u => u \notin row
  <2>1. CASE req[r].kind = "delete"
      BY <2>1 DEF Whole, Deleting, Stored
  <2>2. CASE req[r].kind # "delete"
    <3>1. Stitched(r)
        BY <1>0, <2>2 DEF Stitched
    <3>2. u \notin rec /\ \A q \in Requests \ {r} : req[q].up = u => ~Stitched(q)
        BY <3>1 DEF Whole, Single
    <3>3. ASSUME NEW q \in Requests, req[q].at \in Late PROVE q # r /\ Stitched(q)
        BY <1>0, <3>3 DEF Whole, Deleting, Stitched, Late
    <3> QED BY <3>2, <3>3
  <2> QED BY <2>1, <2>2
<1>3. (row \cap rec = {})' /\ ReadyIsWhole'
    BY <1>0, <1>2 DEF Whole, ReadyIsWhole
<1>4. \A q \in Requests : Stitched(q)' => Stitched(q) /\ req'[q].up = req[q].up
    BY <1>0, <1>1, NoReqIs DEF Stitched, Late
<1>5. Single'
    BY <1>0, <1>4 DEF Whole, Single
<1>6. HasFile' /\ Checked'
    BY <1>0, <1>1, <1>2, NoReqIs DEF Whole, HasFile, Checked, Late
<1>7. Deleting'
    BY <1>0, <1>1, NoReqIs DEF Whole, Deleting, Stored
<1> QED BY <1>3, <1>5, <1>6, <1>7 DEF Whole

(* A new upload is known to the request that made it, and to nobody else. *)
LEMMA CreateMultipartSafe ==
    ASSUME TInv, Refs, Whole, NEW r \in Requests, CreateMultipart(r)
    PROVE  Refs' /\ Whole'
<1>0. req \in [Requests -> Reqs] /\ multi \in [Uploads -> {"none", "open", "gone"}]
    BY DEF TInv, TypeOK
<1>1. PICK u \in Uploads : /\ multi[u] = "none"
                           /\ multi' = [multi EXCEPT ![u] = "open"]
                           /\ req' = [req EXCEPT ![r].up = u, ![r].at = "record"]
    BY DEF CreateMultipart
<1>2. /\ req'[r].kind = req[r].kind /\ req'[r].at = "record" /\ req'[r].up = u
      /\ \A q \in Requests \ {r} : req'[q] = req[q]
    BY <1>0, <1>1 DEF Reqs
<1>3. UNCHANGED <<bad, saved, pc, up, row, rec, object>>
    BY DEF CreateMultipart, tab, db
<1>4. ~Taken(u) /\ \A q \in Requests : req[q].up # u
    BY <1>1 DEF Refs, Fresh
<1>5. \A w \in Uploads : Taken(w)' <=> Taken(w)
    BY <1>3 DEF Taken, Known
<1>6. Fresh'
  <2>1. ASSUME NEW w \in Uploads, Taken(w)' \/ \E q \in Requests : req'[q].up = w
        PROVE  multi'[w] # "none"
    <3>1. CASE w = u
        BY <1>0, <1>1, <3>1
    <3>2. CASE w # u
      <4>1. Taken(w) \/ \E q \in Requests : req[q].up = w
          BY <1>2, <1>5, <2>1, <3>2
      <4> QED BY <1>0, <1>1, <3>2, <4>1 DEF Refs, Fresh
    <3> QED BY <3>1, <3>2
  <2> QED BY <2>1 DEF Fresh
<1>7. Starting'
  <2>1. ASSUME NEW q \in Requests, Starts(q)'
        PROVE  (~Taken(req[q].up) /\ \A s \in Requests \ {q} : req[s].up # req[q].up)'
    <3>1. CASE q = r
      <4>1. ~Taken(u)'
          BY <1>4, <1>5
      <4>2. ~Taken(req[q].up)'
          BY <1>2, <3>1, <4>1 DEF Taken, Known
      <4> QED BY <1>2, <1>4, <3>1, <4>2
    <3>2. CASE q # r
      <4>1. req'[q] = req[q] /\ Starts(q)
          BY <1>2, <2>1, <3>2 DEF Starts
      <4>2. req[q].up \in Uploads
          BY <1>0, <4>1, UploadsAssumption DEF Starts, TInv, ReqsHaveUpload, Reqs
      <4>3. ~Taken(req[q].up) /\ \A s \in Requests \ {q} : req[s].up # req[q].up
          BY <4>1 DEF Refs, Starting
      <4>4. \A s \in Requests \ {q} : req'[s].up # req'[q].up
          BY <1>2, <1>4, <4>1, <4>3
      <4>5. ~Taken(req[q].up)'
          BY <1>3, <4>1, <4>3 DEF Taken, Known
      <4> QED BY <4>4, <4>5
    <3> QED BY <3>1, <3>2
  <2> QED BY <2>1 DEF Starting
<1>8. Whole'
  <2>1. req[r].kind # "delete"
      BY DEF CreateMultipart, At, Whole, Deleting
  <2>2. "record" \notin Late \cup {"dropfile", "droprow"}
      BY DEF Late
  <2>3. \A w \in Uploads : multi[w] = "gone" => multi'[w] = "gone"
      BY <1>0, <1>1
  <2> QED BY <1>2, <1>3, <2>1, <2>2, <2>3, WholeKeep
<1> QED BY <1>6, <1>7, <1>8 DEF Refs

(* An upload gets its row, or is refused for want of space. *)
LEMMA CreateVideoUploadSafe ==
    ASSUME TInv, Refs, Whole, NEW r \in Requests, CreateVideoUpload(r)
    PROVE  Refs' /\ Whole'
<1> DEFINE u == req[r].up
<1>0. req \in [Requests -> Reqs] /\ Starts(r) /\ u \in Uploads
    BY ReqUpload DEF CreateVideoUpload, At, Starts, TInv, TypeOK
<1>1. ~Taken(u) /\ \A q \in Requests \ {r} : req[q].up # u
    BY <1>0 DEF Refs, Starting
<1>2. UNCHANGED <<bad, rec, object>>
    BY DEF CreateVideoUpload
<1>3. CASE row' = row /\ EndMultipart(u) /\ Answer(r, u, "storage_full")
  <2>1. \A w \in Uploads : multi'[w] = "none" => multi[w] = "none"
      BY <1>3 DEF EndMultipart, TInv, TypeOK
  <2>2. req[r].kind # "none"
      BY <1>0 DEF Starts
  <2>3. \A w \in Uploads : w \in row' \cup rec' \cup object' => w \in row \cup rec \cup object
      BY <1>2, <1>3
  <2>4. Refs'
      BY <1>3, <2>1, <2>2, <2>3, ReplyRefs
  <2>5. Whole'
    <3>1. \A w \in Uploads : multi[w] = "gone" => multi'[w] = "gone"
        BY <1>3 DEF EndMultipart, TInv, TypeOK
    <3> QED BY <1>2, <1>3, <3>1, ReplyWhole
  <2> QED BY <2>4, <2>5
<1>4. CASE row' = row \cup {u} /\ Answer(r, u, "ok") /\ UNCHANGED multi
  <2>1. req'[r] = NoReq /\ \A q \in Requests \ {r} : req'[q] = req[q]
      BY <1>4, AnswerIs
  <2>2. \A w \in Uploads : Known(w)' => Known(w) \/ w = u
      BY <1>4, AnswerKnows
  <2>3. \A w \in Uploads : Taken(w)' => Taken(w) \/ w = u
      BY <1>2, <1>4, <2>2 DEF Taken
  <2>4. Fresh'
    <3>1. ASSUME NEW w \in Uploads, Taken(w)' \/ \E q \in Requests : req'[q].up = w
          PROVE  multi'[w] # "none"
      <4>1. w # NoUpload
          BY UploadsAssumption
      <4>2. Taken(w) \/ \E q \in Requests : req[q].up = w
          BY <2>1, <2>3, <3>1, <4>1, NoReqIs
      <4> QED BY <1>4, <4>2 DEF Refs, Fresh
    <3> QED BY <3>1 DEF Fresh
  <2>5. Starting'
    <3>1. ASSUME NEW q \in Requests, Starts(q)'
          PROVE  (~Taken(req[q].up) /\ \A s \in Requests \ {q} : req[s].up # req[q].up)'
      <4>1. q # r /\ req'[q] = req[q] /\ Starts(q)
          BY <2>1, <3>1, NoReqIs DEF Starts
      <4>2. PICK w \in Uploads : w = req[q].up
          BY <1>0, <4>1, UploadsAssumption DEF Starts, TInv, ReqsHaveUpload, Reqs
      <4>3. ~Taken(w) /\ w # u /\ \A s \in Requests \ {q} : req[s].up # w
          BY <1>1, <4>1, <4>2 DEF Refs, Starting
      <4>4. ~Taken(w)'
          BY <2>3, <4>3
      <4>5. ~Taken(req[q].up)'
          BY <4>1, <4>2, <4>4 DEF Taken, Known
      <4>6. w # NoUpload
          BY UploadsAssumption
      <4>7. \A s \in Requests \ {q} : req'[s].up # w
          BY <2>1, <4>3, <4>6, NoReqIs
      <4> QED BY <4>1, <4>2, <4>5, <4>7
    <3> QED BY <3>1 DEF Starting
  <2>6. (row \cap rec = {})' /\ ReadyIsWhole'
      BY <1>1, <1>2, <1>4 DEF Whole, ReadyIsWhole, Taken
  <2>7. \A q \in Requests : Stitched(q)' => Stitched(q) /\ req'[q].up = req[q].up
      BY <2>1, NoReqIs DEF Stitched, Late
  <2>8. Single'
      BY <1>2, <1>4, <2>7 DEF Whole, Single
  <2>9. HasFile' /\ Checked'
      BY <1>1, <1>2, <1>4, <2>1, NoReqIs DEF Whole, HasFile, Checked, Late
  <2>10. Deleting'
      BY <1>1, <1>2, <1>4, <2>1, NoReqIs DEF Whole, Deleting, Stored
  <2> QED BY <2>4, <2>5, <2>6, <2>8, <2>9, <2>10 DEF Whole, Refs
<1> QED BY <1>3, <1>4 DEF CreateVideoUpload

LEMMA ServerSafe ==
    ASSUME TInv, Refs, Whole, NEW r \in Requests, ServerStep(r)
    PROVE  Refs' /\ Whole'
<1>1. CASE CompleteMultipart(r) \/ OpenVideo(r) \/ ProbeVideo(r) \/ FinishVideoUpload(r) \/ DeleteFile(r)
    BY <1>1, FileStepRefs, CompleteWhole, ProbeWhole, FinishWhole, DeleteFileWhole
<1>2. CASE CreateMultipart(r) \/ CreateVideoUpload(r) \/ LoseCaller(r)
    BY <1>2, CreateMultipartSafe, CreateVideoUploadSafe, LoseCallerSafe
<1> QED BY <1>1, <1>2, PlainSafe DEF ServerStep, Handle

(* The sweep lists and makes nothing; a video is deleted row first. *)
LEMMA SweepSafe ==
    ASSUME TInv, Refs, Whole, StaleVideoUploads \/ \E u \in Uploads : SweepStep(u)
    PROVE  Refs' /\ Whole'
<1>1. CASE \/ StaleVideoUploads
           \/ \E u \in Uploads : GetsOld(u) \/ SweepAborts(u) \/ SweepForgets(u) \/ SweepSkips(u)
  <2>1. row' \subseteq row /\ UNCHANGED <<bad, saved, pc, up, rec, object, req>>
      BY <1>1 DEF StaleVideoUploads, GetsOld, SweepAborts, SweepForgets, SweepSkips, tab, db, bucket
  <2>2. \A u \in Uploads : multi'[u] = "none" => multi[u] = "none"
      BY <1>1 DEF StaleVideoUploads, GetsOld, SweepAborts, SweepForgets, SweepSkips, bucket, EndMultipart,
         TInv, TypeOK
  <2>3. \A u \in Uploads : Taken(u)' => Taken(u)
      BY <2>1 DEF Taken, Known
  <2>4. \A q \in Requests : Starts(q)' => Starts(q)
      BY <2>1 DEF Starts
  <2>5. Refs'
      BY <2>1, <2>2, <2>3, <2>4, RefsKeep
  <2>6. \A u \in Uploads : multi[u] = "gone" => multi'[u] = "gone"
      BY <1>1 DEF StaleVideoUploads, GetsOld, SweepAborts, SweepForgets, SweepSkips, bucket, EndMultipart,
         TInv, TypeOK
  <2>7. Whole'
      BY <2>1, <2>6, WholeKeep
  <2> QED BY <2>5, <2>7
<1>2. ASSUME NEW u \in Uploads, DeleteVideo(u)
      PROVE  Refs' /\ Whole'
  <2>1. u \in rec /\ rec' = rec \ {u} /\ UNCHANGED <<bad, saved, pc, up, row, object, multi>>
      BY <1>2 DEF DeleteVideo, tab, bucket
  <2>2. PICK r \in Requests :
            /\ req'[r].kind = "delete" /\ req'[r].at = "dropfile" /\ req'[r].up = u
            /\ \A q \in Requests \ {r} : req'[q] = req[q]
      BY <1>2, SendIs DEF DeleteVideo
  <2>3. Taken(u)
      BY <2>1 DEF Taken
  <2>4. \A w \in Uploads : Taken(w)' => Taken(w)
      BY <2>1 DEF Taken, Known
  <2>5. \A q \in Requests : req'[q].up = req[q].up \/ Taken(req'[q].up)
      BY <2>2, <2>3
  <2>6. \A q \in Requests : Starts(q)' => Starts(q) /\ req'[q].up = req[q].up
      BY <2>2 DEF Starts
  <2>7. Refs'
      BY <2>1, <2>4, <2>5, <2>6, RefsKeep
  <2>8. (row \cap rec = {})' /\ ReadyIsWhole'
      BY <2>1 DEF Whole, ReadyIsWhole
  <2>9. \A q \in Requests : Stitched(q)' => Stitched(q) /\ req'[q].up = req[q].up
      BY <2>2 DEF Stitched
  <2>10. Single'
      BY <2>1, <2>9 DEF Whole, Single
  <2>11. HasFile' /\ Checked'
      BY <2>1, <2>2 DEF Whole, HasFile, Checked, Late
  <2>12. u \notin row
      BY <2>1 DEF Whole
  <2>13. Deleting'
      BY <2>1, <2>2, <2>12 DEF Whole, Deleting, Stored
  <2> QED BY <2>7, <2>8, <2>10, <2>11, <2>13 DEF Whole
<1> QED BY <1>1, <1>2 DEF SweepStep

LEMMA InitSafe == Init => SInv
<1> SUFFICES ASSUME Init PROVE SInv
    OBVIOUS
<1>1. \A r \in Requests : req[r].kind = "none" /\ req[r].at = "load" /\ req[r].up = NoUpload
    BY NoReqIs DEF Init
<1>2. \A u \in Uploads : ~Taken(u)
    BY UploadsAssumption DEF Init, Taken, Known
<1>3. Refs
    BY <1>1, <1>2, UploadsAssumption DEF Refs, Fresh, Starting, Starts
<1>4. Whole
    BY <1>1 DEF Init, Whole, ReadyIsWhole, Single, Stitched, HasFile, Checked, Deleting, Late
<1> QED BY <1>3, <1>4, InitTypes, SplitS

LEMMA NextSafe == SInv /\ [Next]_vars => SInv'
<1> SUFFICES ASSUME SInv, [Next]_vars PROVE SInv'
    OBVIOUS
<1>0. TInv /\ Refs /\ Whole
    BY SplitS
<1>1. TInv'
    BY <1>0, NextTypes
<1>2. CASE UNCHANGED vars
  <2>1. Refs'
      BY <1>0, <1>2 DEF vars, tab, db, bucket, Refs, Fresh, Starting, Starts, Taken, Known
  <2>2. Whole'
      BY <1>0, <1>2, WholeKeep DEF vars, tab, db, bucket
  <2> QED BY <1>1, <2>1, <2>2, JoinS
<1>3. CASE Next
  <2>1. Refs' /\ Whole'
      BY <1>0, <1>3, TabStepSafe, ServerSafe, SweepSafe DEF Next
  <2> QED BY <1>1, <2>1, JoinS
<1> QED BY <1>2, <1>3

(* A video that is listed has its file, and passed the probe, however the
   completes, cancels, deletes and sweeps of it interleave. *)
THEOREM ListedIsWhole == Spec => []ReadyIsWhole
<1>1. SInv => ReadyIsWhole
    BY DEF SInv, Whole
<1> QED BY <1>1, InitSafe, NextSafe, PTL DEF Spec

-----------------------------------------------------------------------------
(* The quota. *)

(* What is arriving and what is listed fit in the host's quota together,
   and nothing is counted twice. *)
QuotaHolds == Cardinality(Stored) <= Quota /\ row \cap rec = {}

LEMMA StoredGrows ==
    ASSUME TInv, [Next]_vars
    PROVE  \/ Stored' \subseteq Stored
           \/ Cardinality(Stored) < Quota /\ \E u \in Uploads : Stored' = Stored \cup {u}
<1>1. CASE UNCHANGED vars
    BY <1>1 DEF vars, db, Stored
<1>2. ASSUME NEW t \in Tabs, TabStep(t)
      PROVE  Stored' \subseteq Stored
    BY <1>2 DEF TabStep, SendStep, ChooseFile, Call, PutPart, PutPartShort, SendFails, AllSent, Cancel, Leave,
       CloseTab, db, Stored
<1>3. ASSUME NEW r \in Requests, ServerStep(r), ~CreateVideoUpload(r)
      PROVE  Stored' \subseteq Stored
    BY <1>3 DEF ServerStep, Handle, LoadUpload, CreateMultipart, ListUploadedParts, DeleteVideoUpload,
       CompleteMultipart, OpenVideo, ProbeVideo, FinishVideoUpload, AbortUpload, DeleteFile, StartFails,
       StepFails, RequestDies, LoseCaller, db, Stored
<1>4. ASSUME NEW r \in Requests, CreateVideoUpload(r)
      PROVE  \/ Stored' \subseteq Stored
             \/ Cardinality(Stored) < Quota /\ \E u \in Uploads : Stored' = Stored \cup {u}
  <2>1. req[r].up \in Uploads
      BY <1>4, ReqUpload DEF CreateVideoUpload, At
  <2> QED BY <1>4, <2>1 DEF CreateVideoUpload, Stored
<1>5. CASE StaleVideoUploads \/ \E u \in Uploads : SweepStep(u)
    BY <1>5 DEF StaleVideoUploads, SweepStep, GetsOld, SweepAborts, SweepForgets, SweepSkips, DeleteVideo,
       db, Stored
<1> QED BY <1>1, <1>2, <1>3, <1>4, <1>5 DEF Next

QInv == SInv /\ Cardinality(Stored) <= Quota

LEMMA NextQuota == QInv /\ [Next]_vars => QInv'
<1> SUFFICES ASSUME QInv, [Next]_vars PROVE QInv'
    OBVIOUS
<1>1. SInv' /\ TInv
    BY NextSafe DEF QInv, SInv
<1>2. IsFiniteSet(Stored) /\ Cardinality(Stored) \in Nat
  <2>1. Stored \subseteq Uploads
      BY <1>1 DEF Stored, TInv, TypeOK
  <2> QED BY <2>1, UploadsAssumption, FS_Subset, FS_CardinalityType
<1>3. Cardinality(Stored)' <= Quota
  <2>1. CASE Stored' \subseteq Stored
    <3>1. Cardinality(Stored') <= Cardinality(Stored)
        BY <1>2, <2>1, FS_Subset
    <3>2. Cardinality(Stored') \in Nat
        BY <1>2, <2>1, FS_Subset, FS_CardinalityType
    <3> QED BY <1>2, <3>1, <3>2, QuotaAssumption DEF QInv
  <2>2. CASE Cardinality(Stored) < Quota /\ \E u \in Uploads : Stored' = Stored \cup {u}
    <3>1. PICK u \in Uploads : Stored' = Stored \cup {u}
        BY <2>2
    <3>2. Cardinality(Stored') = Cardinality(Stored) \/ Cardinality(Stored') = Cardinality(Stored) + 1
        BY <1>2, <3>1, FS_AddElement
    <3> QED BY <1>2, <2>2, <3>2, QuotaAssumption
  <2> QED BY <1>1, <2>1, <2>2, StoredGrows
<1> QED BY <1>1, <1>3 DEF QInv

(* What is arriving and what is listed stay within the host's quota
   together, and no upload is counted on both sides. *)
THEOREM QuotaIsHeld == Spec => []QuotaHolds
<1>1. Init => QInv
  <2> SUFFICES ASSUME Init PROVE QInv
      OBVIOUS
  <2>1. Stored = {}
      BY DEF Init, Stored
  <2>2. Cardinality(Stored) = 0
      BY <2>1, FS_EmptySet
  <2> QED BY <2>2, InitSafe, QuotaAssumption DEF QInv
<1>2. QInv => QuotaHolds
    BY DEF QInv, QuotaHolds, SInv, Whole
<1> QED BY <1>1, <1>2, NextQuota, PTL DEF Spec
-----------------------------------------------------------------------------
(* The promise.  Every step of the upload maps to a step of VideoPromise, or
   changes nothing it shows.  An upload is absent until its start has been
   answered, so what ends a start leaves it gone; and it is arriving as long
   as its multipart upload is open, or the complete that stitched it has not
   ended. *)

Begun(u) == \E r \in Requests : At(r, "record") /\ req[r].up = u

View == [u \in Uploads |-> Shown(u)]

(* The multipart upload of a start is open until it has its row. *)
Opened ==
    /\ \A r \in Requests : Starts(r) => multi[req[r].up] = "open" /\ sweep[req[r].up] = "no"
    /\ \A u \in Uploads : sweep[u] # "no" => multi[u] # "none"

PInv == SInv /\ Opened

(* Whoever else asks about an upload, or has it, finds it begun. *)
LEMMA ReferredIsNotAbsent ==
    ASSUME TInv, Refs, NEW u \in Uploads,
           Taken(u) \/ \E r \in Requests : req[r].up = u /\ ~At(r, "record")
    PROVE  ~Begun(u) /\ multi[u] # "none" /\ Shown(u) # "absent"
<1>1. \A r \in Requests : At(r, "record") => Starts(r)
    BY DEF At, Starts, TInv, TypeOK, ReqsHaveUpload, Reqs
<1>2. ~Begun(u)
  <2> SUFFICES ASSUME NEW r \in Requests, At(r, "record"), req[r].up = u PROVE FALSE
      BY DEF Begun
  <2>1. ~Taken(req[r].up) /\ \A q \in Requests \ {r} : req[q].up # req[r].up
      BY <1>1 DEF Refs, Starting
  <2>2. ~Taken(u)
      BY <2>1 DEF Taken, Known
  <2> QED BY <2>1, <2>2
<1>3. multi[u] # "none"
    BY DEF Refs, Fresh
<1> QED BY <1>2, <1>3 DEF Shown, Begun

(* What a step of the API that makes no upload and loses no caller does to
   the requests and to the multipart uploads. *)
LEMMA ReplyIs ==
    ASSUME TInv, NEW r \in Requests, ServerStep(r), ~CreateMultipart(r), ~LoseCaller(r)
    PROVE  /\ (\E u, code : Answer(r, u, code)) \/ \E at \in Steps \ {"record"} : GoTo(r, at)
           /\ multi' = multi \/ multi' = [multi EXCEPT ![req[r].up] = "gone"]
           /\ req'[r].at \in Late => req[r].at \in Late \/ multi[req[r].up] = "open"
           /\ UNCHANGED <<bad, sweep>>
<1>1. \/ \E u, code : Answer(r, u, code)
      \/ \E at \in {"list", "abort", "forget", "stitch", "droprow"} : GoTo(r, at)
      \/ GoTo(r, "stat") /\ multi[req[r].up] = "open"
      \/ req[r].at \in Late /\ \E at \in {"probe", "finish", "dropfile"} : GoTo(r, at)
  <2>1. CASE LoadUpload(r) \/ ListUploadedParts(r) \/ AbortUpload(r) \/ StepFails(r) \/ DeleteFile(r)
      BY <2>1 DEF LoadUpload, ListUploadedParts, AbortUpload, StepFails, DeleteFile
  <2>2. CASE CompleteMultipart(r)
      BY <2>2 DEF CompleteMultipart
  <2>3. CASE OpenVideo(r) \/ ProbeVideo(r)
      BY <2>3 DEF OpenVideo, ProbeVideo, At, Late
  <2>4. CASE CreateVideoUpload(r) \/ DeleteVideoUpload(r) \/ FinishVideoUpload(r) \/ StartFails(r)
             \/ RequestDies(r)
      BY <2>4 DEF CreateVideoUpload, DeleteVideoUpload, FinishVideoUpload, StartFails, RequestDies
  <2> QED BY <2>1, <2>2, <2>3, <2>4 DEF ServerStep, Handle
<1>2. {"list", "abort", "forget", "stitch", "droprow", "stat", "probe", "finish", "dropfile"}
          \subseteq Steps \ {"record"}
    BY DEF Steps
<1>3. (\E u, code : Answer(r, u, code)) \/ \E at \in Steps \ {"record"} : GoTo(r, at)
    BY <1>1, <1>2
<1>4. req'[r].at \in Late => req[r].at \in Late \/ multi[req[r].up] = "open"
    BY <1>1, AnswerIs, NoReqIs, GoToIs DEF Late
<1>5. multi' = multi \/ multi' = [multi EXCEPT ![req[r].up] = "gone"]
    BY DEF ServerStep, Handle, LoadUpload, CreateVideoUpload, ListUploadedParts, DeleteVideoUpload,
       CompleteMultipart, OpenVideo, ProbeVideo, FinishVideoUpload, AbortUpload, DeleteFile,
       StartFails, StepFails, RequestDies, EndMultipart, bucket
<1>6. UNCHANGED <<bad, sweep>>
    BY DEF ServerStep, Handle, LoadUpload, CreateVideoUpload, ListUploadedParts, DeleteVideoUpload,
       CompleteMultipart, OpenVideo, ProbeVideo, FinishVideoUpload, AbortUpload, DeleteFile,
       StartFails, StepFails, RequestDies
<1> QED BY <1>3, <1>4, <1>5, <1>6

(* What it leaves begun, and under way to be listed. *)
LEMMA ReplyLeaves ==
    ASSUME TInv, NEW r \in Requests, ServerStep(r), ~CreateMultipart(r), ~LoseCaller(r)
    PROVE  /\ \A q \in Requests : Starts(q)' => q # r /\ Starts(q) /\ req'[q] = req[q]
           /\ \A u \in Uploads : Begun(u)' => Begun(u)
           /\ \A u \in Uploads \ {req[r].up} : Begun(u) => Begun(u)'
           /\ req[r].at # "record" => \A u \in Uploads : Begun(u) => Begun(u)'
           /\ \A u \in Uploads : multi'[u] = "none" => multi[u] = "none"
           /\ \A u \in Uploads \ {req[r].up} : multi'[u] = multi[u]
           /\ \A u \in Uploads : CanFinish(u)' => CanFinish(u)
           /\ \A u \in Uploads \ {req[r].up} : CanFinish(u) => CanFinish(u)'
           /\ multi' = multi /\ req[r].at \notin Late => \A u \in Uploads : CanFinish(u) => CanFinish(u)'
<1>0. multi \in [Uploads -> {"none", "open", "gone"}]
    BY DEF TInv, TypeOK
<1>1. /\ \A q \in Requests \ {r} : req'[q] = req[q]
      /\ req'[r].at # "record"
      /\ req'[r].at \in Late => req'[r].up = req[r].up
  <2>1. CASE \E u, code : Answer(r, u, code)
      BY <2>1, AnswerIs, NoReqIs DEF Late
  <2>2. CASE \E at \in Steps \ {"record"} : GoTo(r, at)
      BY <2>2, GoToIs
  <2> QED BY <2>1, <2>2, ReplyIs
<1>2. \A q \in Requests \ {r} : (At(q, "record")' <=> At(q, "record")) /\ (Starts(q)' <=> Starts(q))
    BY <1>1 DEF At, Starts
<1>3. ~At(r, "record")' /\ ~Starts(r)'
    BY <1>1 DEF At, Starts
<1>4. req[r].at # "record" => ~At(r, "record")
    BY DEF At
<1>5. /\ \A u \in Uploads : multi'[u] = "none" => multi[u] = "none"
      /\ \A u \in Uploads \ {req[r].up} : multi'[u] = multi[u]
      /\ \A u \in Uploads : multi'[u] = "open" => multi[u] = "open"
  <2>1. CASE multi' = multi
      BY <2>1
  <2>2. CASE multi' = [multi EXCEPT ![req[r].up] = "gone"]
      BY <1>0, <2>2
  <2> QED BY <2>1, <2>2, ReplyIs
<1>6. \A u \in Uploads : CanFinish(u)' => CanFinish(u)
  <2>1. req'[r].at \in Late => req[r].at \in Late \/ multi[req[r].up] = "open"
      BY ReplyIs
  <2> QED BY <1>1, <1>5, <2>1 DEF CanFinish, Late
<1>7. \A u \in Uploads \ {req[r].up} : CanFinish(u) => CanFinish(u)'
    BY <1>1, <1>5 DEF CanFinish
<1>8. multi' = multi /\ req[r].at \notin Late => \A u \in Uploads : CanFinish(u) => CanFinish(u)'
    BY <1>1 DEF CanFinish, Late
<1>9. \A q \in Requests : Starts(q)' => q # r /\ Starts(q) /\ req'[q] = req[q]
    BY <1>1, <1>2, <1>3
<1>10. /\ \A u \in Uploads : Begun(u)' => Begun(u)
       /\ \A u \in Uploads \ {req[r].up} : Begun(u) => Begun(u)'
       /\ req[r].at # "record" => \A u \in Uploads : Begun(u) => Begun(u)'
    BY <1>1, <1>2, <1>3, <1>4 DEF Begun
<1> QED BY <1>5, <1>6, <1>7, <1>8, <1>9, <1>10

(* A request that is sent was free: it begins nothing, and ends nothing. *)
LEMMA SameLeaves ==
    ASSUME TInv, UNCHANGED multi,
           \A r \in Requests :
               \/ req'[r].kind = req[r].kind /\ req'[r].at = req[r].at /\ req'[r].up = req[r].up
               \/ req[r] = NoReq /\ req'[r].at \in {"load", "make", "dropfile"}
    PROVE  /\ \A r \in Requests : Starts(r)' => Starts(r) /\ req'[r].up = req[r].up
           /\ \A u \in Uploads : Begun(u)' <=> Begun(u)
           /\ \A u \in Uploads : CanFinish(u)' <=> CanFinish(u)
<1>1. \A r \in Requests :
          /\ At(r, "record")' <=> At(r, "record")
          /\ Starts(r)' <=> Starts(r)
          /\ At(r, "record") \/ Starts(r) => req'[r].up = req[r].up
    BY NoReqIs DEF At, Starts
<1>2. \A r \in Requests : /\ req'[r].at \in Late <=> req[r].at \in Late
                          /\ req[r].at \in Late => req'[r].up = req[r].up
    BY NoReqIs DEF Late
<1>3. \A u \in Uploads : Begun(u)' <=> Begun(u)
    BY <1>1 DEF Begun
<1>4. \A u \in Uploads : CanFinish(u)' <=> CanFinish(u)
    BY <1>2 DEF CanFinish, Late
<1> QED BY <1>1, <1>3, <1>4

LEMMA DeleteVideoIs ==
    ASSUME TInv, NEW u, DeleteVideo(u)
    PROVE  \A r \in Requests :
               \/ req'[r].kind = req[r].kind /\ req'[r].at = req[r].at /\ req'[r].up = req[r].up
               \/ req[r] = NoReq /\ req'[r].at \in {"load", "make", "dropfile"}
<1>1. PICK r \in Requests : /\ req[r] = NoReq /\ req'[r].at = "dropfile"
                            /\ \A q \in Requests \ {r} : req'[q] = req[q]
    BY SendIs DEF DeleteVideo
<1> QED BY <1>1

LEMMA LoseCallerIs ==
    ASSUME TInv, NEW r \in Requests, LoseCaller(r)
    PROVE  /\ UNCHANGED <<bad, row, rec, object, multi, sweep>>
           /\ \A q \in Requests :
                  req'[q].kind = req[q].kind /\ req'[q].at = req[q].at /\ req'[q].up = req[q].up
<1>1. req \in [Requests -> Reqs]
    BY DEF TInv, TypeOK
<1> QED BY <1>1 DEF LoseCaller, Reqs, db, bucket

(* Nobody else knows of an upload that is being started, so nothing ends it. *)
LEMMA NextOpened ==
    ASSUME PInv, [Next]_vars
    PROVE  Opened'
<1>0. TInv /\ Refs /\ Opened /\ multi \in [Uploads -> {"none", "open", "gone"}]
      /\ sweep \in [Uploads -> {"no", "listed", "aborted"}]
    BY DEF PInv, SInv, TInv, TypeOK
<1>a. ASSUME NEW q \in Requests, Starts(q)
      PROVE  /\ req[q].up \in Uploads /\ req[q].up \notin row
             /\ \A s \in Requests \ {q} : req[s].up # req[q].up
  <2>1. req[q].up \in Uploads
      BY <1>0, <1>a, UploadsAssumption DEF Starts, TInv, TypeOK, ReqsHaveUpload, Reqs
  <2> QED BY <1>0, <1>a, <2>1 DEF Refs, Starting, Taken
<1>b. ASSUME UNCHANGED <<multi, sweep>>,
             \A r \in Requests : Starts(r)' => Starts(r) /\ req'[r].up = req[r].up
      PROVE  Opened'
    BY <1>0, <1>b DEF Opened
<1>1. CASE UNCHANGED vars
    BY <1>1, <1>b DEF vars, bucket, Starts
<1>2. ASSUME NEW t \in Tabs, TabStep(t)
      PROVE  Opened'
  <2>1. /\ UNCHANGED <<multi, sweep>>
        /\ \A r \in Requests :
               \/ req'[r].kind = req[r].kind /\ req'[r].at = req[r].at /\ req'[r].up = req[r].up
               \/ req[r] = NoReq /\ req'[r].at \in {"load", "make", "dropfile"}
      BY <1>0, <1>2, TabStepIs
  <2>2. \A r \in Requests : Starts(r)' => Starts(r) /\ req'[r].up = req[r].up
      BY <1>0, <2>1, SameLeaves
  <2> QED BY <1>b, <2>1, <2>2
<1>3. ASSUME NEW r \in Requests, ServerStep(r), ~CreateMultipart(r), ~LoseCaller(r)
      PROVE  Opened'
  <2>1. /\ UNCHANGED sweep
        /\ \A q \in Requests : Starts(q)' => q # r /\ Starts(q) /\ req'[q] = req[q]
        /\ \A u \in Uploads \ {req[r].up} : multi'[u] = multi[u]
        /\ \A u \in Uploads : multi'[u] = "none" => multi[u] = "none"
      BY <1>0, <1>3, ReplyIs, ReplyLeaves
  <2> QED BY <1>0, <1>a, <2>1 DEF Opened
<1>4. ASSUME NEW r \in Requests, CreateMultipart(r)
      PROVE  Opened'
  <2>1. PICK u \in Uploads : /\ multi[u] = "none"
                             /\ multi' = [multi EXCEPT ![u] = "open"]
                             /\ req' = [req EXCEPT ![r].up = u, ![r].at = "record"]
      BY <1>4 DEF CreateMultipart
  <2>2. req'[r].up = u /\ \A q \in Requests \ {r} : req'[q] = req[q]
      BY <1>0, <2>1 DEF TInv, TypeOK, Reqs
  <2>3. UNCHANGED sweep
      BY <1>4 DEF CreateMultipart
  <2>4. \A q \in Requests \ {r} : Starts(q)' => Starts(q)
      BY <2>2 DEF Starts
  <2>5. multi'[u] = "open" /\ sweep[u] = "no"
      BY <1>0, <2>1 DEF Opened
  <2>6. \A w \in Uploads \ {u} : multi'[w] = multi[w]
      BY <1>0, <2>1
  <2>7. \A q \in Requests : Starts(q)' => multi'[req'[q].up] = "open" /\ sweep[req'[q].up] = "no"
    <3>1. ASSUME NEW q \in Requests \ {r}, Starts(q)
          PROVE  multi'[req[q].up] = "open" /\ sweep[req[q].up] = "no"
      <4>1. req[q].up \in Uploads /\ multi[req[q].up] = "open" /\ sweep[req[q].up] = "no"
          BY <1>0, <1>a, <3>1 DEF Opened
      <4> QED BY <2>1, <2>6, <4>1
    <3> QED BY <2>2, <2>4, <2>5, <3>1
  <2>8. \A w \in Uploads : sweep[w] # "no" => multi'[w] # "none"
      BY <1>0, <2>5, <2>6 DEF Opened
  <2> QED BY <2>3, <2>7, <2>8 DEF Opened
<1>5. ASSUME NEW r \in Requests, LoseCaller(r)
      PROVE  Opened'
    BY <1>0, <1>5, <1>b, LoseCallerIs DEF Starts
<1>6. CASE StaleVideoUploads
  <2>1. /\ sweep' = [u \in Uploads |-> IF u \in old THEN "listed" ELSE "no"]
        /\ UNCHANGED <<multi, req>>
      BY <1>6 DEF StaleVideoUploads, bucket
  <2>2. \A u \in old : u \in row /\ Taken(u)
      BY <1>0 DEF Taken, TInv, TypeOK
  <2>3. \A u \in old : multi[u] # "none"
      BY <1>0, <2>2 DEF Refs, Fresh, TInv, TypeOK
  <2> QED BY <1>0, <1>a, <2>1, <2>2, <2>3 DEF Opened, Starts
<1>7. ASSUME NEW u \in Uploads, GetsOld(u) \/ DeleteVideo(u)
      PROVE  Opened'
  <2>1. UNCHANGED <<multi, sweep>>
      BY <1>7 DEF GetsOld, DeleteVideo, bucket
  <2>2. CASE GetsOld(u)
      BY <1>b, <2>1, <2>2 DEF GetsOld, Starts
  <2>3. CASE DeleteVideo(u)
      BY <1>0, <1>b, <2>1, <2>3, DeleteVideoIs, SameLeaves
  <2> QED BY <1>7, <2>2, <2>3
<1>8. ASSUME NEW u \in Uploads, SweepAborts(u) \/ SweepForgets(u) \/ SweepSkips(u)
      PROVE  Opened'
  <2>1. /\ sweep[u] # "no" /\ UNCHANGED req
        /\ multi' = multi \/ multi' = [multi EXCEPT ![u] = "gone"]
        /\ sweep' = [sweep EXCEPT ![u] = "no"] \/ sweep' = [sweep EXCEPT ![u] = "aborted"]
      BY <1>8 DEF SweepAborts, SweepForgets, SweepSkips, EndMultipart, bucket
  <2>2. \A w \in Uploads \ {u} : multi'[w] = multi[w] /\ sweep'[w] = sweep[w]
      BY <1>0, <2>1
  <2>3. multi'[u] # "none"
      BY <1>0, <2>1 DEF Opened
  <2> QED BY <1>0, <1>a, <2>1, <2>2, <2>3 DEF Opened, Starts
<1> QED BY <1>1, <1>2, <1>3, <1>4, <1>5, <1>6, <1>7, <1>8 DEF Next, SweepStep

LEMMA InitPromise == Init => PInv
<1>1. Init => Opened
    BY NoReqIs DEF Init, Opened, Starts
<1> QED BY <1>1, InitSafe DEF PInv

LEMMA NextPromise == PInv /\ [Next]_vars => PInv'
<1> SUFFICES ASSUME PInv, [Next]_vars PROVE PInv'
    OBVIOUS
<1> QED BY NextSafe, NextOpened DEF PInv

(* A step that lists, stores and begins nothing, and ends one start or one
   complete at most, shows nothing but that upload given up. *)
LEMMA QuietShows ==
    ASSUME TInv, NEW v, UNCHANGED <<bad, row, rec, object>>,
           \A u \in Uploads : multi'[u] = "none" => multi[u] = "none",
           \A u \in Uploads : Begun(u)' => Begun(u) \/ multi[u] = "none",
           \A u \in Uploads \ {v} : multi[u] = "none" \/ Begun(u) => multi'[u] = "none" \/ Begun(u)',
           \A u \in row : CanFinish(u)' => CanFinish(u),
           \A u \in row \ {v} : CanFinish(u) => CanFinish(u)'
    PROVE  \/ \E u \in Uploads : Promise!Abandon(u) \/ Promise!Doom(u)
           \/ UNCHANGED <<View, object, bad>>
<1>1. \A u \in Uploads \ {v} : Shown(u)' = Shown(u)
    BY DEF Shown, Begun
<1>2. \A u \in Uploads : \/ Shown(u)' = Shown(u)
                         \/ Shown(u) = "absent" /\ Shown(u)' = "gone"
                         \/ Shown(u) = "arriving" /\ Shown(u)' = "doomed"
    BY DEF Shown, Begun
<1>3. CASE v \in Uploads /\ Shown(v) = "absent" /\ Shown(v)' = "gone"
  <2>1. v \in Promise!Showing("absent")
      BY <1>3 DEF Promise!Showing
  <2>2. Promise!Show(v, "gone")
      BY <1>1, <1>3 DEF Promise!Show
  <2> QED BY <1>3, <2>1, <2>2 DEF Promise!Abandon
<1>4. CASE v \in Uploads /\ Shown(v) = "arriving" /\ Shown(v)' = "doomed"
  <2>1. v \in Promise!Showing("arriving")
      BY <1>4 DEF Promise!Showing
  <2>2. Promise!Show(v, "doomed")
      BY <1>1, <1>4 DEF Promise!Show
  <2> QED BY <1>4, <2>1, <2>2 DEF Promise!Doom
<1>5. CASE \A u \in Uploads : Shown(u)' = Shown(u)
    BY <1>5 DEF View
<1> QED BY <1>1, <1>2, <1>3, <1>4, <1>5

LEMMA TabShows ==
    ASSUME PInv, NEW t \in Tabs, TabStep(t)
    PROVE  \/ \E u \in Uploads : Promise!Abandon(u) \/ Promise!Doom(u)
           \/ UNCHANGED <<View, object, bad>>
<1>0. TInv /\ row \subseteq Uploads
    BY DEF PInv, SInv, TInv, TypeOK
<1>1. /\ UNCHANGED <<bad, row, rec, object, multi>>
      /\ \A r \in Requests :
             \/ req'[r].kind = req[r].kind /\ req'[r].at = req[r].at /\ req'[r].up = req[r].up
             \/ req[r] = NoReq /\ req'[r].at \in {"load", "make", "dropfile"}
    BY <1>0, TabStepIs
<1>2. /\ \A u \in Uploads : Begun(u)' <=> Begun(u)
      /\ \A u \in Uploads : CanFinish(u)' <=> CanFinish(u)
    BY <1>0, <1>1, SameLeaves
<1> QED BY <1>0, <1>1, <1>2, QuietShows

(* The steps of the API that keep the rows, the listings and the files. *)
LEMMA QuietServerShows ==
    ASSUME PInv, NEW r \in Requests, ServerStep(r), UNCHANGED <<row, rec, object>>
    PROVE  \/ \E u \in Uploads : Promise!Abandon(u) \/ Promise!Doom(u)
           \/ UNCHANGED <<View, object, bad>>
<1>0. /\ TInv /\ Refs /\ req \in [Requests -> Reqs] /\ multi \in [Uploads -> {"none", "open", "gone"}]
      /\ row \subseteq Uploads
    BY DEF PInv, SInv, TInv, TypeOK
<1>1. CASE CreateMultipart(r)
  <2>1. PICK u \in Uploads : /\ multi[u] = "none"
                             /\ multi' = [multi EXCEPT ![u] = "open"]
                             /\ req' = [req EXCEPT ![r].up = u, ![r].at = "record"]
      BY <1>1 DEF CreateMultipart
  <2>2. /\ req'[r].kind = req[r].kind /\ req'[r].at = "record" /\ req'[r].up = u
        /\ \A q \in Requests \ {r} : req'[q] = req[q]
      BY <1>0, <2>1 DEF Reqs
  <2>3. req[r].kind # "none" /\ req[r].at = "make" /\ UNCHANGED bad
      BY <1>1 DEF CreateMultipart, At
  <2>4. \A w \in Uploads \ {u} : Begun(w)' <=> Begun(w)
      BY <2>2, <2>3 DEF Begun, At
  <2>5. Begun(u)'
      BY <2>2, <2>3 DEF Begun, At
  <2>6. \A w \in Uploads \ {u} : multi'[w] = multi[w]
      BY <1>0, <2>1
  <2>7. \A w \in row : w # u
      BY <1>0, <2>1 DEF Refs, Fresh, Taken
  <2>8. \A w \in row : CanFinish(w)' <=> CanFinish(w)
      BY <1>0, <2>2, <2>3, <2>6, <2>7 DEF CanFinish
  <2> QED BY <1>0, <2>1, <2>3, <2>4, <2>5, <2>6, <2>8, QuietShows
<1>2. CASE LoseCaller(r)
  <2>1. UNCHANGED <<bad, multi>> /\ \A u \in Uploads : (Begun(u)' <=> Begun(u)) /\ (CanFinish(u)' <=> CanFinish(u))
      BY <1>0, <1>2, LoseCallerIs, SameLeaves
  <2> QED BY <1>0, <2>1, QuietShows
<1>3. CASE ~CreateMultipart(r) /\ ~LoseCaller(r)
  <2>1. UNCHANGED bad
      BY <1>0, <1>3, ReplyIs
  <2>2. /\ \A u \in Uploads : Begun(u)' => Begun(u)
        /\ \A u \in Uploads \ {req[r].up} : Begun(u) => Begun(u)'
        /\ \A u \in Uploads : multi'[u] = "none" => multi[u] = "none"
        /\ \A u \in Uploads \ {req[r].up} : multi'[u] = multi[u]
        /\ \A u \in Uploads : CanFinish(u)' => CanFinish(u)
        /\ \A u \in Uploads \ {req[r].up} : CanFinish(u) => CanFinish(u)'
      BY <1>0, <1>3, ReplyLeaves
  <2> QED BY <1>0, <2>1, <2>2, QuietShows
<1> QED BY <1>1, <1>2, <1>3

(* A step about one upload that begins or ends no other. *)
LEMMA OneShows ==
    ASSUME NEW u \in Uploads, NEW st, UNCHANGED <<object, bad>>, Shown(u)' = st,
           \A w \in Uploads \ {u} : /\ (w \in row' <=> w \in row) /\ (w \in rec' <=> w \in rec)
                                    /\ (multi'[w] = "none" <=> multi[w] = "none")
                                    /\ (Begun(w)' <=> Begun(w))
                                    /\ (CanFinish(w)' <=> CanFinish(w))
    PROVE  Promise!Show(u, st)
<1>1. \A w \in Uploads \ {u} : Shown(w)' = Shown(w)
    BY DEF Shown, Begun
<1> QED BY <1>1 DEF Promise!Show

(* A start is answered: the upload is arriving. *)
LEMMA BeginShows ==
    ASSUME PInv, NEW r \in Requests, CreateVideoUpload(r), row' # row
    PROVE  \E u \in Uploads : Promise!Begin(u)
<1>0. TInv /\ Refs /\ Opened
    BY DEF PInv, SInv
<1>1. PICK u \in Uploads : u = req[r].up
    BY <1>0, ReqUpload DEF CreateVideoUpload, At
<1>s. Starts(r)
    BY <1>0, ReqUpload DEF CreateVideoUpload, At, Starts
<1>2. row' = row \cup {u} /\ Answer(r, u, "ok") /\ UNCHANGED <<bad, rec, object, multi>>
    BY <1>1 DEF CreateVideoUpload
<1>3. ~Taken(u)
  <2>1. ~Taken(req[r].up)
      BY <1>0, <1>s DEF Refs, Starting
  <2> QED BY <1>1, <2>1 DEF Taken, Known
<1>4. Shown(u) = "absent"
    BY <1>1, <1>s, <1>3 DEF Shown, Starts, At, Taken
<1>5. /\ \A w \in Uploads \ {u} : Begun(w)' <=> Begun(w)
      /\ \A w \in Uploads \ {u} : CanFinish(w)' <=> CanFinish(w)
  <2>1. ServerStep(r) /\ ~CreateMultipart(r) /\ ~LoseCaller(r)
      BY <1>s, <1>2 DEF ServerStep, Handle, CreateMultipart, LoseCaller, Starts, At, db
  <2> QED BY <1>0, <1>1, <2>1, ReplyLeaves
<1>6. Shown(u)' = "arriving"
  <2>1. multi'[u] = "open"
      BY <1>0, <1>1, <1>2, <1>s DEF Opened
  <2> QED BY <1>2, <2>1 DEF Shown, CanFinish
<1>7. Promise!Show(u, "arriving")
    BY <1>1, <1>2, <1>5, <1>6, OneShows
<1> QED BY <1>1, <1>4, <1>7 DEF Promise!Begin, Promise!Showing

(* A row goes without becoming a recording. *)
LEMMA ForgetShows ==
    ASSUME SInv, NEW u \in row, row' = row \ {u}, UNCHANGED <<bad, rec, object, multi>>,
           \A w \in Uploads : (Begun(w)' <=> Begun(w)) /\ (CanFinish(w)' <=> CanFinish(w))
    PROVE  \E w \in Uploads : Promise!Forget(w)
<1>1. u \in Uploads /\ Taken(u) /\ u \notin rec
    BY DEF SInv, TInv, TypeOK, Taken, Whole
<1>2. ~Begun(u) /\ multi[u] # "none"
    BY <1>1, ReferredIsNotAbsent DEF SInv
<1>3. Shown(u) \in {"arriving", "doomed"} /\ Shown(u)' = "gone"
    BY <1>1, <1>2 DEF Shown, Begun
<1>4. Promise!Show(u, "gone")
    BY <1>1, <1>3, OneShows
<1> QED BY <1>1, <1>3, <1>4 DEF Promise!Forget, Promise!Showing

(* The parts are stitched: who did it goes on to list them, or is told
   that it failed. *)
LEMMA StoreShows ==
    ASSUME PInv, NEW r \in Requests, CompleteMultipart(r), object' # object
    PROVE  \E u \in Uploads : Promise!Store(u)
<1>0. TInv /\ Refs /\ At(r, "stitch") /\ multi \in [Uploads -> {"none", "open", "gone"}]
    BY DEF PInv, SInv, CompleteMultipart, TInv, TypeOK
<1>1. PICK u \in Uploads : u = req[r].up
    BY <1>0, ReqUpload DEF At
<1>2. /\ multi[u] = "open" /\ object' = object \cup {u} /\ multi' = [multi EXCEPT ![u] = "gone"]
      /\ UNCHANGED <<bad, row, rec>>
    BY <1>1 DEF CompleteMultipart, EndMultipart, db, bucket
<1>3. ~At(r, "record") /\ req[r].at # "record"
    BY <1>0 DEF At
<1>4. multi[u] # "none" /\ Shown(u) # "absent"
    BY <1>0, <1>1, <1>3, ReferredIsNotAbsent
<1>5. /\ \A w \in Uploads : Begun(w)' <=> Begun(w)
      /\ \A w \in Uploads \ {u} : CanFinish(w)' <=> CanFinish(w)
  <2>1. ServerStep(r) /\ ~CreateMultipart(r) /\ ~LoseCaller(r)
      BY <1>0, <1>2 DEF ServerStep, Handle, CreateMultipart, LoseCaller, At, bucket
  <2> QED BY <1>0, <1>1, <1>3, <2>1, ReplyLeaves
<1>6. \A w \in Uploads : multi'[w] = "none" <=> multi[w] = "none"
    BY <1>0, <1>2, <1>4
<1>7. \A w \in Uploads \ {u} : Shown(w)' = Shown(w)
    BY <1>2, <1>5, <1>6 DEF Shown, Begun
<1>8. Shown(u)' = Shown(u) \/ (Shown(u) = "arriving" /\ Shown(u)' = "doomed")
    BY <1>2, <1>5, <1>6 DEF Shown, Begun, CanFinish
<1>9. View' = View \/ (Shown(u) = "arriving" /\ View' = [View EXCEPT ![u] = "doomed"])
    BY <1>7, <1>8 DEF View
<1> QED BY <1>1, <1>2, <1>4, <1>9 DEF View, Promise!Store

(* A row becomes a recording. *)
LEMMA ListShows ==
    ASSUME PInv, NEW r \in Requests, FinishVideoUpload(r), row' # row
    PROVE  \E u \in Uploads : Promise!List(u)
<1>0. TInv /\ Refs /\ Whole /\ At(r, "finish") /\ req[r].at = "finish" /\ req[r].at \in Late
    BY DEF PInv, SInv, FinishVideoUpload, At, Late
<1>u. PICK u \in Uploads : u = req[r].up
    BY <1>0, ReqUpload DEF At
<1>1. u \in row /\ row' = row \ {u} /\ rec' = rec \cup {u} /\ UNCHANGED <<bad, object, multi>>
    BY <1>u DEF FinishVideoUpload, db, bucket
<1>2. u \in Uploads /\ ~bad /\ u \in object
    BY <1>0, <1>1, <1>u DEF Whole, Checked, HasFile
<1>3. \A w \in Uploads \ {u} : (Begun(w)' <=> Begun(w)) /\ (CanFinish(w)' <=> CanFinish(w))
  <2>1. ServerStep(r) /\ ~CreateMultipart(r) /\ ~LoseCaller(r)
      BY <1>0, <1>1 DEF ServerStep, Handle, CreateMultipart, LoseCaller, At, db
  <2> QED BY <1>0, <1>u, <2>1, ReplyLeaves
<1>4. Shown(u) = "arriving" /\ Shown(u)' = "listed"
    BY <1>0, <1>u, <1>1 DEF Shown, CanFinish, Late
<1>5. Promise!Show(u, "listed")
    BY <1>1, <1>2, <1>3, <1>4, OneShows
<1> QED BY <1>2, <1>4, <1>5 DEF Promise!List, Promise!Showing

(* A file goes: its upload was refused, and nobody else had stitched it, or
   its video was deleted before. *)
LEMMA EraseShows ==
    ASSUME PInv, NEW r \in Requests, DeleteFile(r)
    PROVE  \E u \in Uploads : Promise!Erase(u)
<1>0. TInv /\ Refs /\ Whole /\ At(r, "dropfile") /\ req[r].at \notin Late \cup {"record"}
    BY DEF PInv, SInv, DeleteFile, At, Late
<1>1. PICK u \in Uploads : u = req[r].up
    BY <1>0, ReqUpload DEF At
<1>2. object' = object \ {u} /\ UNCHANGED <<bad, row, rec, multi>>
    BY <1>1 DEF DeleteFile, db
<1>3. ~At(r, "record")
    BY <1>0 DEF At
<1>4. Shown(u) # "absent"
    BY <1>0, <1>1, <1>3, ReferredIsNotAbsent
<1>5. \A w \in Uploads : (Begun(w)' <=> Begun(w)) /\ (CanFinish(w)' <=> CanFinish(w))
  <2>1. ServerStep(r) /\ ~CreateMultipart(r) /\ ~LoseCaller(r)
    <3>1. req'[r].at # req[r].at
        BY <1>0, AnswerIs, GoToIs, NoReqIs DEF DeleteFile, At
    <3>2. ~LoseCaller(r)
        BY <1>0, <3>1, LoseCallerIs
    <3> QED BY <1>0, <3>2 DEF ServerStep, Handle, CreateMultipart, At
  <2> QED BY <1>0, <1>2, <2>1, ReplyLeaves
<1>6. \A w \in Uploads : Shown(w)' = Shown(w)
    BY <1>2, <1>5 DEF Shown, Begun
<1>7. UNCHANGED <<[w \in Uploads |-> Shown(w)], bad>>
    BY <1>2, <1>6
<1>8. Shown(u) \in {"doomed", "gone"}
  <2>1. CASE req[r].kind = "delete"
    <3>1. u \notin row /\ u \notin rec
        BY <1>0, <1>1, <2>1 DEF Whole, Deleting, Stored
    <3> QED BY <1>4, <3>1 DEF Shown
  <2>2. CASE req[r].kind # "delete"
    <3>1. Stitched(r)
        BY <1>0, <2>2 DEF Stitched, At
    <3>2. multi[u] = "gone" /\ u \notin rec /\ \A q \in Requests \ {r} : req[q].up = u => ~Stitched(q)
        BY <1>0, <1>1, <3>1 DEF Whole, Single
    <3>3. \A q \in Requests : req[q].at \in Late => Stitched(q) /\ q # r
        BY <1>0 DEF Whole, Deleting, Stitched, Late
    <3>4. ~CanFinish(u)
        BY <3>2, <3>3 DEF CanFinish, Late
    <3> QED BY <1>4, <3>2, <3>4 DEF Shown
  <2> QED BY <2>1, <2>2
<1> QED BY <1>1, <1>2, <1>7, <1>8 DEF Promise!Erase, Promise!Showing

(* A video is deleted. *)
LEMMA DeleteShows ==
    ASSUME PInv, NEW u \in Uploads, DeleteVideo(u)
    PROVE  Promise!Delete(u)
<1>0. TInv /\ Refs /\ Whole
    BY DEF PInv, SInv
<1>1. u \in rec /\ rec' = rec \ {u} /\ UNCHANGED <<bad, row, object, multi>>
    BY DEF DeleteVideo, bucket
<1>2. Taken(u) /\ u \notin row
    BY <1>0, <1>1 DEF Taken, Whole
<1>3. ~Begun(u) /\ multi[u] # "none"
    BY <1>0, <1>2, ReferredIsNotAbsent
<1>4. \A w \in Uploads : (Begun(w)' <=> Begun(w)) /\ (CanFinish(w)' <=> CanFinish(w))
    BY <1>0, <1>1, DeleteVideoIs, SameLeaves
<1>5. Shown(u) = "listed" /\ Shown(u)' = "gone"
    BY <1>1, <1>2, <1>3, <1>4 DEF Shown, Begun
<1>6. Promise!Show(u, "gone")
    BY <1>1, <1>4, <1>5, OneShows
<1> QED BY <1>5, <1>6 DEF Promise!Delete, Promise!Showing

LEMMA StepShows ==
    ASSUME PInv, [Next]_vars
    PROVE  Promise!Next \/ UNCHANGED <<View, object, bad>>
<1>0. TInv /\ SInv /\ row \subseteq Uploads /\ multi \in [Uploads -> {"none", "open", "gone"}]
    BY DEF PInv, SInv, TInv, TypeOK
<1>1. CASE UNCHANGED vars
    BY <1>1 DEF vars, db, bucket, View, Shown, CanFinish, At
<1>2. ASSUME NEW t \in Tabs, TabStep(t)
      PROVE  Promise!Next \/ UNCHANGED <<View, object, bad>>
    BY <1>2, TabShows DEF Promise!Next
<1>3. ASSUME NEW r \in Requests, ServerStep(r)
      PROVE  Promise!Next \/ UNCHANGED <<View, object, bad>>
  <2>1. CASE UNCHANGED <<row, rec, object>>
      BY <1>3, <2>1, QuietServerShows DEF Promise!Next
  <2>2. CASE CreateVideoUpload(r) /\ row' # row
      BY <2>2, BeginShows DEF Promise!Next
  <2>3. CASE DeleteVideoUpload(r) /\ row' # row
    <3>1. req[r].up \in row /\ row' = row \ {req[r].up} /\ UNCHANGED <<bad, rec, object, multi>>
        BY <2>3 DEF DeleteVideoUpload, bucket
    <3>2. req[r].at \notin Late \cup {"record"} /\ ~CreateMultipart(r) /\ ~LoseCaller(r)
        BY <2>3 DEF DeleteVideoUpload, At, Late, CreateMultipart, LoseCaller, db
    <3>3. \A w \in Uploads : (Begun(w)' <=> Begun(w)) /\ (CanFinish(w)' <=> CanFinish(w))
        BY <1>0, <1>3, <3>1, <3>2, ReplyLeaves
    <3> QED BY <1>0, <3>1, <3>3, ForgetShows DEF Promise!Next
  <2>4. CASE CompleteMultipart(r) /\ object' # object
      BY <2>4, StoreShows DEF Promise!Next
  <2>5. CASE FinishVideoUpload(r) /\ row' # row
      BY <2>5, ListShows DEF Promise!Next
  <2>6. CASE DeleteFile(r)
      BY <2>6, EraseShows DEF Promise!Next
  <2>7. \/ UNCHANGED <<row, rec, object>>
        \/ CreateVideoUpload(r) /\ row' # row
        \/ DeleteVideoUpload(r) /\ row' # row
        \/ CompleteMultipart(r) /\ object' # object
        \/ FinishVideoUpload(r) /\ row' # row
        \/ DeleteFile(r)
    <3>1. CASE \/ LoadUpload(r) \/ CreateMultipart(r) \/ ListUploadedParts(r) \/ OpenVideo(r) \/ ProbeVideo(r)
               \/ AbortUpload(r) \/ StartFails(r) \/ StepFails(r) \/ RequestDies(r) \/ LoseCaller(r)
        BY <3>1 DEF LoadUpload, CreateMultipart, ListUploadedParts, OpenVideo, ProbeVideo, AbortUpload,
           StartFails, StepFails, RequestDies, LoseCaller, db, bucket
    <3>2. CASE CreateVideoUpload(r) \/ DeleteVideoUpload(r)
        BY <3>2 DEF CreateVideoUpload, DeleteVideoUpload, bucket
    <3>3. CASE CompleteMultipart(r)
        BY <3>3 DEF CompleteMultipart, db
    <3>4. CASE FinishVideoUpload(r)
      <4>1. CASE row' = row
          BY <3>4, <4>1 DEF FinishVideoUpload, db, bucket
      <4> QED BY <3>4, <4>1
    <3> QED BY <1>3, <3>1, <3>2, <3>3, <3>4 DEF ServerStep, Handle
  <2> QED BY <2>1, <2>2, <2>3, <2>4, <2>5, <2>6, <2>7
<1>4. CASE StaleVideoUploads \/ \E u \in Uploads : GetsOld(u) \/ SweepAborts(u) \/ SweepSkips(u)
  <2>1. UNCHANGED <<bad, row, rec, object, req>>
      BY <1>4 DEF StaleVideoUploads, GetsOld, SweepAborts, SweepSkips, db, bucket
  <2>2. \A u \in Uploads : Begun(u)' <=> Begun(u)
      BY <2>1 DEF Begun, At
  <2>3. CASE UNCHANGED multi
    <3>1. \A u \in Uploads : CanFinish(u)' <=> CanFinish(u)
        BY <2>1, <2>3 DEF CanFinish
    <3> QED BY <1>0, <2>1, <2>2, <2>3, <3>1, QuietShows DEF Promise!Next
  <2>4. ASSUME NEW u \in Uploads, SweepAborts(u)
        PROVE  Promise!Next \/ UNCHANGED <<View, object, bad>>
    <3>1. multi' = [multi EXCEPT ![u] = "gone"]
        BY <2>4 DEF SweepAborts, EndMultipart
    <3>2. /\ \A w \in Uploads : (multi'[w] = "none" => multi[w] = "none") /\ (CanFinish(w)' => CanFinish(w))
          /\ \A w \in Uploads \ {u} : multi'[w] = multi[w] /\ (CanFinish(w) => CanFinish(w)')
        BY <1>0, <2>1, <3>1 DEF CanFinish
    <3> QED BY <1>0, <2>1, <2>2, <3>2, QuietShows DEF Promise!Next
  <2> QED BY <1>4, <2>3, <2>4 DEF StaleVideoUploads, GetsOld, SweepSkips, bucket
<1>5. ASSUME NEW u \in Uploads, SweepForgets(u)
      PROVE  Promise!Next \/ UNCHANGED <<View, object, bad>>
  <2>1. row' = row \ {u} /\ UNCHANGED <<bad, rec, object, multi, req>>
      BY <1>5 DEF SweepForgets, bucket
  <2>2. \A w \in Uploads : (Begun(w)' <=> Begun(w)) /\ (CanFinish(w)' <=> CanFinish(w))
      BY <2>1 DEF Begun, At, CanFinish
  <2>3. CASE u \in row
      BY <1>0, <2>1, <2>2, <2>3, ForgetShows DEF Promise!Next
  <2>4. CASE u \notin row
      BY <1>0, <2>1, <2>2, <2>4, QuietShows DEF Promise!Next
  <2> QED BY <2>3, <2>4
<1>6. ASSUME NEW u \in Uploads, DeleteVideo(u)
      PROVE  Promise!Next
    BY <1>6, DeleteShows DEF Promise!Next
<1> QED BY <1>1, <1>2, <1>3, <1>4, <1>5, <1>6 DEF Next, SweepStep

(* Uploading implements what it promises the host: an upload is listed once
   or goes for good, only a whole file that passed the probe is listed, and
   a file goes only once its upload or its video has gone, or can no longer
   be listed: a refusal, whatever brought it on, never takes the file from
   under a complete that may yet list it, or from under a listed video. *)
THEOREM UploadImplementsPromise == Spec => UploadKeepsPromise
<1>1. Init => Promise!Init
  <2> SUFFICES ASSUME Init PROVE Promise!Init
      OBVIOUS
  <2>1. \A u \in Uploads : Shown(u) = "absent"
      BY DEF Init, Shown
  <2> QED BY <2>1 DEF Init, Promise!Init
<1>2. PInv /\ [Next]_vars => [Promise!Next]_<<View, object, bad>>
    BY StepShows
<1>3. [Promise!Next]_<<View, object, bad>> <=> [Promise!Next]_<<[u \in Uploads |-> Shown(u)], object, bad>>
    BY DEF View
<1> QED BY <1>1, <1>2, <1>3, InitPromise, NextPromise, PTL DEF Spec, UploadKeepsPromise, Promise!Spec
=============================================================================
