-------------------------- MODULE ShareLock_proofs --------------------------
(***************************************************************************)
(* Theorems about ShareLock, for any number of browsers, webhooks and      *)
(* shares: the types; that a room the API is done with has one share at    *)
(* most; and that no panelist's browser stops for a share that never       *)
(* outranked its own.                                                      *)
(***************************************************************************)
EXTENDS ShareLock, FiniteSetTheorems, TLAPS

-----------------------------------------------------------------------------
(* Types. *)

LEMMA InitTypes == Init => TypeOK
<1> SUFFICES ASSUME Init PROVE TypeOK
    OBVIOUS
<1>1. NoShare \in Shares
    BY DEF NoShare, Shares
<1>2. sids \in 0 .. MaxShares
    BY MaxSharesAssumption DEF Init
<1> QED BY <1>1, <1>2 DEF Init, TypeOK

(* What a client notes of the others are sids. *)
LEMMA OtherSidsTyped ==
    ASSUME TypeOK, NEW c \in Clients
    PROVE  OtherSids(c) \in SUBSET Sids
BY DEF TypeOK, OtherSids, Others, Sids, NoSid

(* A share that is stamped, or muted, is a share. *)
LEMMA StampedTyped ==
    ASSUME NEW s \in Shares, NEW k \in Nat
    PROVE  [s EXCEPT !.at = k] \in Shares
BY Zenon DEF Shares

LEMMA MutedTyped ==
    ASSUME NEW s \in Shares
    PROVE  [s EXCEPT !.muted = TRUE] \in Shares
BY Zenon DEF Shares

LEMMA UnpublishTypes ==
    ASSUME TypeOK, NEW c \in Clients, Unpublish(c)
    PROVE  TypeOK'
<1>1. NoShare \in Shares
    BY DEF NoShare, Shares
<1> QED BY <1>1 DEF Unpublish, TypeOK, api

LEMMA BrowserTypes ==
    ASSUME TypeOK, NEW c \in Clients, BrowserStep(c)
    PROVE  TypeOK'
<1>1. CASE PressShare(c)
  <2>1. Beaten(share, c) \in BOOLEAN
      BY DEF Beaten
  <2> QED BY <1>1, <2>1 DEF PressShare, TypeOK, sfu, api
<1>2. CASE CancelPicker(c)
    BY <1>2 DEF CancelPicker, TypeOK, sfu, api
<1>3. CASE PublishShare(c)
  <2>1. sids + 1 \in Sids /\ sids' \in 0 .. MaxShares
      BY <1>3, MaxSharesAssumption DEF PublishShare, TypeOK, Sids
  <2>2. [NoShare EXCEPT !.sid = sids + 1] \in Shares
      BY <2>1 DEF NoShare, Shares
  <2> QED BY <1>3, <2>1, <2>2, OtherSidsTyped DEF PublishShare, TypeOK, api
<1>4. CASE StopByHand(c) \/ StopYielded(c)
    BY <1>4, UnpublishTypes DEF StopByHand, StopYielded
<1>5. CASE YieldToMute(c)
    BY <1>5 DEF YieldToMute, TypeOK, sfu, api
<1>6. CASE YieldToOther(c)
    BY <1>6 DEF YieldToOther, TypeOK, sfu, api
<1>7. CASE Remount(c)
    BY <1>7 DEF Remount, TypeOK, sfu, api
<1> QED BY <1>1, <1>2, <1>3, <1>4, <1>5, <1>6, <1>7 DEF BrowserStep, Decide

LEMMA RoomTypes ==
    ASSUME TypeOK, NEW c \in Clients, RoomStep(c)
    PROVE  TypeOK'
<1>1. CASE MediaArrives(c)
  <2>1. clock' \in Nat /\ due' \in Nat
      BY <1>1 DEF MediaArrives, TypeOK
  <2>2. share' \in [Clients -> Shares]
    <3>1. share[c] \in Shares /\ clock + 1 \in Nat
        BY DEF TypeOK
    <3>2. [share[c] EXCEPT !.at = clock + 1] \in Shares
        BY <3>1, StampedTyped
    <3>3. share' = [share EXCEPT ![c] = [share[c] EXCEPT !.at = clock + 1]]
        BY <1>1 DEF MediaArrives
    <3> QED BY <3>2, <3>3 DEF TypeOK
  <2>3. outranked' \in [Clients -> BOOLEAN]
      BY <1>1 DEF MediaArrives, TypeOK, Beaten
  <2> QED BY <1>1, <2>1, <2>2, <2>3 DEF MediaArrives, TypeOK, browsers
<1>2. CASE LearnMuted(c)
    BY <1>2 DEF LearnMuted, TypeOK, api
<1>3. ASSUME NEW d \in Clients, Sync(c, d)
      PROVE  TypeOK'
  <2>1. share[d].sid \in Sids \cup {NoSid}
      BY DEF TypeOK, Shares
  <2> QED BY <1>3, <2>1 DEF Sync, TypeOK, sfu, api
<1> QED BY <1>1, <1>2, <1>3 DEF RoomStep

LEMMA ApiTypes ==
    ASSUME TypeOK, NEW h \in Hooks, ApiStep(h)
    PROVE  TypeOK'
<1>1. CASE ReadRoom(h)
    BY <1>1 DEF ReadRoom, TypeOK, sfu, browsers, Live
<1>2. ASSUME NEW c \in Clients, MuteTrack(h, c)
      PROVE  TypeOK'
  <2>1. share' \in [Clients -> Shares]
    <3>1. [share[c] EXCEPT !.muted = TRUE] \in Shares
        BY MutedTyped DEF TypeOK
    <3>2. share' = [share EXCEPT ![c] = [share[c] EXCEPT !.muted = TRUE]] \/ share' = share
        BY <1>2 DEF MuteTrack
    <3> QED BY <3>1, <3>2 DEF TypeOK
  <2> QED BY <1>2, <2>1 DEF MuteTrack, TypeOK, browsers
<1>3. ASSUME NEW c \in Clients, MuteTrackFails(h, c)
      PROVE  TypeOK'
    BY <1>3 DEF MuteTrackFails, TypeOK, sfu, browsers
<1> QED BY <1>1, <1>2, <1>3 DEF ApiStep

LEMMA NextTypes == TypeOK /\ [Next]_vars => TypeOK'
<1> SUFFICES ASSUME TypeOK, [Next]_vars PROVE TypeOK'
    OBVIOUS
<1>1. ASSUME NEW c \in Clients, BrowserStep(c) \/ RoomStep(c)
      PROVE  TypeOK'
    BY <1>1, BrowserTypes, RoomTypes
<1>2. ASSUME NEW h \in Hooks, ApiStep(h)
      PROVE  TypeOK'
    BY <1>2, ApiTypes
<1>3. CASE ReadRoomFails
    BY <1>3 DEF ReadRoomFails, TypeOK, sfu, browsers
<1>4. CASE UNCHANGED vars
    BY <1>4 DEF vars, TypeOK, sfu, browsers, api
<1> QED BY <1>1, <1>2, <1>3, <1>4 DEF Next

(* Every variable of the room keeps its type, whatever the browsers, the   *)
(* SFU and the API do and in whatever order.                               *)
THEOREM RoomTypesHold == Spec => []TypeOK
BY InitTypes, NextTypes, PTL DEF Spec

-----------------------------------------------------------------------------
(* What is on the stage after a step was there, or has just been stamped. *)
LEMMA StageGrowsByStamp ==
    ASSUME TypeOK, NEW c \in Clients,
           \/ share' = [share EXCEPT ![c] = NoShare]
           \/ \E n : share' = [share EXCEPT ![c] = [NoShare EXCEPT !.sid = n]]
           \/ share' = [share EXCEPT ![c].muted = TRUE]
           \/ share' = share
    PROVE  Live(share') \subseteq Live(share)
<1> SUFFICES ASSUME NEW d \in Live(share') PROVE d \in Live(share)
    OBVIOUS
<1>1. CASE d # c
    BY <1>1 DEF TypeOK, Live
<1>2. CASE d = c
  <2>1. ~(0 > 0) /\ NoShare.at = 0
      BY DEF NoShare
  <2>2. CASE share' = [share EXCEPT ![c] = NoShare]
      BY <1>2, <2>1, <2>2 DEF TypeOK, Live
  <2>3. ASSUME NEW n, share' = [share EXCEPT ![c] = [NoShare EXCEPT !.sid = n]]
        PROVE  FALSE
    <3>1. share'[c].at = 0
        BY <2>3 DEF TypeOK, NoShare
    <3> QED BY <1>2, <2>1, <3>1 DEF Live
  <2>4. CASE share' = [share EXCEPT ![c].muted = TRUE]
    <3>1. share'[c].muted
        BY <2>4 DEF TypeOK, Shares
    <3> QED BY <1>2, <3>1 DEF Live
  <2> QED BY <2>2, <2>3, <2>4
<1> QED BY <1>1, <1>2

-----------------------------------------------------------------------------
(* One share in a settled room.  Stamps tell the shares on the stage apart, so
   the rule picks one at most and a read of the room leaves no two shares
   standing; a share that comes later brings a webhook of its own.  Whenever no
   webhook is waiting, then, of any two shares on the stage one is already on
   the list of what some webhook has still to mute. *)

StampsDiffer ==
    /\ \A c \in Clients : share[c].at <= clock
    /\ \A c, d \in Clients : c # d /\ share[c].at > 0 => share[c].at # share[d].at

LoserKnown ==
    ~failed /\ due = 0 =>
        \A c, d \in Live(share) : c # d => \E h \in Hooks : {c, d} \cap losers[h] # {}

LInv == TypeOK /\ StampsDiffer /\ LoserKnown

(* The rule picks no two of the shares on the stage. *)
LEMMA PicksOne ==
    ASSUME TypeOK, StampsDiffer, NEW c \in PickShare(share), NEW d \in PickShare(share)
    PROVE  c = d
<1> SUFFICES ASSUME c # d PROVE FALSE
    OBVIOUS
<1>1. c \in Live(share) /\ d \in Live(share) /\ c \in Clients /\ d \in Clients
    BY DEF PickShare, Live
<1>2. ~Outranks(share, d, c) /\ ~Outranks(share, c, d)
    BY <1>1 DEF PickShare
<1>3. share[c].at \in Nat /\ share[d].at \in Nat /\ share[c].at # share[d].at
    BY <1>1 DEF TypeOK, Shares, StampsDiffer, Live
<1> QED BY <1>2, <1>3 DEF Outranks

(* A step that stamps nothing keeps the stamps apart. *)
LEMMA StampsKept ==
    ASSUME TypeOK, StampsDiffer, clock' = clock, NEW c \in Clients,
           \A e \in Clients \ {c} : share'[e] = share[e],
           share'[c].at \in {0, share[c].at}
    PROVE  StampsDiffer'
<1>1. \A e \in Clients : share[e].at \in Nat /\ share'[e].at \in {0, share[e].at}
    BY DEF TypeOK, Shares
<1>2. clock \in Nat
    BY DEF TypeOK
<1> QED BY <1>1, <1>2 DEF StampsDiffer

(* A step that adds nothing to the stage and takes nothing from the lists of
   losers keeps the invariant. *)
LEMMA LosersKept ==
    ASSUME LInv, TypeOK', StampsDiffer', Live(share') \subseteq Live(share),
           due' = 0 => due = 0, failed => failed',
           \A h \in Hooks : losers[h] \cap Live(share') \subseteq losers'[h]
    PROVE  LInv'
<1>1. LoserKnown'
  <2> SUFFICES ASSUME ~failed', due' = 0, NEW c \in Live(share'), NEW d \in Live(share'), c # d
               PROVE  \E h \in Hooks : {c, d} \cap losers'[h] # {}
      BY DEF LoserKnown
  <2>1. PICK h \in Hooks : {c, d} \cap losers[h] # {}
      BY DEF LInv, LoserKnown
  <2> QED BY <2>1
<1> QED BY <1>1 DEF LInv

LEMMA BrowserSettles ==
    ASSUME LInv, TypeOK', NEW c \in Clients, BrowserStep(c)
    PROVE  LInv'
<1>0. TypeOK /\ StampsDiffer
    BY DEF LInv
<1>1. UNCHANGED <<clock, due, losers, failed>>
    BY DEF BrowserStep, Decide, PressShare, CancelPicker, PublishShare, StopByHand, StopYielded,
       Unpublish, YieldToMute, YieldToOther, Remount, sfu, api
<1>2. \/ share' = share
      \/ share' = [share EXCEPT ![c] = NoShare]
      \/ share' = [share EXCEPT ![c] = [NoShare EXCEPT !.sid = sids + 1]]
    BY DEF BrowserStep, Decide, PressShare, CancelPicker, PublishShare, StopByHand, StopYielded,
       Unpublish, YieldToMute, YieldToOther, Remount, sfu
<1>3. Live(share') \subseteq Live(share)
    BY <1>0, <1>2, StageGrowsByStamp
<1>4. share'[c].at \in {0, share[c].at} /\ \A e \in Clients \ {c} : share'[e] = share[e]
    BY <1>0, <1>2 DEF TypeOK, NoShare
<1>5. StampsDiffer'
    BY <1>0, <1>1, <1>4, StampsKept
<1> QED BY <1>1, <1>3, <1>5, LosersKept

LEMMA RoomSettles ==
    ASSUME LInv, TypeOK', NEW c \in Clients, RoomStep(c)
    PROVE  LInv'
<1>0. TypeOK /\ StampsDiffer
    BY DEF LInv
<1>1. CASE MediaArrives(c)
  <2>1. due' # 0
      BY <1>0, <1>1 DEF MediaArrives, TypeOK
  <2>2. clock \in Nat /\ clock' = clock + 1 /\ share'[c].at = clock + 1
      BY <1>0, <1>1 DEF MediaArrives, TypeOK, Shares
  <2>3. \A e \in Clients \ {c} : share'[e] = share[e]
      BY <1>0, <1>1 DEF MediaArrives, TypeOK
  <2>4. \A e \in Clients : share[e].at \in Nat /\ share[e].at <= clock
      BY <1>0 DEF TypeOK, Shares, StampsDiffer
  <2>5. StampsDiffer'
      BY <1>0, <2>2, <2>3, <2>4 DEF StampsDiffer
  <2> QED BY <2>1, <2>5 DEF LInv, LoserKnown
<1>2. CASE LearnMuted(c) \/ \E d \in Clients : Sync(c, d)
  <2>1. UNCHANGED <<share, clock, due, losers, failed>>
      BY <1>2 DEF LearnMuted, Sync, sfu, api
  <2>2. StampsDiffer'
      BY <1>0, <2>1 DEF StampsDiffer
  <2> QED BY <2>1, <2>2, LosersKept
<1> QED BY <1>1, <1>2 DEF RoomStep

LEMMA ApiSettles ==
    ASSUME LInv, TypeOK', NEW h \in Hooks, ApiStep(h)
    PROVE  LInv'
<1>0. TypeOK /\ StampsDiffer
    BY DEF LInv
<1>1. CASE ReadRoom(h)
  <2>1. UNCHANGED <<share, clock>>
      BY <1>1 DEF ReadRoom, sfu
  <2>2. StampsDiffer'
      BY <1>0, <2>1 DEF StampsDiffer
  <2>3. losers'[h] = Live(share) \ PickShare(share)
      BY <1>0, <1>1 DEF ReadRoom, TypeOK
  <2>4. \A d, e \in Live(share) : d # e => {d, e} \cap losers'[h] # {}
      BY <1>0, <2>3, PicksOne
  <2> QED BY <2>1, <2>2, <2>4 DEF LInv, LoserKnown
<1>2. ASSUME NEW c \in Clients, MuteTrack(h, c)
      PROVE  LInv'
  <2>1. UNCHANGED <<clock, due, failed>>
      BY <1>2 DEF MuteTrack
  <2>2. losers' = [losers EXCEPT ![h] = @ \ {c}]
      BY <1>2 DEF MuteTrack
  <2>3. \/ c \notin Live(share) /\ share' = share
        \/ c \in Live(share) /\ share' = [share EXCEPT ![c].muted = TRUE]
      BY <1>2 DEF MuteTrack
  <2>4. Live(share') \subseteq Live(share)
      BY <1>0, <2>3, StageGrowsByStamp
  <2>5. c \notin Live(share')
      BY <1>0, <2>3 DEF Live, TypeOK, Shares
  <2>6. share'[c].at \in {0, share[c].at} /\ \A e \in Clients \ {c} : share'[e] = share[e]
      BY <1>0, <2>3 DEF TypeOK, Shares
  <2>7. StampsDiffer'
      BY <1>0, <2>1, <2>6, StampsKept
  <2>8. \A g \in Hooks : losers[g] \cap Live(share') \subseteq losers'[g]
      BY <1>0, <2>2, <2>5 DEF TypeOK
  <2> QED BY <2>1, <2>4, <2>7, <2>8, LosersKept
<1>3. ASSUME NEW c \in Clients, MuteTrackFails(h, c)
      PROVE  LInv'
  <2>1. failed' /\ UNCHANGED <<share, clock>>
      BY <1>3 DEF MuteTrackFails, sfu
  <2>2. StampsDiffer'
      BY <1>0, <2>1 DEF StampsDiffer
  <2> QED BY <2>1, <2>2 DEF LInv, LoserKnown
<1> QED BY <1>1, <1>2, <1>3 DEF ApiStep

LEMMA NextSettles == LInv /\ [Next]_vars => LInv'
<1> SUFFICES ASSUME LInv, [Next]_vars PROVE LInv'
    OBVIOUS
<1>0. TypeOK' /\ TypeOK /\ StampsDiffer
    BY NextTypes DEF LInv
<1>1. ASSUME NEW c \in Clients, BrowserStep(c) \/ RoomStep(c)
      PROVE  LInv'
    BY <1>0, <1>1, BrowserSettles, RoomSettles
<1>2. ASSUME NEW h \in Hooks, ApiStep(h)
      PROVE  LInv'
    BY <1>0, <1>2, ApiSettles
<1>3. CASE ReadRoomFails
  <2>1. failed' /\ UNCHANGED <<share, clock>>
      BY <1>3 DEF ReadRoomFails, sfu
  <2>2. StampsDiffer'
      BY <1>0, <2>1 DEF StampsDiffer
  <2> QED BY <1>0, <2>1, <2>2 DEF LInv, LoserKnown
<1>4. CASE UNCHANGED vars
  <2>1. UNCHANGED <<share, clock, due, losers, failed>>
      BY <1>4 DEF vars, sfu, api
  <2>2. StampsDiffer'
      BY <1>0, <2>1 DEF StampsDiffer
  <2> QED BY <1>0, <2>1, <2>2, LosersKept
<1> QED BY <1>1, <1>2, <1>3, <1>4 DEF Next

LEMMA InitSettles == Init => LInv
<1> SUFFICES ASSUME Init PROVE LInv
    OBVIOUS
<1>1. \A c \in Clients : share[c].at = 0
    BY DEF Init, NoShare
<1>2. StampsDiffer
    BY <1>1 DEF Init, StampsDiffer
<1>3. Live(share) = {}
    BY <1>1 DEF Live
<1> QED BY <1>2, <1>3, InitTypes DEF LInv, LoserKnown

(* Whatever starts, stops and starts again while the API reads and mutes,  *)
(* with any number of hosts, panelists and webhooks at once: when the API  *)
(* has nothing left to do and has failed at nothing, one share at most is  *)
(* live, without any browser having to stop by itself.                     *)
THEOREM OneShareOnceSettled == Spec => []SettledRoomHasOneShare
<1>1. LInv => SettledRoomHasOneShare
  <2> SUFFICES ASSUME LInv, due = 0, \A h \in Hooks : losers[h] = {}, ~failed
               PROVE  Cardinality(Live(share)) <= 1
      BY DEF SettledRoomHasOneShare
  <2>1. \A c, d \in Live(share) : c = d
      BY DEF LInv, LoserKnown
  <2>2. CASE Live(share) = {}
      BY <2>2, FS_EmptySet
  <2>3. ASSUME NEW c \in Live(share)
        PROVE  Cardinality(Live(share)) <= 1
    <3>1. Live(share) = {c}
        BY <2>1
    <3> QED BY <3>1, FS_Singleton
  <2> QED BY <2>2, <2>3
<1> QED BY <1>1, InitSettles, NextSettles, PTL DEF Spec

-----------------------------------------------------------------------------
(* Who stops for whom.  What a panelist's browser knows of the others was
   on the stage at some moment since it pressed Share, and anything that is
   there before its own share has been stamped, or that is a host's, has
   outranked it then: the invariant follows that fact from the stage to
   what the browser has seen, to what it noted at its publish, to why it
   stops. *)

Presenting(c) == pc[c] \in {"sharing", "yielding"}

NoShareYet == \A c \in Clients : pc[c] \in {"idle", "picking"} => share[c] = NoShare

StageOutranksPicker ==
    \A c \in Clients \ Hosts : pc[c] = "picking" =>
        ((\E d \in Live(share) : d # c) \/ Others(c) # {} => outranked[c])

NotedOutranks ==
    \A c \in Clients \ Hosts : Presenting(c) /\ seen[c] # {} => outranked[c]

HostOutranks ==
    \A c \in Clients \ Hosts, d \in Hosts : Presenting(c) =>
        (d \in Live(share) \/ view[c][d] # NoSid => outranked[c])

OInv ==
    /\ TypeOK
    /\ NoShareYet
    /\ StageOutranksPicker
    /\ NotedOutranks
    /\ HostOutranks
    /\ PanelistsGiveWayWhenOutranked

LEMMA InitOutranks == Init => OInv
BY InitTypes DEF Init, OInv, NoShareYet, StageOutranksPicker, NotedOutranks, HostOutranks,
   PanelistsGiveWayWhenOutranked, Presenting

(* A panelist's browser that stops for another's share has been outranked. *)
LEMMA YieldOutranked ==
    ASSUME OInv, NEW c \in Clients \ Hosts, YieldToOther(c)
    PROVE  outranked[c]
<1>1. PICK d \in Others(c) : LosesTo(c, d)
    BY DEF YieldToOther
<1>2. d \in Clients /\ d # c /\ view[c][d] # NoSid
    BY DEF Others
<1>3. c \notin Hosts
    OBVIOUS
<1>4. Presenting(c)
    BY DEF YieldToOther, Presenting
<1>5. CASE d \in Hosts
    BY <1>2, <1>3, <1>4, <1>5 DEF OInv, HostOutranks
<1>6. CASE view[c][d] \in seen[c]
    BY <1>3, <1>4, <1>6 DEF OInv, NotedOutranks
<1> QED BY <1>1, <1>3, <1>5, <1>6 DEF LosesTo

(* A step that adds nothing to the stage, and changes nothing a browser
   knows but its own mute, keeps the invariant. *)
LEMMA QuietKeeps ==
    ASSUME OInv, TypeOK', NoShareYet', Live(share') \subseteq Live(share),
           UNCHANGED <<pc, view, seen, outranked>>,
           \A c \in Clients : mutedBy[c] => mutedBy'[c]
    PROVE  OInv'
<1>1. \A c \in Clients : Others(c)' = Others(c) /\ Presenting(c)' = Presenting(c)
    BY DEF Others, Presenting
<1>2. StageOutranksPicker'
    BY <1>1 DEF OInv, StageOutranksPicker
<1>3. NotedOutranks' /\ HostOutranks'
    BY <1>1 DEF OInv, NotedOutranks, HostOutranks
<1>4. PanelistsGiveWayWhenOutranked'
    BY DEF OInv, PanelistsGiveWayWhenOutranked
<1> QED BY <1>2, <1>3, <1>4 DEF OInv

(* A step of one browser that leaves what it knows of the others alone
   keeps the invariant if it keeps that browser's part. *)
LEMMA OwnStepKeeps ==
    ASSUME OInv, TypeOK', NoShareYet', NEW c \in Clients, view' = view,
           Live(share') \subseteq Live(share),
           \A e \in Clients \ {c} : /\ pc'[e] = pc[e] /\ seen'[e] = seen[e]
                                    /\ mutedBy'[e] = mutedBy[e]
                                    /\ outranked'[e] = outranked[e],
           c \notin Hosts /\ pc'[c] = "picking" =>
               ((\E d \in Live(share) : d # c) \/ Others(c) # {} => outranked'[c]),
           c \notin Hosts /\ Presenting(c)' =>
               /\ (seen'[c] # {} => outranked'[c])
               /\ \A d \in Hosts : d \in Live(share) \/ view[c][d] # NoSid => outranked'[c],
           c \notin Hosts /\ pc'[c] = "yielding" /\ ~mutedBy'[c] => outranked'[c]
    PROVE  OInv'
<1>1. \A e \in Clients : Others(e)' = Others(e)
    BY DEF Others
<1>2. \A e \in Clients \ {c} : Presenting(e)' = Presenting(e)
    BY DEF Presenting
<1>3. StageOutranksPicker'
    BY <1>1 DEF OInv, StageOutranksPicker
<1>4. NotedOutranks'
    BY <1>2 DEF OInv, NotedOutranks
<1>5. HostOutranks'
    BY <1>2 DEF OInv, HostOutranks
<1>6. PanelistsGiveWayWhenOutranked'
    BY DEF OInv, PanelistsGiveWayWhenOutranked
<1> QED BY <1>3, <1>4, <1>5, <1>6 DEF OInv

LEMMA BrowserKeeps ==
    ASSUME OInv, TypeOK', NEW c \in Clients, BrowserStep(c)
    PROVE  OInv'
<1>0. TypeOK /\ NoShareYet /\ StageOutranksPicker /\ NotedOutranks /\ HostOutranks
        /\ PanelistsGiveWayWhenOutranked
    BY DEF OInv
<1>1. CASE PressShare(c)
  <2>1. share[c].at = 0
      BY <1>0, <1>1 DEF PressShare, NoShareYet, NoShare
  <2>2. c \notin Hosts /\ (\E d \in Live(share) : d # c) => Beaten(share, c)
      BY <2>1 DEF Beaten
  <2>3. c \notin Hosts => Others(c) = {}
      BY <1>1 DEF PressShare, MayShare
  <2>4. outranked'[c] = Beaten(share, c) /\ pc'[c] = "picking"
      BY <1>0, <1>1 DEF PressShare, TypeOK
  <2>5. NoShareYet'
      BY <1>0, <1>1 DEF PressShare, NoShareYet, TypeOK, sfu
  <2>6. \A e \in Clients \ {c} : pc'[e] = pc[e] /\ outranked'[e] = outranked[e]
      BY <1>0, <1>1 DEF PressShare, TypeOK
  <2>7. UNCHANGED <<share, view, seen, mutedBy>>
      BY <1>1 DEF PressShare, sfu
  <2> QED BY <2>2, <2>3, <2>4, <2>5, <2>6, <2>7, OwnStepKeeps DEF Presenting
<1>2. CASE CancelPicker(c)
  <2>1. pc'[c] = "idle" /\ \A e \in Clients \ {c} : pc'[e] = pc[e]
      BY <1>0, <1>2 DEF CancelPicker, TypeOK
  <2>2. UNCHANGED <<share, view, seen, mutedBy, outranked>>
      BY <1>2 DEF CancelPicker, sfu
  <2>3. NoShareYet'
      BY <1>0, <1>2, <2>1, <2>2 DEF CancelPicker, NoShareYet
  <2> QED BY <2>1, <2>2, <2>3, OwnStepKeeps DEF Presenting
<1>3. CASE PublishShare(c)
  <2>1. pc'[c] = "sharing" /\ seen'[c] = OtherSids(c)
      BY <1>0, <1>3 DEF PublishShare, TypeOK
  <2>2. \A e \in Clients \ {c} : /\ pc'[e] = pc[e] /\ seen'[e] = seen[e]
                                 /\ mutedBy'[e] = mutedBy[e]
                                 /\ share'[e] = share[e]
      BY <1>0, <1>3 DEF PublishShare, TypeOK
  <2>3. UNCHANGED <<view, outranked>>
      BY <1>3 DEF PublishShare
  <2>4. NoShareYet'
      BY <1>0, <2>1, <2>2 DEF NoShareYet
  <2>5. Live(share') \subseteq Live(share)
      BY <1>0, <1>3, StageGrowsByStamp DEF PublishShare
  <2>6. c \notin Hosts => ((\E d \in Live(share) : d # c) \/ Others(c) # {} => outranked[c])
      BY <1>0, <1>3 DEF PublishShare, StageOutranksPicker
  <2>7. OtherSids(c) # {} => Others(c) # {}
      BY DEF OtherSids
  <2>8. ASSUME NEW d \in Hosts, d # c, d \in Live(share) \/ view[c][d] # NoSid
        PROVE  (\E e \in Live(share) : e # c) \/ Others(c) # {}
      BY <2>8, HostsAssumption DEF Others
  <2>9. c \notin Hosts => \A d \in Hosts : d \in Live(share) \/ view[c][d] # NoSid => outranked[c]
      BY <2>6, <2>8
  <2> QED BY <2>1, <2>2, <2>3, <2>4, <2>5, <2>6, <2>7, <2>9, OwnStepKeeps
<1>4. CASE StopByHand(c) \/ StopYielded(c)
  <2>0. Unpublish(c)
      BY <1>4 DEF StopByHand, StopYielded
  <2>1. pc'[c] = "idle" /\ share'[c] = NoShare
      BY <1>0, <2>0 DEF Unpublish, TypeOK
  <2>2. \A e \in Clients \ {c} : /\ pc'[e] = pc[e] /\ seen'[e] = seen[e]
                                 /\ mutedBy'[e] = mutedBy[e]
                                 /\ share'[e] = share[e]
      BY <1>0, <2>0 DEF Unpublish, TypeOK
  <2>3. UNCHANGED <<view, outranked>>
      BY <2>0 DEF Unpublish
  <2>4. NoShareYet'
      BY <1>0, <2>1, <2>2 DEF NoShareYet
  <2>5. Live(share') \subseteq Live(share)
      BY <1>0, <2>0, StageGrowsByStamp DEF Unpublish
  <2> QED BY <2>1, <2>2, <2>3, <2>4, <2>5, OwnStepKeeps DEF Presenting
<1>5. CASE YieldToMute(c)
  <2>1. pc'[c] = "yielding" /\ pc[c] = "sharing" /\ mutedBy'[c] /\ \A e \in Clients \ {c} : pc'[e] = pc[e]
      BY <1>0, <1>5 DEF YieldToMute, TypeOK
  <2>2. UNCHANGED <<share, view, seen, mutedBy, outranked>>
      BY <1>5 DEF YieldToMute, sfu
  <2>3. NoShareYet'
      BY <1>0, <2>1, <2>2 DEF NoShareYet
  <2>4. c \notin Hosts => /\ (seen[c] # {} => outranked[c])
                          /\ \A d \in Hosts : d \in Live(share) \/ view[c][d] # NoSid => outranked[c]
      BY <1>0, <2>1 DEF NotedOutranks, HostOutranks, Presenting
  <2> QED BY <2>1, <2>2, <2>3, <2>4, OwnStepKeeps
<1>6. CASE YieldToOther(c)
  <2>1. pc'[c] = "yielding" /\ \A e \in Clients \ {c} : pc'[e] = pc[e]
      BY <1>0, <1>6 DEF YieldToOther, TypeOK
  <2>2. UNCHANGED <<share, view, seen, mutedBy, outranked>>
      BY <1>6 DEF YieldToOther, sfu
  <2>3. NoShareYet'
      BY <1>0, <2>1, <2>2 DEF NoShareYet
  <2>4. c \notin Hosts => outranked[c]
      BY <1>6, YieldOutranked
  <2> QED BY <2>1, <2>2, <2>3, <2>4, OwnStepKeeps
<1>7. CASE Remount(c)
  <2>1. pc[c] = "sharing" /\ seen'[c] = {}
      BY <1>0, <1>7 DEF Remount, TypeOK
  <2>2. UNCHANGED <<share, pc, view, outranked>>
      BY <1>7 DEF Remount, sfu
  <2>3. \A e \in Clients \ {c} : seen'[e] = seen[e] /\ mutedBy'[e] = mutedBy[e]
      BY <1>0, <1>7 DEF Remount, TypeOK
  <2>4. NoShareYet'
      BY <1>0, <2>2 DEF NoShareYet
  <2>5. c \notin Hosts => \A d \in Hosts : d \in Live(share) \/ view[c][d] # NoSid => outranked[c]
      BY <1>0, <2>1 DEF HostOutranks, Presenting
  <2> QED BY <2>1, <2>2, <2>3, <2>4, <2>5, OwnStepKeeps
<1> QED BY <1>1, <1>2, <1>3, <1>4, <1>5, <1>6, <1>7 DEF BrowserStep, Decide

LEMMA RoomKeeps ==
    ASSUME OInv, TypeOK', NEW c \in Clients, RoomStep(c)
    PROVE  OInv'
<1>0. TypeOK /\ NoShareYet /\ StageOutranksPicker /\ NotedOutranks /\ HostOutranks
        /\ PanelistsGiveWayWhenOutranked
    BY DEF OInv
<1>1. CASE MediaArrives(c)
  <2>1. UNCHANGED <<pc, view, seen, mutedBy>>
      BY <1>1 DEF MediaArrives, browsers
  <2>a. \A e \in Clients : Others(e)' = Others(e) /\ Presenting(e)' = Presenting(e)
      BY <2>1 DEF Others, Presenting
  <2>b. \A e \in Clients : outranked[e] => outranked'[e]
      BY <1>1 DEF MediaArrives
  <2>c. \A e \in Clients : pc[e] # "idle" /\ Beaten(share', e) => outranked'[e]
      BY <1>1 DEF MediaArrives
  <2>3. \A e \in Clients \ {c} : share'[e] = share[e]
      BY <1>0, <1>1 DEF MediaArrives, TypeOK
  <2>4. pc[c] \notin {"idle", "picking"}
      BY <1>0, <1>1 DEF MediaArrives, NoShareYet, NoShare
  <2>5. NoShareYet'
      BY <1>0, <2>1, <2>3, <2>4 DEF NoShareYet
  <2>6. StageOutranksPicker'
    <3> SUFFICES ASSUME NEW e \in Clients \ Hosts, pc[e] = "picking",
                        (\E d \in Live(share') : d # e) \/ Others(e) # {}
                 PROVE  outranked'[e]
        BY <2>1, <2>a, <2>b, <2>c DEF StageOutranksPicker
    <3>1. share'[e].at = 0
        BY <1>0, <2>3, <2>4 DEF NoShareYet, NoShare
    <3>2. ASSUME NEW d \in Live(share'), d # e
          PROVE  Beaten(share', e)
        BY <3>1, <3>2 DEF Beaten
    <3> QED BY <1>0, <2>a, <2>b, <2>c, <3>2 DEF StageOutranksPicker
  <2>7. NotedOutranks'
      BY <1>0, <2>1, <2>a, <2>b, <2>c DEF NotedOutranks
  <2>8. HostOutranks'
    <3> SUFFICES ASSUME NEW e \in Clients \ Hosts, NEW d \in Hosts, Presenting(e),
                        d \in Live(share') \/ view[e][d] # NoSid
                 PROVE  outranked'[e]
        BY <2>1, <2>a, <2>b, <2>c DEF HostOutranks
    <3>1. CASE d \in Live(share')
      <4>1. Beaten(share', e)
          BY <3>1 DEF Beaten, Outranks
      <4> QED BY <2>a, <2>b, <2>c, <4>1 DEF Presenting
    <3> QED BY <1>0, <2>a, <2>b, <2>c, <3>1 DEF HostOutranks
  <2>9. PanelistsGiveWayWhenOutranked'
      BY <1>0, <2>1, <2>a, <2>b, <2>c DEF PanelistsGiveWayWhenOutranked
  <2> QED BY <2>5, <2>6, <2>7, <2>8, <2>9 DEF OInv
<1>2. CASE LearnMuted(c)
  <2>1. UNCHANGED <<share, pc, view, seen, outranked>>
      BY <1>2 DEF LearnMuted
  <2>2. \A e \in Clients : mutedBy[e] => mutedBy'[e]
      BY <1>0, <1>2 DEF LearnMuted, TypeOK
  <2>3. NoShareYet'
      BY <1>0, <2>1 DEF NoShareYet
  <2> QED BY <2>1, <2>2, <2>3, QuietKeeps
<1>3. ASSUME NEW d \in Clients, Sync(c, d)
      PROVE  OInv'
  <2>1. UNCHANGED <<share, pc, seen, mutedBy, outranked>> /\ c # d
      BY <1>3 DEF Sync, sfu
  <2>2. view'[c][d] # NoSid => d \in Live(share)
      BY <1>0, <1>3 DEF Sync, TypeOK
  <2>3. \A e, f \in Clients : e # c \/ f # d => view'[e][f] = view[e][f]
      BY <1>0, <1>3 DEF Sync, TypeOK
  <2>4. NoShareYet' /\ NotedOutranks' /\ PanelistsGiveWayWhenOutranked'
      BY <1>0, <2>1 DEF NoShareYet, NotedOutranks, PanelistsGiveWayWhenOutranked, Presenting
  <2>5. StageOutranksPicker'
    <3> SUFFICES ASSUME NEW e \in Clients \ Hosts, pc[e] = "picking",
                        (\E f \in Live(share) : f # e) \/ Others(e)' # {}
                 PROVE  outranked[e]
        BY <2>1 DEF StageOutranksPicker
    <3>1. ASSUME NEW f \in Clients \ {e}, view'[e][f] # NoSid
          PROVE  (\E g \in Live(share) : g # e) \/ Others(e) # {}
        BY <2>1, <2>2, <2>3, <3>1 DEF Others
    <3>2. Others(e)' # {} => \E f \in Clients \ {e} : view'[e][f] # NoSid
        BY DEF Others
    <3> QED BY <1>0, <3>1, <3>2 DEF StageOutranksPicker
  <2>6. HostOutranks'
    <3> SUFFICES ASSUME NEW e \in Clients \ Hosts, NEW f \in Hosts, Presenting(e),
                        f \in Live(share) \/ view'[e][f] # NoSid
                 PROVE  outranked[e]
        BY <2>1 DEF HostOutranks, Presenting
    <3>1. f \in Clients
        BY HostsAssumption
    <3>2. f \in Live(share) \/ view[e][f] # NoSid
        BY <2>2, <2>3, <3>1
    <3> QED BY <1>0, <3>2 DEF HostOutranks
  <2> QED BY <2>4, <2>5, <2>6 DEF OInv
<1> QED BY <1>1, <1>2, <1>3 DEF RoomStep

LEMMA ApiKeeps ==
    ASSUME OInv, TypeOK', NEW h \in Hooks, ApiStep(h)
    PROVE  OInv'
<1>0. TypeOK /\ NoShareYet
    BY DEF OInv
<1>1. CASE ReadRoom(h) \/ \E c \in Clients : MuteTrackFails(h, c)
  <2>1. UNCHANGED <<share, pc, view, seen, mutedBy, outranked>>
      BY <1>1 DEF ReadRoom, MuteTrackFails, sfu, browsers
  <2>2. NoShareYet'
      BY <1>0, <2>1 DEF NoShareYet
  <2> QED BY <2>1, <2>2, QuietKeeps
<1>2. ASSUME NEW c \in Clients, MuteTrack(h, c)
      PROVE  OInv'
  <2>1. UNCHANGED <<pc, view, seen, mutedBy, outranked>>
      BY <1>2 DEF MuteTrack, browsers
  <2>2. CASE c \in Live(share)
    <3>1. share' = [share EXCEPT ![c].muted = TRUE]
        BY <1>2, <2>2 DEF MuteTrack
    <3>2. share[c] # NoShare
        BY <2>2 DEF Live, NoShare
    <3>3. NoShareYet'
        BY <1>0, <2>1, <3>1, <3>2 DEF NoShareYet, TypeOK
    <3>4. Live(share') \subseteq Live(share)
        BY <1>0, <3>1, StageGrowsByStamp
    <3> QED BY <2>1, <3>3, <3>4, QuietKeeps
  <2>3. CASE c \notin Live(share)
    <3>1. UNCHANGED share
        BY <1>2, <2>3 DEF MuteTrack
    <3>2. NoShareYet'
        BY <1>0, <2>1, <3>1 DEF NoShareYet
    <3> QED BY <2>1, <3>1, <3>2, QuietKeeps
  <2> QED BY <2>2, <2>3
<1> QED BY <1>1, <1>2 DEF ApiStep

LEMMA NextKeeps == OInv /\ [Next]_vars => OInv'
<1> SUFFICES ASSUME OInv, [Next]_vars PROVE OInv'
    OBVIOUS
<1>0. TypeOK'
    BY NextTypes DEF OInv
<1>1. ASSUME NEW c \in Clients, BrowserStep(c) \/ RoomStep(c)
      PROVE  OInv'
    BY <1>0, <1>1, BrowserKeeps, RoomKeeps
<1>2. ASSUME NEW h \in Hooks, ApiStep(h)
      PROVE  OInv'
    BY <1>0, <1>2, ApiKeeps
<1>3. CASE ReadRoomFails \/ UNCHANGED vars
  <2>1. UNCHANGED <<share, pc, view, seen, mutedBy, outranked>>
      BY <1>3 DEF ReadRoomFails, vars, sfu, browsers
  <2>2. NoShareYet'
      BY <2>1 DEF OInv, NoShareYet
  <2> QED BY <1>0, <2>1, <2>2, QuietKeeps
<1> QED BY <1>1, <1>2, <1>3 DEF Next

(* With any number of hosts and panelists, and whichever control bars are  *)
(* mounted again in the middle of a share: a panelist's browser that stops *)
(* its share for another's was outranked since it pressed Share.  The      *)
(* order in which it saw things never contradicts the SFU's.               *)
THEOREM PanelistsStopOnlyWhenOutranked == Spec => []PanelistsGiveWayWhenOutranked
<1>1. OInv => PanelistsGiveWayWhenOutranked
    BY DEF OInv
<1> QED BY <1>1, InitOutranks, NextKeeps, PTL DEF Spec
=============================================================================
