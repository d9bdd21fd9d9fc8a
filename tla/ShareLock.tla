----------------------------- MODULE ShareLock -----------------------------
(***************************************************************************)
(* One screen share at a time in a room (web/lib/share-lock.ts,            *)
(* web/lib/use-share-lock.ts, api/share_lock.go).                          *)
(*                                                                         *)
(* Nobody holds a lock.  Each browser decides from what it has seen so far *)
(* of the others' shares: whether its Share button works, and, once it     *)
(* shares, whether it has to stop.  The API, told by a webhook that a      *)
(* share was published, reads the room and mutes every share but one; a    *)
(* browser whose share is muted stops it.  A picker that stays open, the   *)
(* SFU's updates on their way and the API's reading and muting all leave   *)
(* time for the others to move.                                            *)
(*                                                                         *)
(* The SFU is external: a share is stamped, shown to the others and        *)
(* announced to the API when its media first arrives, which is after the   *)
(* publisher's own publish.  Stamps are a clock's, and differ: the media   *)
(* of two shares do not arrive in the same microsecond.                    *)
(***************************************************************************)
EXTENDS Naturals, FiniteSets

CONSTANTS
    Clients,    \* the browsers in the room that may share
    Hosts,      \* those of the host and the co-hosts ("privileged")
    Remounters, \* those whose control bar may be mounted again while they share
    Hooks,      \* webhooks the API may be at work on at once
    MaxShares,  \* bound: shares published in one behaviour
    Events      \* what else happens

ASSUME HostsAssumption == Hosts \subseteq Clients
ASSUME RemountersAssumption == Remounters \subseteq Clients
ASSUME MaxSharesAssumption == MaxShares \in Nat
ASSUME EventsAssumption == Events \subseteq {"stop", "error"}

VARIABLES
    share,     \* the SFU: each client's screen share
    sids,      \* track sids given so far
    clock,     \* stamps given so far
    pc,        \* a client: idle, picking, sharing, or stopping what has lost
    view,      \* the sid of each other client's unmuted share, as far as a client knows
    seen,      \* atStart: the sids noted as live when its own share was published
    untold,    \* a mute of its own share is on its way to it
    mutedBy,   \* mutedByServer: it was told that its own share is muted
    due,       \* webhooks of published shares the API has not started on
    losers,    \* what each webhook in the API has still to mute
    outranked, \* since it pressed Share, another share has outranked it (history)
    failed     \* a webhook's read or mute has failed (history)

sfu == <<share, sids, clock, untold>>
browsers == <<pc, view, seen, mutedBy>>
api == <<due, losers>>
vars == <<sfu, browsers, api, outranked, failed>>

Sids == 1 .. MaxShares
NoSid == 0

Shares == [sid : Sids \cup {NoSid}, at : Nat, muted : BOOLEAN]
NoShare == [sid |-> NoSid, at |-> 0, muted |-> FALSE]

(* Every variable keeps its type. *)
TypeOK ==
    /\ share \in [Clients -> Shares]
    /\ sids \in 0 .. MaxShares
    /\ clock \in Nat
    /\ pc \in [Clients -> {"idle", "picking", "sharing", "yielding"}]
    /\ view \in [Clients -> [Clients -> Sids \cup {NoSid}]]
    /\ seen \in [Clients -> SUBSET Sids]
    /\ untold \in [Clients -> BOOLEAN]
    /\ mutedBy \in [Clients -> BOOLEAN]
    /\ due \in Nat
    /\ losers \in [Hooks -> SUBSET Clients]
    /\ outranked \in [Clients -> BOOLEAN]
    /\ failed \in BOOLEAN

-----------------------------------------------------------------------------
(* The rule, the same in the browsers and in the API. *)

Live(s) == {c \in Clients : s[c].at > 0 /\ ~s[c].muted}

(* d's share is on the stage rather than c's: the newest of a host's, else *)
(* the oldest.                                                             *)
Outranks(s, d, c) ==
    IF d \in Hosts THEN c \notin Hosts \/ s[d].at > s[c].at
                   ELSE c \notin Hosts /\ s[d].at < s[c].at

(* pickShare: the live share that no other outranks, if any. *)
PickShare(s) == {c \in Live(s) : \A d \in Live(s) \ {c} : ~Outranks(s, d, c)}

(* Something on the stage outranks c's share.  One still on its way there  *)
(* has no stamp, and is outranked by all that is there, unless a host's.   *)
Beaten(s, c) ==
    \E d \in Live(s) \ {c} :
        IF s[c].at = 0 THEN c \notin Hosts ELSE Outranks(s, d, c)

-----------------------------------------------------------------------------
(* A browser. *)

(* The others' shares on the stage, as far as c knows (readRemoteShares). *)
Others(c) == {d \in Clients \ {c} : view[c][d] # NoSid}

(* Mutant of OtherSids: notes who shares rather than which share it is. *)
OtherPeople(c) == Others(c)

OtherSids(c) == {view[c][d] : d \in Others(c)}

(* The Share button's gate: start or take over, unless blocked. *)
MayShare(c) == c \in Hosts \/ Others(c) = {}

(* Mutant of LosesTo: without presentAtStart. *)
LosesToAny(c, d) == c \notin Hosts \/ d \in Hosts

(* shouldYield, for what another has on the stage: it was there at the     *)
(* start of c's share when c has noted its sid.                            *)
LosesTo(c, d) ==
    IF c \in Hosts THEN d \in Hosts /\ view[c][d] \notin seen[c]
                   ELSE d \in Hosts \/ view[c][d] \in seen[c]

Init ==
    /\ share = [c \in Clients |-> NoShare]
    /\ sids = 0
    /\ clock = 0
    /\ pc = [c \in Clients |-> "idle"]
    /\ view = [c \in Clients |-> [d \in Clients |-> NoSid]]
    /\ seen = [c \in Clients |-> {}]
    /\ untold = [c \in Clients |-> FALSE]
    /\ mutedBy = [c \in Clients |-> FALSE]
    /\ due = 0
    /\ losers = [h \in Hooks |-> {}]
    /\ outranked = [c \in Clients |-> FALSE]
    /\ failed = FALSE

(* The Share button, pressed and let through: the browser's picker opens.  *)
PressShare(c) ==
    /\ pc[c] = "idle"
    /\ MayShare(c)
    /\ pc' = [pc EXCEPT ![c] = "picking"]
    /\ outranked' = [outranked EXCEPT ![c] = Beaten(share, c)]
    /\ UNCHANGED <<sfu, view, seen, mutedBy, api, failed>>

CancelPicker(c) ==
    /\ pc[c] = "picking"
    /\ pc' = [pc EXCEPT ![c] = "idle"]
    /\ UNCHANGED <<sfu, view, seen, mutedBy, api, outranked, failed>>

(* Something was picked and is published, without a look at the gate       *)
(* again: LocalTrackPublished notes which other shares are live.           *)
PublishShare(c) ==
    /\ pc[c] = "picking"
    /\ sids < MaxShares
    /\ sids' = sids + 1
    /\ share' = [share EXCEPT ![c] = [NoShare EXCEPT !.sid = sids + 1]]
    /\ pc' = [pc EXCEPT ![c] = "sharing"]
    /\ seen' = [seen EXCEPT ![c] = OtherSids(c)]
    /\ mutedBy' = [mutedBy EXCEPT ![c] = FALSE]
    /\ UNCHANGED <<clock, untold, view, api, outranked, failed>>

(* The share ends at the SFU, and LocalTrackUnpublished forgets it. *)
Unpublish(c) ==
    /\ share' = [share EXCEPT ![c] = NoShare]
    /\ pc' = [pc EXCEPT ![c] = "idle"]
    /\ seen' = [seen EXCEPT ![c] = {}]
    /\ mutedBy' = [mutedBy EXCEPT ![c] = FALSE]
    /\ untold' = [untold EXCEPT ![c] = FALSE]
    /\ UNCHANGED <<sids, clock, view, api, outranked, failed>>

StopByHand(c) ==
    /\ "stop" \in Events
    /\ pc[c] = "sharing"
    /\ Unpublish(c)

(* Mutant of YieldToMute: a muted share stops for another on the stage only. *)
YieldToMuteForAnother(c) ==
    /\ pc[c] = "sharing"
    /\ mutedBy[c] /\ Others(c) # {}
    /\ pc' = [pc EXCEPT ![c] = "yielding"]
    /\ UNCHANGED <<sfu, view, seen, mutedBy, api, outranked, failed>>

(* decide: the server has muted c's share. *)
YieldToMute(c) ==
    /\ pc[c] = "sharing"
    /\ mutedBy[c]
    /\ pc' = [pc EXCEPT ![c] = "yielding"]
    /\ UNCHANGED <<sfu, view, seen, mutedBy, api, outranked, failed>>

(* decide: another's share outranks c's, as far as c can tell. *)
YieldToOther(c) ==
    /\ pc[c] = "sharing"
    /\ ~mutedBy[c]
    /\ \E d \in Others(c) : LosesTo(c, d)
    /\ pc' = [pc EXCEPT ![c] = "yielding"]
    /\ UNCHANGED <<sfu, view, seen, mutedBy, api, outranked, failed>>

StopYielded(c) ==
    /\ pc[c] = "yielding"
    /\ Unpublish(c)

(* The control bar is mounted again.  The hook starts over and decides     *)
(* before it has read the room: its snapshot is the empty list it starts   *)
(* with, so that nothing it sees afterwards was there first.               *)
Remount(c) ==
    /\ c \in Remounters
    /\ pc[c] = "sharing"
    /\ seen' = [seen EXCEPT ![c] = {}]
    /\ mutedBy' = [mutedBy EXCEPT ![c] = FALSE]
    /\ UNCHANGED <<sfu, pc, view, api, outranked, failed>>

-----------------------------------------------------------------------------
(* The SFU and the API. *)

(* The first media of c's share: it is stamped, and the API is told. *)
MediaArrives(c) ==
    /\ share[c].sid # NoSid /\ share[c].at = 0
    /\ clock' = clock + 1
    /\ share' = [share EXCEPT ![c].at = clock + 1]
    /\ due' = due + 1
    /\ outranked' = [d \in Clients |->
           outranked[d] \/ (pc[d] # "idle" /\ Beaten(share', d))]
    /\ UNCHANGED <<sids, untold, browsers, losers, failed>>

(* c learns how d's share is now. *)
Sync(c, d) ==
    /\ c # d
    /\ LET now == IF d \in Live(share) THEN share[d].sid ELSE NoSid IN
       /\ view[c][d] # now
       /\ view' = [view EXCEPT ![c][d] = now]
    /\ UNCHANGED <<sfu, pc, seen, mutedBy, api, outranked, failed>>

(* c is told, once, that its own share was muted. *)
LearnMuted(c) ==
    /\ untold[c]
    /\ untold' = [untold EXCEPT ![c] = FALSE]
    /\ mutedBy' = [mutedBy EXCEPT ![c] = TRUE]
    /\ UNCHANGED <<share, sids, clock, pc, view, seen, api, outranked, failed>>

(* Mutant of ReadRoom: it acts on a host's share only. *)
ReadRoomForHosts(h) ==
    /\ due > 0 /\ losers[h] = {}
    /\ due' = due - 1
    /\ losers' = [losers EXCEPT ![h] =
           IF PickShare(share) \subseteq Hosts THEN Live(share) \ PickShare(share) ELSE {}]
    /\ UNCHANGED <<sfu, browsers, outranked, failed>>

(* enforceOneShare reads the room and picks the winner. *)
ReadRoom(h) ==
    /\ due > 0 /\ losers[h] = {}
    /\ due' = due - 1
    /\ losers' = [losers EXCEPT ![h] = Live(share) \ PickShare(share)]
    /\ UNCHANGED <<sfu, browsers, outranked, failed>>

(* MuteTrack mutes whatever share the loser has by now. *)
MuteTrack(h, c) ==
    /\ c \in losers[h]
    /\ losers' = [losers EXCEPT ![h] = @ \ {c}]
    /\ IF c \in Live(share)
       THEN /\ share' = [share EXCEPT ![c].muted = TRUE]
            /\ untold' = [untold EXCEPT ![c] = TRUE]
       ELSE UNCHANGED <<share, untold>>
    /\ UNCHANGED <<sids, clock, browsers, due, outranked, failed>>

(* The read fails: the webhook is over, with a line in the log. *)
ReadRoomFails ==
    /\ "error" \in Events
    /\ due > 0
    /\ due' = due - 1
    /\ failed' = TRUE
    /\ UNCHANGED <<sfu, browsers, losers, outranked>>

(* A mute fails: the loser is skipped. *)
MuteTrackFails(h, c) ==
    /\ "error" \in Events
    /\ c \in losers[h]
    /\ losers' = [losers EXCEPT ![h] = @ \ {c}]
    /\ failed' = TRUE
    /\ UNCHANGED <<sfu, browsers, due, outranked>>

Decide(c) == YieldToMute(c) \/ YieldToOther(c)

BrowserStep(c) ==
    \/ PressShare(c) \/ CancelPicker(c) \/ PublishShare(c)
    \/ StopByHand(c) \/ StopYielded(c) \/ Decide(c) \/ Remount(c)

RoomStep(c) ==
    \/ MediaArrives(c) \/ LearnMuted(c)
    \/ \E d \in Clients : Sync(c, d)

ApiStep(h) ==
    \/ ReadRoom(h)
    \/ \E c \in Clients : MuteTrack(h, c) \/ MuteTrackFails(h, c)

Next ==
    \/ \E c \in Clients : BrowserStep(c) \/ RoomStep(c)
    \/ \E h \in Hooks : ApiStep(h)
    \/ ReadRoomFails

Spec == Init /\ [][Next]_vars

(* The SFU delivers, a browser acts on what it has learnt, and the API     *)
(* works on every webhook; nobody has to press anything.                   *)
FairSpec ==
    /\ Spec
    /\ \A c \in Clients :
        /\ WF_vars(MediaArrives(c))
        /\ WF_vars(LearnMuted(c))
        /\ WF_vars(Decide(c))
        /\ WF_vars(StopYielded(c))
        /\ \A d \in Clients : WF_vars(Sync(c, d))
    /\ \A h \in Hooks :
        /\ WF_vars(ReadRoom(h))
        /\ \A c \in Clients : WF_vars(MuteTrack(h, c))

-----------------------------------------------------------------------------
(* A panelist's browser stops its own share for another's only if, at some *)
(* moment since Share was pressed, another share outranked it: what it     *)
(* decides from the order it saw things in never contradicts the SFU's     *)
(* order.  (Of a host's browser this is not true: see the README.)         *)
PanelistsGiveWayWhenOutranked ==
    \A c \in Clients \ Hosts : pc[c] = "yielding" /\ ~mutedBy[c] => outranked[c]

(* Once the API has nothing left to do, one share at most is live: what a  *)
(* webhook mutes was read earlier, and shares start, stop and start again  *)
(* between its read and its mutes, but none is left standing beside        *)
(* another unless the API failed to read the room or to mute.              *)
SettledRoomHasOneShare ==
    due = 0 /\ (\A h \in Hooks : losers[h] = {})
        => failed \/ Cardinality(Live(share)) <= 1

(* However many shares start at once, in the end one at most is live,      *)
(* unless the API failed to read the room or to mute.                      *)
OneShareStays == <>[](failed \/ Cardinality(Live(share)) <= 1)

(* A share the server has muted is stopped by its browser, unless the      *)
(* control bar was mounted again meanwhile: nobody goes on presenting to   *)
(* nobody.                                                                 *)
MutedShareEnds ==
    \A c \in Clients \ Remounters : share[c].muted ~> ~share[c].muted
=============================================================================
