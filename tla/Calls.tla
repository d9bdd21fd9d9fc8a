------------------------------- MODULE Calls -------------------------------
(***************************************************************************)
(* Ringing somebody into a meeting (api/calls.go, store/calls.go,          *)
(* web/lib/calls.ts, web/components/incoming-call.tsx,                     *)
(* web/components/room/call-someone.tsx).                                  *)
(*                                                                         *)
(* A call is a row that rings for 45 seconds and ends once.  Placing it    *)
(* gives the callee a seat on the meeting's panel if they have none, and   *)
(* a call that is not accepted takes it back.  An end is a transaction of  *)
(* several statements, which reads of the others only what they have       *)
(* committed; the news of it goes out afterwards, from whichever instance  *)
(* made the change, so a ring and its end come in either order, and        *)
(* neither comes to a stream that is down or from an instance that is      *)
(* gone.                                                                   *)
(*                                                                         *)
(* One callee and one meeting.  The limits on who may call, the meeting's  *)
(* own state and the pushes to phones are left out: a start that is        *)
(* refused is refused for any reason.                                      *)
(***************************************************************************)
EXTENDS Naturals

CONSTANTS
    Panels,     \* tabs with "Call someone" open, of the hosts
    Account,    \* the account each panel is signed in to
    Devices,    \* the callee's tabs
    Calls,      \* bound: calls that can be placed, numbered as they are
    Events,     \* what else happens
    NoCall

Accounts == {Account[p] : p \in Panels}

ASSUME CallsAssumption == Calls \subseteq Nat /\ NoCall \notin Calls
ASSUME StreamsAssumption == Panels \cap Devices = {}
ASSUME AccountAssumption == NoCall \notin Accounts
ASSUME EventsAssumption == Events \subseteq {"lost", "close", "invite", "remove"}

VARIABLES
    state,      \* calls.state, "none" for a call not placed yet
    by,         \* caller_id
    added,      \* added_panelist
    clock,      \* where a call's 45 seconds are
    seat,       \* the callee is in webinar_panelists
    invited,    \* the host put them there
    taken,      \* the host took them off, and nobody put them back
    crossed,    \* two ends have left this seat to each other
    ending,     \* EndCall's transaction on each call, while it is open
    start,      \* a panel's POST /api/calls
    line,       \* what a panel's line about the callee says
    mine,       \* the call that line is about
    checked,    \* the panel has read that call when its time was up
    shown,      \* the rings a device has
    mail        \* events and answers on their way, or lost: nothing need be heard

rows == <<state, by, added, clock>>
panel == <<seat, invited, taken, crossed>>
caller == <<start, line, mine, checked>>
vars == <<rows, panel, ending, caller, shown, mail>>

Ended == {"accepted", "declined", "cancelled", "missed"}
Streams == Panels \cup Devices
Calls0 == Calls \cup {NoCall}
Late == {k \in Calls : clock[k] = "due"}

(* A transaction: the statement to come, what it makes of the call, the    *)
(* calls that were late by its now(), and whether it has deleted the seat. *)
Transactions == [at : {"no", "release", "commit"}, to : Ended, late : SUBSET Calls, took : BOOLEAN]
NoEnd == [at |-> "no", to |-> "missed", late |-> {}, took |-> FALSE]

Mail == Streams \X {"ring", "ended", "still"} \X Calls

(* Every variable keeps its type, and a panel's line is about a call       *)
(* exactly when one was placed.                                            *)
TypeOK ==
    /\ state \in [Calls -> {"none", "ringing"} \cup Ended]
    /\ by \in [Calls -> Accounts \cup {NoCall}]
    /\ added \in SUBSET Calls
    /\ clock \in [Calls -> {"fresh", "cut", "due"}]
    /\ seat \in BOOLEAN /\ invited \in BOOLEAN /\ taken \in BOOLEAN /\ crossed \in BOOLEAN
    /\ ending \in [Calls -> Transactions]
    /\ start \in [Panels -> [at : {"no", "check", "insert", "answer"}, call : Calls0]]
    /\ line \in [Panels -> {"none", "placing", "ringing"} \cup Ended]
    /\ mine \in [Panels -> Calls0]
    /\ \A p \in Panels : line[p] \in {"none", "placing"} <=> mine[p] = NoCall
    /\ checked \in [Panels -> BOOLEAN]
    /\ shown \in [Devices -> SUBSET Calls]
    /\ mail \in SUBSET Mail

NoStart == [at |-> "no", call |-> NoCall]

Init ==
    /\ state = [k \in Calls |-> "none"]
    /\ by = [k \in Calls |-> NoCall]
    /\ added = {}
    /\ clock = [k \in Calls |-> "fresh"]
    /\ seat = FALSE /\ invited = FALSE /\ taken = FALSE /\ crossed = FALSE
    /\ ending = [k \in Calls |-> NoEnd]
    /\ start = [p \in Panels |-> NoStart]
    /\ line = [p \in Panels |-> "none"]
    /\ mine = [p \in Panels |-> NoCall]
    /\ checked = [p \in Panels |-> FALSE]
    /\ shown = [d \in Devices |-> {}]
    /\ mail = {}

-----------------------------------------------------------------------------
(* The row. *)

(* Ringing by the database's clock; expiresAt, as everybody is told it, is *)
(* cut to the second and passes up to a second before.                     *)
Ringing(k) == state[k] = "ringing" /\ clock[k] # "due"

(* Time passes; for a call that is over it makes no difference.  A ring    *)
(* that arrives after expiresAt is not shown (applyCallEvent).             *)
Tick(k) ==
    /\ Ringing(k)
    /\ clock' = [clock EXCEPT ![k] = IF @ = "fresh" THEN "cut" ELSE "due"]
    /\ mail' = mail \ (Devices \X {"ring"} \X {k})
    /\ UNCHANGED <<state, by, added, panel, ending, caller, shown>>

(* Mutant of Holds: an answered call does not hold the seat. *)
HoldsWhileRinging(j, late) == j \in added /\ state[j] = "ringing" /\ j \notin late

(* The calls for which releaseCallSeat leaves the seat, as they are        *)
(* committed, and late or not by the transaction's now().                  *)
Holds(j, late) ==
    /\ j \in added
    /\ state[j] = "accepted" \/ (state[j] = "ringing" /\ j \notin late)

(* Mutant of TakesBack: a call nobody answers leaves the seat. *)
TakesBackUnlessMissed(k, to) == k \in added /\ to \in {"declined", "cancelled"}

TakesBack(k, to) == k \in added /\ to # "accepted"

Opened(k, to) ==
    IF TakesBack(k, to)
    THEN [at |-> "release", to |-> to, late |-> Late, took |-> FALSE]
    ELSE [at |-> "commit", to |-> to, late |-> {}, took |-> FALSE]

(* Mutant of EndCall: an answer that comes after the time is up counts. *)
EndCallLate(k, to) ==
    /\ state[k] = "ringing" /\ ending[k].at = "no"
    /\ to = "missed" => clock[k] = "due"
    /\ ending' = [ending EXCEPT ![k] = Opened(k, to)]
    /\ UNCHANGED <<rows, panel>>

(* EndCall up to its UPDATE, which finds the row ringing, and to be missed *)
(* exactly when the time is up.  Another EndCall of the call waits for the *)
(* row; the others, whatever they read, find the call ringing yet.         *)
EndCall(k, to) ==
    /\ state[k] = "ringing" /\ ending[k].at = "no"
    /\ (clock[k] = "due") = (to = "missed")
    /\ ending' = [ending EXCEPT ![k] = Opened(k, to)]
    /\ UNCHANGED <<rows, panel>>

(* A deleted seat is there for everybody else until the commit, and who    *)
(* would delete it too, or give it, waits.                                 *)
SeatLocked == \E k \in Calls : ending[k].took

(* The DELETE. *)
ReleaseCallSeat(k) ==
    LET takes == seat /\ ~\E j \in Calls \ {k} : Holds(j, ending[k].late) IN
    /\ ending[k].at = "release"
    /\ takes => ~SeatLocked
    /\ ending' = [ending EXCEPT ![k] = [@ EXCEPT !.at = "commit", !.late = {}, !.took = takes]]
    /\ UNCHANGED <<rows, panel, caller, shown, mail>>

(* The end of k, about to commit, takes nothing back. *)
Leaves(k) == ending[k].at = "commit" /\ ~ending[k].took /\ TakesBack(k, ending[k].to)

(* announceCallEnded: the callee's devices hear of it, and the caller's    *)
(* panels.  Events are passed on in any order, so that they go out some    *)
(* time after the commit makes no difference; and what an instance that is *)
(* gone never sends, or sends to a stream that is down (Publish), is never *)
(* heard.                                                                  *)
EndNews(k) == {<<s, "ended", k>> : s \in {x \in Streams : x \in Devices \/ Account[x] = by[k]}}

(* The commit, and the news. *)
Commit(k) ==
    /\ ending[k].at = "commit"
    /\ ending' = [ending EXCEPT ![k] = NoEnd]
    /\ state' = [state EXCEPT ![k] = ending[k].to]
    /\ IF ending[k].took
       THEN seat' = FALSE /\ invited' = FALSE /\ crossed' = FALSE
       ELSE /\ crossed' = (crossed \/ (seat /\ Leaves(k) /\ \E j \in Calls \ {k} : Leaves(j)))
            /\ UNCHANGED <<seat, invited>>
    /\ mail' = mail \cup EndNews(k)
    /\ UNCHANGED <<by, added, clock, taken, caller, shown>>

(* The instance is gone, a statement fails, or its caller's request ends.  *)
RollBack(k) ==
    /\ "lost" \in Events
    /\ ending[k].at # "no"
    /\ ending' = [ending EXCEPT ![k] = NoEnd]
    /\ UNCHANGED <<rows, panel, caller, shown, mail>>

Unmoved == UNCHANGED <<rows, panel, ending>>

(* handleCallAnswer: the answer, or missed if it comes too late, or what   *)
(* the call has come to already, once who ends it has committed.           *)
Answered(k, to) ==
    \/ EndCall(k, to)
    \/ EndCall(k, "missed")
    \/ state[k] # "ringing" /\ Unmoved

(* The sweep, a call at a time. *)
ExpireCalls(k) ==
    /\ EndCall(k, "missed")
    /\ UNCHANGED <<caller, shown, mail>>

-----------------------------------------------------------------------------
(* Placing a call: handleStartCall, a step of it at a time. *)

(* Mutant of CallSomeone: the line keeps the call before. *)
CallAgain(p) ==
    /\ line[p] \in {"none", "declined", "cancelled", "missed"}
    /\ start[p].at = "no"
    /\ line' = [line EXCEPT ![p] = "placing"]
    /\ start' = [start EXCEPT ![p].at = "check"]
    /\ checked' = [checked EXCEPT ![p] = FALSE]
    /\ UNCHANGED <<rows, panel, ending, mine, shown, mail>>

(* Call, or Call again. *)
CallSomeone(p) ==
    /\ line[p] \in {"none", "declined", "cancelled", "missed"}
    /\ start[p].at = "no"
    /\ line' = [line EXCEPT ![p] = "placing"]
    /\ mine' = [mine EXCEPT ![p] = NoCall]
    /\ start' = [start EXCEPT ![p].at = "check"]
    /\ checked' = [checked EXCEPT ![p] = FALSE]
    /\ UNCHANGED <<rows, panel, ending, shown, mail>>

(* The start is over for the panel, if it is still there. *)
Told(p, says, k) ==
    /\ start' = [start EXCEPT ![p] = NoStart]
    /\ IF line[p] = "placing"
       THEN /\ line' = [line EXCEPT ![p] = says]
            /\ mine' = [mine EXCEPT ![p] = k]
       ELSE UNCHANGED <<line, mine>>
    /\ UNCHANGED checked

(* RingingCall: the caller's own call that rings already is the answer; a  *)
(* read that fails is taken for none.                                      *)
CheckRinging(p) ==
    /\ start[p].at = "check"
    /\ \/ \E k \in Calls :
            /\ Ringing(k) /\ by[k] = Account[p]
            /\ \A j \in Calls : Ringing(j) /\ by[j] = Account[p] => j <= k
            /\ start' = [start EXCEPT ![p] = [at |-> "answer", call |-> k]]
       \/ /\ "lost" \in Events \/ ~\E k \in Calls : Ringing(k) /\ by[k] = Account[p]
          /\ start' = [start EXCEPT ![p].at = "insert"]
    /\ UNCHANGED <<rows, panel, ending, line, mine, checked, shown, mail>>

(* CreateCall: the seat, unless they have one, and the row; then the ring  *)
(* (ringCall).                                                             *)
CreateCall(p) ==
    /\ start[p].at = "insert" /\ ~SeatLocked
    /\ \E k \in Calls :
        /\ state[k] = "none" /\ \A j \in Calls : j < k => state[j] # "none"
        /\ state' = [state EXCEPT ![k] = "ringing"]
        /\ by' = [by EXCEPT ![k] = Account[p]]
        /\ added' = IF seat THEN added ELSE added \cup {k}
        /\ start' = [start EXCEPT ![p] = [at |-> "answer", call |-> k]]
        /\ mail' = mail \cup {<<d, "ring", k>> : d \in Devices}
    /\ seat' = TRUE /\ taken' = FALSE
    /\ UNCHANGED <<clock, invited, crossed, ending, line, mine, checked, shown>>

AnswerStart(p) ==
    /\ start[p].at = "answer"
    /\ Told(p, "ringing", start[p].call)
    /\ UNCHANGED <<rows, panel, ending, shown, mail>>

(* The start is refused, fails, or its answer does not arrive: the line    *)
(* goes, and a call that was placed rings on.                              *)
StartFails(p) ==
    /\ start[p].at \in {"check", "insert"} \/ (start[p].at # "no" /\ "lost" \in Events)
    /\ Told(p, "none", NoCall)
    /\ UNCHANGED <<rows, panel, ending, shown, mail>>

-----------------------------------------------------------------------------
(* The caller's panel while a call rings.  An answer to a cancel or a read *)
(* that says how the call ended says what the news of the end says, and    *)
(* both are one piece of mail here.                                        *)

Says(p, what) == line' = [line EXCEPT ![p] = what]

(* Cancel: a conflict leaves the line to the stream. *)
HangUp(p) ==
    LET k == mine[p] IN
    /\ line[p] = "ringing"
    /\ Answered(k, "cancelled")
    /\ mail' = IF state[k] = "cancelled" THEN mail \cup {<<p, "ended", k>>} ELSE mail
    /\ UNCHANGED <<caller, shown>>

(* The one read of a call when its time, as the panel has it, is up: what  *)
(* has expired is ended by it (settleExpired); what rings, or cannot be    *)
(* ended, is said to ring, whenever that arrives.  A read that fails is    *)
(* one whose answer is not heard.                                          *)
ReadAtEnd(p) ==
    LET k == mine[p] IN
    /\ line[p] = "ringing"
    /\ clock[k] # "fresh" /\ ~checked[p]
    /\ checked' = [checked EXCEPT ![p] = TRUE]
    /\ \/ EndCall(k, "missed") /\ UNCHANGED mail
       \/ state[k] \in Ended /\ Unmoved /\ mail' = mail \cup {<<p, "ended", k>>}
       \/ /\ Ringing(k) \/ (state[k] = "ringing" /\ "lost" \in Events)
          /\ Unmoved /\ mail' = mail \cup {<<p, "still", k>>}
    /\ UNCHANGED <<start, line, mine, shown>>

(* Mutant of ForLine: whatever ended, the line says so. *)
ForAnyLine(p, k) == mine[p] # NoCall

ForLine(p, k) == mine[p] = k

Tells(p, k, what) == IF ForLine(p, k) THEN Says(p, what) ELSE UNCHANGED line

(* The stream, or an answer, says how a call ended. *)
HearEnd(p, k) ==
    /\ <<p, "ended", k>> \in mail
    /\ mail' = mail \ {<<p, "ended", k>>}
    /\ Tells(p, k, state[k])
    /\ UNCHANGED <<rows, panel, ending, start, mine, checked, shown>>

(* The read's answer that the call rings. *)
HearRead(p, k) ==
    /\ <<p, "still", k>> \in mail
    /\ mail' = mail \ {<<p, "still", k>>}
    /\ Tells(p, k, "ringing")
    /\ UNCHANGED <<rows, panel, ending, start, mine, checked, shown>>

(* The panel is closed, and knows nothing when it is opened again. *)
ClosePanel(p) ==
    /\ "close" \in Events
    /\ line[p] # "none"
    /\ line' = [line EXCEPT ![p] = "none"]
    /\ mine' = [mine EXCEPT ![p] = NoCall]
    /\ mail' = mail \ ({p} \X {"still"} \X Calls)
    /\ checked' = [checked EXCEPT ![p] = FALSE]
    /\ UNCHANGED <<rows, panel, ending, start, shown>>

-----------------------------------------------------------------------------
(* The callee's devices. *)

(* applyCallEvent *)
HearRing(d, k) ==
    /\ <<d, "ring", k>> \in mail
    /\ mail' = mail \ {<<d, "ring", k>>}
    /\ shown' = [shown EXCEPT ![d] = @ \cup {k}]
    /\ UNCHANGED <<rows, panel, ending, caller>>

StopRinging(d, k) ==
    /\ <<d, "ended", k>> \in mail
    /\ mail' = mail \ {<<d, "ended", k>>}
    /\ shown' = [shown EXCEPT ![d] = @ \ {k}]
    /\ UNCHANGED <<rows, panel, ending, caller>>

(* Accept or Decline, pressed while the ring shows, comes in: the ring     *)
(* goes, whatever comes of it, and so it does when the press fails.        *)
Press(d, k, what) ==
    /\ k \in shown[d]
    /\ shown' = [shown EXCEPT ![d] = @ \ {k}]
    /\ Answered(k, what) \/ ("lost" \in Events /\ Unmoved)
    /\ UNCHANGED <<caller, mail>>

-----------------------------------------------------------------------------
(* Streams, and the host's own hand on the panel. *)

(* handleMeEvents: who connects is sent the calls that ring for them.      *)
MeEvents(d) ==
    /\ "lost" \in Events
    /\ shown' = [shown EXCEPT ![d] = @ \cup {k \in Calls : Ringing(k) /\ clock[k] = "fresh"}]
    /\ UNCHANGED <<rows, panel, ending, caller, mail>>

(* AddPanelist is nothing for who has a seat. *)
AddPanelist ==
    /\ "invite" \in Events
    /\ ~seat
    /\ seat' = TRUE /\ invited' = TRUE /\ taken' = FALSE
    /\ UNCHANGED <<rows, crossed, ending, caller, shown, mail>>

RemovePanelist ==
    /\ "remove" \in Events
    /\ seat /\ ~SeatLocked
    /\ seat' = FALSE /\ invited' = FALSE /\ taken' = TRUE /\ crossed' = FALSE
    /\ UNCHANGED <<rows, ending, caller, shown, mail>>

-----------------------------------------------------------------------------
StartStep(p) == CheckRinging(p) \/ CreateCall(p) \/ AnswerStart(p) \/ StartFails(p)

PanelStep(p) ==
    \/ CallSomeone(p) \/ StartStep(p)
    \/ HangUp(p) \/ ReadAtEnd(p)
    \/ \E k \in Calls : HearEnd(p, k) \/ HearRead(p, k)
    \/ ClosePanel(p)

DeviceStep(d) ==
    \/ MeEvents(d)
    \/ \E k \in Calls :
        \/ HearRing(d, k) \/ StopRinging(d, k)
        \/ \E what \in {"accepted", "declined"} : Press(d, k, what)

CallStep(k) == Tick(k) \/ ExpireCalls(k) \/ ReleaseCallSeat(k) \/ Commit(k) \/ RollBack(k)

Next ==
    \/ \E p \in Panels : PanelStep(p)
    \/ \E d \in Devices : DeviceStep(d)
    \/ \E k \in Calls : CallStep(k)
    \/ AddPanelist \/ RemovePanelist

Spec == Init /\ [][Next]_vars

-----------------------------------------------------------------------------
(* A call that gave the seat, and rings or was accepted in time, has not   *)
(* lost it to the end of another, whoever calls, answers, hangs up and     *)
(* expires meanwhile.  (An accept that commits after the call's time is up *)
(* may find the seat gone: to the others the call was over.)               *)
SeatHeld ==
    ~taken => \A k \in added :
        (state[k] \in {"ringing", "accepted"} /\ clock[k] # "due") => seat

(* A seat nobody was invited to is held by a call that may still be, or    *)
(* was, accepted: a call that came to nothing leaves none behind, unless   *)
(* two that gave it ended at once, each seeing the other ring.             *)
SeatGoesBack ==
    seat => \/ invited \/ crossed
            \/ \E k \in added : state[k] \in {"ringing", "accepted"}

(* What a panel says of how its call ended is how it ended, whichever of   *)
(* the stream, its read and its cancel told it, and in whatever order.     *)
PanelSaysSo == \A p \in Panels : line[p] \in Ended => line[p] = state[mine[p]]

(* Whoever accepted a call has the seat they need to come in, unless the   *)
(* host took it.                                                           *)
AcceptedKeepsSeat == ~taken => \A k \in Calls : state[k] = "accepted" => seat

(* Whatever happens, a call is decided once, by an answer that came in     *)
(* time or by its time being up; its end takes no seat another call holds; *)
(* and panels tell of ends that are so: the handlers keep CallPromise.     *)
Answering == {k \in Calls : ending[k].at # "no" /\ ending[k].to # "missed"}
Telling == {<<p, mine[p], line[p]>> : p \in {q \in Panels : line[q] \in Ended}}
Promise == INSTANCE CallPromise
    WITH late <- Late, answering <- Answering, gave <- added, told <- Telling
CallsKeepPromise == Promise!Spec
=============================================================================
