---------------------------- MODULE CallPromise ----------------------------
(***************************************************************************)
(* What calling somebody into a meeting promises, whatever the tabs, the   *)
(* streams, the sweep and the order of events: a call rings and is decided *)
(* once and for all, by an answer that came in time, or by its time being  *)
(* up while no such answer is being recorded; its end takes the callee's   *)
(* seat only if it was not accepted and no call that gave the seat still   *)
(* holds it; and what a panel says came of a call is what did.  Calls      *)
(* implements this.                                                        *)
(***************************************************************************)
CONSTANTS Calls, Panels

VARIABLES
    state,   \* what has come of each call
    late,    \* the calls whose time is up
    answering,   \* those whose answer came in time and is being recorded
    gave,    \* the calls that gave the callee the seat
    seat,    \* the callee has a seat
    told     \* which panel tells of which call that it ended how

Ended == {"accepted", "declined", "cancelled", "missed"}

Holds(k) == state[k] \in {"ringing", "accepted"} /\ k \notin late

Init ==
    /\ state = [k \in Calls |-> "none"]
    /\ late = {} /\ answering = {} /\ gave = {} /\ seat = FALSE
    /\ told = {}

Become(k, st) == state' = [state EXCEPT ![k] = st]

Ring(k) ==
    /\ state[k] = "none" /\ Become(k, "ringing")
    /\ gave' = IF seat THEN gave ELSE gave \cup {k}
    /\ seat' = TRUE
    /\ UNCHANGED <<late, answering>>

TimeUp(k) ==
    /\ state[k] = "ringing" /\ k \notin late
    /\ late' = late \cup {k}
    /\ UNCHANGED <<state, answering, gave, seat>>

(* An answer comes in, and its recording may fail.                         *)
Answer(k) ==
    /\ state[k] = "ringing" /\ k \notin late \cup answering
    /\ answering' = answering \cup {k}
    /\ UNCHANGED <<state, late, gave, seat>>

Forget(k) ==
    /\ answering' = answering \ {k}
    /\ UNCHANGED <<state, late, gave, seat>>

Leave(k, to) ==
    /\ k \in gave /\ to # "accepted"
    /\ ~\E j \in gave \ {k} : Holds(j)
    /\ seat' = FALSE

End(k, to) ==
    /\ state[k] = "ringing" /\ Become(k, to)
    /\ IF k \in answering THEN to # "missed" ELSE to = "missed" /\ k \in late
    /\ answering' = answering \ {k}
    /\ Leave(k, to) \/ UNCHANGED seat
    /\ UNCHANGED <<late, gave>>

(* The host gives the seat, or takes it. *)
Host == seat' = ~seat /\ UNCHANGED <<state, late, answering, gave>>

(* Panels fall silent as they like, and what they tell is so. *)
Tell == \A w \in told' : w \in Panels \X Calls \X Ended /\ state'[w[2]] = w[3]

Next ==
    /\ \/ UNCHANGED <<state, late, answering, gave, seat>>
       \/ \E k \in Calls :
            \/ Ring(k) \/ TimeUp(k) \/ Answer(k) \/ Forget(k)
            \/ \E to \in Ended : End(k, to)
       \/ Host
    /\ Tell

Spec == Init /\ [][Next]_<<state, late, answering, gave, seat, told>>
=============================================================================
