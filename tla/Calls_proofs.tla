---------------------------- MODULE Calls_proofs ----------------------------
(***************************************************************************)
(* Theorems about Calls, for any number of panels, devices and calls and   *)
(* any choice of what else happens: the types, the seat, and what a panel  *)
(* says of a call that ended.                                              *)
(***************************************************************************)
EXTENDS Calls, TLAPS

-----------------------------------------------------------------------------
(* The invariant, cut where the steps cut: what the API's transactions
   change, and what the callers' panels make of it. *)

RowTypes ==
    /\ state \in [Calls -> {"none", "ringing"} \cup Ended]
    /\ by \in [Calls -> Accounts \cup {NoCall}]
    /\ added \in SUBSET Calls
    /\ clock \in [Calls -> {"fresh", "cut", "due"}]
    /\ seat \in BOOLEAN /\ invited \in BOOLEAN /\ taken \in BOOLEAN /\ crossed \in BOOLEAN
    /\ ending \in [Calls -> Transactions]
    /\ mail \in SUBSET Mail

(* The news of an end is about a call that ended. *)
NewsOfEnds == \A s \in Streams, k \in Calls : <<s, "ended", k>> \in mail => state[k] \in Ended

(* A transaction is open on a call that rings as far as is committed, and  *)
(* ends it as missed only after its time; and it touches the seat only     *)
(* when the call gave it.                                                  *)
Underway ==
    \A k \in Calls :
        /\ ending[k].at # "no" => /\ state[k] = "ringing"
                                  /\ ending[k].to = "missed" => clock[k] = "due"
        /\ ending[k].at = "release" \/ ending[k].took => TakesBack(k, ending[k].to)
        /\ ending[k].took => ending[k].at = "commit"
        /\ ending[k].late \subseteq Late

(* Who may come in on the seat call j gave. *)
Live(j) == state[j] \in {"ringing", "accepted"} /\ clock[j] # "due"

(* While a transaction has the seat deleted, no other call has a claim on  *)
(* it; and one that leaves the seat leaves it to another, to an invitation *)
(* or to an end that crossed it.                                           *)
TookFromNobody == \A k \in Calls : ending[k].took => \A j \in added \ {k} : ~Live(j)
LeftToSomebody ==
    \A k \in Calls : Leaves(k) /\ seat =>
        \/ invited \/ crossed
        \/ \E j \in added \ {k} : state[j] \in {"ringing", "accepted"}

RowInv ==
    /\ RowTypes /\ NewsOfEnds /\ Underway
    /\ TookFromNobody /\ LeftToSomebody
    /\ SeatHeld /\ SeatGoesBack

CallerTypes ==
    /\ start \in [Panels -> [at : {"no", "check", "insert", "answer"}, call : Calls0]]
    /\ line \in [Panels -> {"none", "placing", "ringing"} \cup Ended]
    /\ mine \in [Panels -> Calls0]
    /\ \A p \in Panels : line[p] \in {"none", "placing"} <=> mine[p] = NoCall
    /\ checked \in [Panels -> BOOLEAN]

(* The call a start is to be answered with, and the one a line is about,   *)
(* were placed.                                                            *)
StartPlaced ==
    \A p \in Panels : start[p].at = "answer" =>
        start[p].call \in Calls /\ state[start[p].call] # "none"
MinePlaced == \A p \in Panels : mine[p] # NoCall => state[mine[p]] # "none"

CallerInv == CallerTypes /\ StartPlaced /\ MinePlaced /\ PanelSaysSo

ShownTypes == shown \in [Devices -> SUBSET Calls]

CInv == RowInv /\ CallerInv /\ ShownTypes

LEMMA JoinC == RowInv' /\ CallerInv' /\ ShownTypes' => CInv'
BY DEF CInv

LEMMA TypesOfParts == CInv => TypeOK
BY DEF CInv, RowInv, CallerInv, RowTypes, CallerTypes, ShownTypes, TypeOK

LEMMA NoEndTyped == NoEnd \in Transactions /\ NoEnd.at = "no" /\ NoEnd.took = FALSE /\ NoEnd.late = {}
BY DEF NoEnd, Transactions, Ended

LEMMA InitC == Init => CInv
<1> SUFFICES ASSUME Init PROVE CInv
    OBVIOUS
<1>1. NoStart \in [at : {"no", "check", "insert", "answer"}, call : Calls0] /\ NoStart.at = "no"
    BY DEF NoStart, Calls0
<1>2. RowTypes /\ NewsOfEnds /\ SeatHeld /\ SeatGoesBack
    BY NoEndTyped DEF Init, RowTypes, NewsOfEnds, SeatHeld, SeatGoesBack
<1>3. Underway /\ TookFromNobody /\ LeftToSomebody
    BY NoEndTyped DEF Init, Underway, TookFromNobody, LeftToSomebody
<1>4. CallerInv
    BY <1>1 DEF Init, CallerInv, CallerTypes, StartPlaced, MinePlaced, PanelSaysSo, Calls0, Ended
<1>5. ShownTypes
    BY DEF Init, ShownTypes
<1> QED BY <1>2, <1>3, <1>4, <1>5 DEF CInv, RowInv

-----------------------------------------------------------------------------
(* The rows. *)

(* No step takes a call out of an end, or back to before it was placed. *)
Kept ==
    \A k \in Calls : /\ state[k] \in Ended => state'[k] = state[k]
                     /\ state[k] # "none" => state'[k] # "none"

(* Mail that says nothing of an end that is not so leaves the rows. *)
LEMMA MailRows ==
    ASSUME RowInv, UNCHANGED <<rows, panel, ending>>, mail' \in SUBSET Mail,
           \A s \in Streams, k \in Calls :
               <<s, "ended", k>> \in mail' => <<s, "ended", k>> \in mail \/ state[k] \in Ended
    PROVE  RowInv' /\ Kept
<1>1. UNCHANGED <<state, by, added, clock, seat, invited, taken, crossed, ending>>
    BY DEF rows, panel
<1>2. RowTypes'
    BY <1>1 DEF RowInv, RowTypes
<1>3. NewsOfEnds'
    BY <1>1 DEF RowInv, NewsOfEnds
<1>4. SeatHeld' /\ SeatGoesBack'
    BY <1>1 DEF RowInv, SeatHeld, SeatGoesBack
<1>5. Underway'
    BY <1>1 DEF RowInv, Underway, TakesBack, Late
<1>6. TookFromNobody' /\ LeftToSomebody'
    BY <1>1 DEF RowInv, TookFromNobody, Live, LeftToSomebody, Leaves, TakesBack
<1> QED BY <1>1, <1>2, <1>3, <1>4, <1>5, <1>6 DEF RowInv, Kept

(* A panel is to be told how a call ended, or that it rings. *)
LEMMA SaidRows ==
    ASSUME RowInv, UNCHANGED <<rows, panel, ending>>, NEW p \in Panels, NEW k \in Calls,
           state[k] \in Ended, mail' = mail \cup {<<p, "ended", k>>}
    PROVE  RowInv' /\ Kept
<1>1. <<p, "ended", k>> \in Mail
    BY DEF Mail, Streams
<1>2. mail' \in SUBSET Mail
    BY <1>1 DEF RowInv, RowTypes
<1> QED BY <1>2, MailRows

LEMMA StillRows ==
    ASSUME RowInv, UNCHANGED <<rows, panel, ending>>, NEW p \in Panels, NEW k \in Calls,
           mail' = mail \cup {<<p, "still", k>>}
    PROVE  RowInv' /\ Kept
<1>1. <<p, "still", k>> \in Mail
    BY DEF Mail, Streams
<1>2. mail' \in SUBSET Mail
    BY <1>1 DEF RowInv, RowTypes
<1> QED BY <1>2, MailRows

LEMMA LessMail ==
    ASSUME RowInv, UNCHANGED <<rows, panel, ending>>, mail' \subseteq mail
    PROVE  RowInv' /\ Kept
<1>1. mail' \in SUBSET Mail
    BY DEF RowInv, RowTypes
<1> QED BY <1>1, MailRows

(* What a step does to one call's transaction. *)
LEMMA OneEnding ==
    ASSUME RowInv, NEW k \in Calls, NEW e \in Transactions, ending' = [ending EXCEPT ![k] = e],
           UNCHANGED <<rows, panel, mail>>,
           e.at # "no" => state[k] = "ringing" /\ (e.to = "missed" => clock[k] = "due"),
           e.at = "release" \/ e.took => TakesBack(k, e.to),
           e.took => e.at = "commit",
           e.late \subseteq Late,
           e.took => \A j \in added \ {k} : ~Live(j),
           e.at = "commit" /\ ~e.took /\ TakesBack(k, e.to) /\ seat =>
               \/ invited \/ crossed
               \/ \E j \in added \ {k} : state[j] \in {"ringing", "accepted"}
    PROVE  RowInv' /\ Kept
<1>1. UNCHANGED <<state, by, added, clock, seat, invited, taken, crossed, mail>>
    BY DEF rows, panel
<1>2. /\ ending' \in [Calls -> Transactions] /\ ending'[k] = e
      /\ \A j \in Calls \ {k} : ending'[j] = ending[j]
    BY DEF RowInv, RowTypes
<1>3. RowTypes' /\ NewsOfEnds' /\ SeatHeld' /\ SeatGoesBack'
    BY <1>1, <1>2 DEF RowInv, RowTypes, NewsOfEnds, SeatHeld, SeatGoesBack
<1>4. Underway'
  <2>1. ASSUME NEW j \in Calls
        PROVE  /\ ending'[j].at # "no" => /\ state'[j] = "ringing"
                                          /\ ending'[j].to = "missed" => clock'[j] = "due"
               /\ ending'[j].at = "release" \/ ending'[j].took => TakesBack(j, ending[j].to)'
               /\ ending'[j].took => ending'[j].at = "commit"
               /\ ending'[j].late \subseteq Late'
    <3>1. CASE j = k
        BY <1>1, <1>2, <3>1 DEF TakesBack, Late
    <3>2. CASE j # k
        BY <1>1, <1>2, <3>2 DEF RowInv, Underway, TakesBack, Late
    <3> QED BY <3>1, <3>2
  <2> QED BY <2>1 DEF Underway
<1>5. TookFromNobody'
  <2>1. ASSUME NEW j \in Calls, ending'[j].took, NEW i \in added \ {j}
        PROVE  ~Live(i)
    <3>1. CASE j = k
        BY <1>2, <2>1, <3>1
    <3>2. CASE j # k
        BY <1>2, <2>1, <3>2 DEF RowInv, TookFromNobody
    <3> QED BY <3>1, <3>2
  <2> QED BY <1>1, <2>1 DEF TookFromNobody, Live
<1>6. LeftToSomebody'
  <2>1. ASSUME NEW j \in Calls, Leaves(j)', seat
        PROVE  invited \/ crossed \/ \E i \in added \ {j} : state[i] \in {"ringing", "accepted"}
    <3>1. CASE j = k
        BY <1>1, <1>2, <2>1, <3>1 DEF Leaves, TakesBack
    <3>2. CASE j # k
        BY <1>1, <1>2, <2>1, <3>2 DEF RowInv, LeftToSomebody, Leaves, TakesBack
    <3> QED BY <3>1, <3>2
  <2> QED BY <1>1, <2>1 DEF LeftToSomebody
<1> QED BY <1>1, <1>3, <1>4, <1>5, <1>6 DEF RowInv, Kept

(* The UPDATE. *)
LEMMA EndCallRows ==
    ASSUME RowInv, NEW k \in Calls, NEW to \in Ended, EndCall(k, to), UNCHANGED mail
    PROVE  RowInv' /\ Kept
<1>1. /\ state[k] = "ringing" /\ (to = "missed" => clock[k] = "due")
      /\ ending' = [ending EXCEPT ![k] = Opened(k, to)] /\ UNCHANGED <<rows, panel, mail>>
    BY DEF EndCall
<1>2. Late \subseteq Calls
    BY DEF Late
<1>3. CASE TakesBack(k, to)
  <2>1. /\ Opened(k, to) \in Transactions /\ Opened(k, to).at = "release" /\ Opened(k, to).to = to
        /\ Opened(k, to).took = FALSE /\ Opened(k, to).late = Late
      BY <1>2, <1>3 DEF Opened, Transactions
  <2> QED BY <1>1, <1>3, <2>1, OneEnding
<1>4. CASE ~TakesBack(k, to)
  <2>1. /\ Opened(k, to) \in Transactions /\ Opened(k, to).at = "commit" /\ Opened(k, to).to = to
        /\ Opened(k, to).took = FALSE /\ Opened(k, to).late = {}
      BY <1>4 DEF Opened, Transactions
  <2> QED BY <1>1, <1>4, <2>1, OneEnding
<1> QED BY <1>3, <1>4

(* The DELETE: it takes the seat from nobody, or leaves it to a holder. *)
LEMMA ReleaseRows ==
    ASSUME RowInv, NEW k \in Calls, ReleaseCallSeat(k)
    PROVE  RowInv' /\ Kept
<1>0. RowTypes /\ Underway /\ ending[k] \in Transactions
    BY DEF RowInv, RowTypes
<1> DEFINE takes == seat /\ ~\E j \in Calls \ {k} : Holds(j, ending[k].late)
           e == [ending[k] EXCEPT !.at = "commit", !.late = {}, !.took = takes]
<1>1. /\ ending[k].at = "release" /\ ending' = [ending EXCEPT ![k] = e]
      /\ UNCHANGED <<rows, panel, mail>>
    BY <1>0 DEF ReleaseCallSeat, RowTypes
<1>2. takes \in BOOLEAN
    BY <1>0 DEF RowTypes
<1>3. /\ e \in Transactions /\ e.at = "commit" /\ e.to = ending[k].to /\ e.late = {} /\ e.took = takes
    BY <1>0, <1>2 DEF Transactions
<1>4. /\ state[k] = "ringing" /\ (ending[k].to = "missed" => clock[k] = "due")
      /\ TakesBack(k, ending[k].to) /\ ending[k].late \subseteq Late
    BY <1>0, <1>1 DEF Underway
<1>5. ASSUME takes, NEW j \in added \ {k}
      PROVE  ~Live(j)
  <2>1. j \in Calls \ {k} /\ ~Holds(j, ending[k].late)
      BY <1>0, <1>5 DEF RowTypes
  <2> QED BY <1>4, <1>5, <2>1 DEF Holds, Live, Late
<1>6. ASSUME ~takes, seat
      PROVE  \E j \in added \ {k} : state[j] \in {"ringing", "accepted"}
    BY <1>6 DEF Holds
<1> HIDE DEF takes, e
<1>7. \A j \in added \ {k} : takes => ~Live(j)
    BY <1>5
<1> QED BY <1>1, <1>3, <1>4, <1>6, <1>7, OneEnding

LEMMA RollBackRows ==
    ASSUME RowInv, NEW k \in Calls, RollBack(k)
    PROVE  RowInv' /\ Kept
BY NoEndTyped, OneEnding DEF RollBack

(* The commit: the seat goes with the last call that holds it. *)
LEMMA CommitRows ==
    ASSUME RowInv, NEW k \in Calls, Commit(k)
    PROVE  RowInv' /\ Kept
<1> DEFINE to == ending[k].to
<1>0. RowTypes /\ Underway /\ ending[k] \in Transactions /\ to \in Ended
    BY DEF RowInv, RowTypes, Transactions
<1>1. /\ state[k] = "ringing" /\ ending[k].at = "commit" /\ state'[k] = to
      /\ (to = "missed" => clock[k] = "due")
      /\ \A j \in Calls \ {k} : state'[j] = state[j]
      /\ UNCHANGED <<by, added, clock, taken>>
    BY <1>0 DEF Commit, RowTypes, Underway
<1>2. ending' = [ending EXCEPT ![k] = NoEnd] /\ ending'[k] = NoEnd /\ \A j \in Calls \ {k} : ending'[j] = ending[j]
    BY <1>0 DEF Commit, RowTypes
<1> HIDE DEF to
<1>3. Kept
    BY <1>0, <1>1 DEF Kept, Ended
<1>4. RowTypes'
  <2>1. state' \in [Calls -> {"none", "ringing"} \cup Ended]
      BY <1>0 DEF Commit, RowTypes, to
  <2>2. mail' \in SUBSET Mail
      BY <1>0 DEF Commit, RowTypes, EndNews, Mail
  <2>3. seat' \in BOOLEAN /\ invited' \in BOOLEAN /\ crossed' \in BOOLEAN
      BY <1>0 DEF Commit, RowTypes
  <2>4. ending' \in [Calls -> Transactions]
      BY <1>0, <1>2, NoEndTyped DEF RowTypes
  <2> QED BY <1>0, <1>1, <2>1, <2>2, <2>3, <2>4 DEF RowTypes
<1>5. NewsOfEnds'
  <2>1. ASSUME NEW s \in Streams, NEW j \in Calls, <<s, "ended", j>> \in mail'
        PROVE  state'[j] \in Ended
    <3>1. CASE j = k
        BY <1>0, <1>1, <3>1
    <3>2. CASE j # k
      <4>1. <<s, "ended", j>> \in mail
          BY <2>1, <3>2 DEF Commit, EndNews
      <4> QED BY <1>1, <3>2, <4>1 DEF RowInv, NewsOfEnds
    <3> QED BY <3>1, <3>2
  <2> QED BY <2>1 DEF NewsOfEnds
<1>6. Underway'
  <2>1. ASSUME NEW j \in Calls
        PROVE  /\ ending'[j].at # "no" => /\ state'[j] = "ringing"
                                          /\ ending'[j].to = "missed" => clock'[j] = "due"
               /\ ending'[j].at = "release" \/ ending'[j].took => TakesBack(j, ending[j].to)'
               /\ ending'[j].took => ending'[j].at = "commit"
               /\ ending'[j].late \subseteq Late'
    <3>1. CASE j = k
        BY <1>2, <3>1, NoEndTyped
    <3>2. CASE j # k
        BY <1>0, <1>1, <1>2, <3>2 DEF Underway, TakesBack, Late
    <3> QED BY <3>1, <3>2
  <2> QED BY <2>1 DEF Underway
<1>7. \A j \in Calls : Live(j)' => Live(j)
    BY <1>0, <1>1 DEF Live
<1>8. TookFromNobody'
  <2>1. ASSUME NEW j \in Calls, ending'[j].took, NEW i \in added \ {j}
        PROVE  ~Live(i)
      BY <1>2, <2>1, NoEndTyped DEF RowInv, TookFromNobody
  <2> QED BY <1>0, <1>1, <1>7, <2>1 DEF TookFromNobody, RowTypes
<1>9. CASE ending[k].took
  <2>1. seat' = FALSE /\ TakesBack(k, to)
      BY <1>0, <1>9 DEF Commit, Underway, to
  <2>2. \A j \in added' : ~Live(j)'
    <3>1. \A j \in added \ {k} : ~Live(j)
        BY <1>9 DEF RowInv, TookFromNobody
    <3>2. ~Live(k)'
        BY <1>0, <1>1, <2>1 DEF Live, TakesBack, Ended
    <3> QED BY <1>0, <1>1, <1>7, <3>1, <3>2 DEF RowTypes
  <2>3. SeatHeld'
      BY <2>2 DEF SeatHeld, Live
  <2>4. SeatGoesBack' /\ LeftToSomebody'
      BY <2>1 DEF SeatGoesBack, LeftToSomebody
  <2> QED BY <1>3, <1>4, <1>5, <1>6, <1>8, <2>3, <2>4 DEF RowInv
<1>10. CASE ~ending[k].took
  <2>1. /\ UNCHANGED <<seat, invited>>
        /\ crossed' = (crossed \/ (seat /\ Leaves(k) /\ \E j \in Calls \ {k} : Leaves(j)))
      BY <1>10 DEF Commit
  <2>2. SeatHeld'
    <3>1. ASSUME ~taken', NEW j \in added', Live(j)'
          PROVE  seat'
        BY <1>0, <1>1, <1>7, <2>1, <3>1 DEF RowInv, SeatHeld, Live, RowTypes
    <3> QED BY <3>1 DEF SeatHeld, Live
  <2>3. Leaves(k) \/ k \notin added \/ to = "accepted"
      BY <1>1, <1>10 DEF Leaves, TakesBack, to
  <2>4. SeatGoesBack'
    <3>1. ASSUME seat', ~invited', ~crossed'
          PROVE  \E j \in added' : state'[j] \in {"ringing", "accepted"}
      <4>1. seat /\ ~invited /\ ~crossed
          BY <1>0, <2>1, <3>1 DEF RowTypes
      <4>2. CASE Leaves(k)
        <5>1. PICK j \in added \ {k} : state[j] \in {"ringing", "accepted"}
            BY <4>1, <4>2 DEF RowInv, LeftToSomebody
        <5> QED BY <1>0, <1>1, <5>1 DEF RowTypes
      <4>3. CASE k \notin added \/ to = "accepted"
        <5>1. PICK j \in added : state[j] \in {"ringing", "accepted"}
            BY <4>1 DEF RowInv, SeatGoesBack
        <5>2. j = k => state'[j] = "accepted"
            BY <1>1, <4>3, <5>1
        <5> QED BY <1>0, <1>1, <5>1, <5>2 DEF RowTypes
      <4> QED BY <2>3, <4>2, <4>3
    <3> QED BY <3>1 DEF SeatGoesBack
  <2>5. LeftToSomebody'
    <3>1. ASSUME NEW j \in Calls, Leaves(j)', seat, ~invited, ~crossed'
          PROVE  \E i \in added \ {j} : state'[i] \in {"ringing", "accepted"}
      <4>1. j # k /\ Leaves(j) /\ ~crossed
          BY <1>0, <1>1, <1>2, <2>1, <3>1, NoEndTyped DEF Leaves, TakesBack, RowTypes
      <4>2. PICK i \in added \ {j} : state[i] \in {"ringing", "accepted"}
          BY <3>1, <4>1 DEF RowInv, LeftToSomebody
      <4>3. ~Leaves(k)
          BY <2>1, <3>1, <4>1
      <4>4. i = k => state'[i] = "accepted"
          BY <1>1, <2>3, <4>2, <4>3
      <4> QED BY <1>0, <1>1, <4>2, <4>4 DEF RowTypes
    <3> QED BY <1>1, <2>1, <3>1 DEF LeftToSomebody
  <2> QED BY <1>3, <1>4, <1>5, <1>6, <1>8, <2>2, <2>4, <2>5 DEF RowInv
<1> QED BY <1>9, <1>10

LEMMA AnsweredRows ==
    ASSUME RowInv, NEW k \in Calls, NEW to \in Ended, Answered(k, to) \/ Unmoved, UNCHANGED mail
    PROVE  RowInv' /\ Kept
<1>1. "missed" \in Ended
    BY DEF Ended
<1> QED BY <1>1, EndCallRows, LessMail DEF Answered, Unmoved

LEMMA TickRows ==
    ASSUME RowInv, NEW k \in Calls, Tick(k)
    PROVE  RowInv' /\ Kept
<1>0. RowTypes
    BY DEF RowInv
<1>1. /\ UNCHANGED <<state, by, added, seat, invited, taken, crossed, ending>> /\ mail' \subseteq mail
      /\ \A j \in Calls : clock[j] = "due" => clock'[j] = "due"
    BY <1>0 DEF Tick, panel, RowTypes, Ringing
<1>2. clock' \in [Calls -> {"fresh", "cut", "due"}]
    BY <1>0 DEF Tick, RowTypes
<1>3. RowTypes' /\ NewsOfEnds'
    BY <1>0, <1>1, <1>2 DEF RowInv, RowTypes, NewsOfEnds
<1>4. Late \subseteq Late'
    BY <1>1 DEF Late
<1>5. Underway'
    BY <1>1, <1>4 DEF RowInv, Underway, TakesBack
<1>6. \A j \in Calls : Live(j)' => Live(j)
    BY <1>1 DEF Live
<1>7. TookFromNobody'
    BY <1>0, <1>1, <1>6 DEF RowInv, RowTypes, TookFromNobody
<1>8. SeatHeld' /\ SeatGoesBack' /\ LeftToSomebody'
    BY <1>0, <1>1 DEF RowInv, RowTypes, SeatHeld, SeatGoesBack, LeftToSomebody, Leaves, TakesBack
<1> QED BY <1>1, <1>3, <1>5, <1>7, <1>8 DEF RowInv, Kept

LEMMA CreateCallRows ==
    ASSUME RowInv, NEW p \in Panels, CreateCall(p)
    PROVE  /\ RowInv' /\ Kept
           /\ \E k \in Calls : state'[k] # "none" /\ start' = [start EXCEPT ![p] = [at |-> "answer", call |-> k]]
<1>0. RowTypes /\ Underway
    BY DEF RowInv
<1>1. PICK k \in Calls :
          /\ state[k] = "none"
          /\ state' = [state EXCEPT ![k] = "ringing"]
          /\ by' = [by EXCEPT ![k] = Account[p]]
          /\ added' = IF seat THEN added ELSE added \cup {k}
          /\ start' = [start EXCEPT ![p] = [at |-> "answer", call |-> k]]
          /\ mail' = mail \cup {<<d, "ring", k>> : d \in Devices}
    BY DEF CreateCall
<1>2. seat' = TRUE /\ taken' = FALSE /\ UNCHANGED <<clock, invited, crossed, ending>> /\ ~SeatLocked
    BY DEF CreateCall
<1>3. state'[k] = "ringing" /\ \A j \in Calls \ {k} : state'[j] = state[j]
    BY <1>0, <1>1 DEF RowTypes
<1>4. Kept
    BY <1>1, <1>3 DEF Kept, Ended
<1>5. RowTypes'
  <2>1. Account[p] \in Accounts
      BY DEF Accounts
  <2>2. {<<d, "ring", k>> : d \in Devices} \subseteq Mail
      BY DEF Streams, Mail
  <2> QED BY <1>0, <1>1, <1>2, <2>1, <2>2 DEF RowTypes
<1>6. NewsOfEnds'
  <2>1. ASSUME NEW s \in Streams, NEW j \in Calls, <<s, "ended", j>> \in mail'
        PROVE  state'[j] \in Ended
    <3>1. <<s, "ended", j>> \in mail
        BY <1>1, <2>1
    <3>2. state[j] \in Ended
        BY <3>1 DEF RowInv, NewsOfEnds
    <3> QED BY <1>1, <1>3, <3>2 DEF Ended
  <2> QED BY <2>1 DEF NewsOfEnds
<1>7. SeatHeld' /\ TookFromNobody'
    BY <1>2 DEF SeatHeld, TookFromNobody, SeatLocked
<1>8. Underway' /\ ending[k].at = "no"
    BY <1>0, <1>1, <1>2, <1>3 DEF Underway, TakesBack, Late
<1>9. ASSUME NEW j \in added, state[j] \in {"ringing", "accepted"}
      PROVE  j \in added' /\ state'[j] \in {"ringing", "accepted"}
    BY <1>0, <1>1, <1>3, <1>9 DEF RowTypes
<1>10. SeatGoesBack'
  <2>1. CASE seat
    <3>1. invited \/ crossed \/ \E j \in added : state[j] \in {"ringing", "accepted"}
        BY <2>1 DEF RowInv, SeatGoesBack
    <3> QED BY <1>2, <1>9, <3>1 DEF SeatGoesBack
  <2>2. CASE ~seat
      BY <1>1, <1>3, <2>2 DEF SeatGoesBack
  <2> QED BY <2>1, <2>2
<1>11. LeftToSomebody'
  <2>1. ASSUME NEW j \in Calls, Leaves(j)', ~invited, ~crossed
        PROVE  \E i \in added' \ {j} : state'[i] \in {"ringing", "accepted"}
    <3>1. j # k
        BY <1>2, <1>8, <2>1 DEF Leaves
    <3>2. Leaves(j)
        BY <1>1, <1>2, <2>1, <3>1 DEF Leaves, TakesBack
    <3>3. CASE seat
      <4>1. PICK i \in added \ {j} : state[i] \in {"ringing", "accepted"}
          BY <2>1, <3>2, <3>3 DEF RowInv, LeftToSomebody
      <4> QED BY <1>9, <4>1
    <3>4. CASE ~seat
        BY <1>1, <1>3, <3>1, <3>4
    <3> QED BY <3>3, <3>4
  <2> QED BY <1>2, <2>1 DEF LeftToSomebody
<1> QED BY <1>1, <1>3, <1>4, <1>5, <1>6, <1>7, <1>8, <1>10, <1>11 DEF RowInv

LEMMA PanelistRows ==
    ASSUME RowInv, AddPanelist \/ RemovePanelist
    PROVE  RowInv' /\ Kept
<1>1. UNCHANGED <<state, by, added, clock, ending, mail>>
    BY DEF AddPanelist, RemovePanelist, rows
<1>2. RowTypes' /\ NewsOfEnds'
    BY <1>1 DEF RowInv, RowTypes, NewsOfEnds, AddPanelist, RemovePanelist
<1>3. SeatHeld' /\ SeatGoesBack' /\ LeftToSomebody'
    BY DEF AddPanelist, RemovePanelist, SeatHeld, SeatGoesBack, LeftToSomebody
<1>4. Underway' /\ TookFromNobody'
    BY <1>1 DEF RowInv, Underway, TookFromNobody, Live, TakesBack, Late
<1> QED BY <1>1, <1>2, <1>3, <1>4 DEF RowInv, Kept

-----------------------------------------------------------------------------
(* The callers' panels. *)

LEMMA CallerKept ==
    ASSUME RowInv, CallerInv, Kept, UNCHANGED caller
    PROVE  CallerInv'
<1>1. UNCHANGED <<start, line, mine, checked>>
    BY DEF caller
<1>2. CallerTypes'
    BY <1>1 DEF CallerInv, CallerTypes
<1>3. \A p \in Panels : mine[p] \in Calls \cup {NoCall}
    BY DEF CallerInv, CallerTypes, Calls0
<1>4. StartPlaced' /\ MinePlaced'
    BY <1>1, <1>3 DEF CallerInv, StartPlaced, MinePlaced, Kept
<1>5. PanelSaysSo'
  <2>1. ASSUME NEW p \in Panels, line[p] \in Ended
        PROVE  line[p] = state'[mine[p]]
    <3>1. line[p] = state[mine[p]] /\ line[p] \notin {"none", "placing"}
        BY <2>1 DEF CallerInv, PanelSaysSo, Ended
    <3>2. mine[p] \in Calls
        BY <1>3, <3>1 DEF CallerInv, CallerTypes
    <3> QED BY <2>1, <3>1, <3>2 DEF Kept
  <2> QED BY <1>1, <2>1 DEF PanelSaysSo
<1> QED BY <1>2, <1>4, <1>5 DEF CallerInv

(* What one panel does with its line; an end it shows is the call's. *)
LEMMA LineSays ==
    ASSUME RowInv, CallerInv, Kept, NEW p \in Panels,
           NEW what \in {"none", "placing", "ringing"} \cup Ended, NEW k \in Calls0,
           line' = [line EXCEPT ![p] = what], mine' = [mine EXCEPT ![p] = k],
           what \in {"none", "placing"} <=> k = NoCall,
           k # NoCall => state'[k] # "none",
           what \in Ended => what = state'[k],
           start' \in [Panels -> [at : {"no", "check", "insert", "answer"}, call : Calls0]],
           \A q \in Panels : start'[q].at = "answer" => start'[q] = start[q],
           checked' \in [Panels -> BOOLEAN]
    PROVE  CallerInv'
<1>0. CallerTypes /\ line \in [Panels -> {"none", "placing", "ringing"} \cup Ended] /\ mine \in [Panels -> Calls0]
    BY DEF CallerInv, CallerTypes
<1>1. /\ line'[p] = what /\ mine'[p] = k
      /\ \A q \in Panels \ {p} : line'[q] = line[q] /\ mine'[q] = mine[q]
    BY <1>0
<1>2. CallerTypes'
  <2>1. line' \in [Panels -> {"none", "placing", "ringing"} \cup Ended] /\ mine' \in [Panels -> Calls0]
      BY <1>0
  <2>2. \A q \in Panels : line'[q] \in {"none", "placing"} <=> mine'[q] = NoCall
      BY <1>0, <1>1 DEF CallerTypes
  <2> QED BY <2>1, <2>2 DEF CallerTypes
<1>3. StartPlaced'
    BY DEF CallerInv, StartPlaced, Kept
<1>4. MinePlaced'
  <2>1. ASSUME NEW q \in Panels, mine'[q] # NoCall
        PROVE  state'[mine'[q]] # "none"
    <3>1. CASE q = p
        BY <1>1, <2>1, <3>1
    <3>2. CASE q # p
        BY <1>0, <1>1, <2>1, <3>2 DEF CallerInv, MinePlaced, Kept, Calls0
    <3> QED BY <3>1, <3>2
  <2> QED BY <2>1 DEF MinePlaced
<1>5. PanelSaysSo'
  <2>1. ASSUME NEW q \in Panels, line'[q] \in Ended
        PROVE  line'[q] = state'[mine'[q]]
    <3>1. CASE q = p
        BY <1>1, <2>1, <3>1
    <3>2. CASE q # p
      <4>1. line[q] \in Ended /\ line[q] = state[mine[q]] /\ line[q] \notin {"none", "placing"}
          BY <1>1, <2>1, <3>2 DEF CallerInv, PanelSaysSo, Ended
      <4>2. mine[q] \in Calls
          BY <1>0, <4>1 DEF CallerTypes, Calls0
      <4> QED BY <1>1, <3>2, <4>1, <4>2 DEF Kept
    <3> QED BY <3>1, <3>2
  <2> QED BY <2>1 DEF PanelSaysSo
<1> QED BY <1>2, <1>3, <1>4, <1>5 DEF CallerInv

(* A step that leaves the lines. *)
LEMMA LineStays ==
    ASSUME RowInv, CallerInv, Kept, UNCHANGED <<line, mine>>,
           start' \in [Panels -> [at : {"no", "check", "insert", "answer"}, call : Calls0]],
           \A q \in Panels : start'[q].at = "answer" =>
               \/ start'[q] = start[q]
               \/ start'[q].call \in Calls /\ state'[start'[q].call] # "none",
           checked' \in [Panels -> BOOLEAN]
    PROVE  CallerInv'
<1>1. CallerTypes'
    BY DEF CallerInv, CallerTypes
<1>2. StartPlaced'
    BY DEF CallerInv, StartPlaced, Kept
<1>3. \A p \in Panels : mine[p] \in Calls \cup {NoCall}
    BY DEF CallerInv, CallerTypes, Calls0
<1>4. MinePlaced'
    BY <1>3 DEF CallerInv, MinePlaced, Kept
<1>5. PanelSaysSo'
  <2>1. ASSUME NEW p \in Panels, line[p] \in Ended
        PROVE  line[p] = state'[mine[p]]
    <3>1. line[p] = state[mine[p]] /\ line[p] \notin {"none", "placing"}
        BY <2>1 DEF CallerInv, PanelSaysSo, Ended
    <3>2. mine[p] \in Calls
        BY <1>3, <3>1 DEF CallerInv, CallerTypes
    <3> QED BY <2>1, <3>1, <3>2 DEF Kept
  <2> QED BY <2>1 DEF PanelSaysSo
<1> QED BY <1>1, <1>2, <1>4, <1>5 DEF CallerInv

LEMMA LineAsItWas ==
    ASSUME CallerInv, NEW p \in Panels
    PROVE  /\ line = [line EXCEPT ![p] = line[p]] /\ mine = [mine EXCEPT ![p] = mine[p]]
           /\ mine[p] \in Calls0 /\ start[p].call \in Calls0
           /\ line[p] = "ringing" => mine[p] \in Calls /\ mine[p] # NoCall
BY CallsAssumption DEF CallerInv, CallerTypes, Calls0

LEMMA NoStartTyped == NoStart \in [at : {"no", "check", "insert", "answer"}, call : Calls0] /\ NoStart.at = "no"
BY DEF NoStart, Calls0

(* The steps of a start. *)
LEMMA ToldSafe ==
    ASSUME RowInv, CallerInv, Kept, NEW p \in Panels, NEW k \in Calls0, NEW says,
           \/ says = "none" /\ k = NoCall
           \/ says = "ringing" /\ k # NoCall /\ state[k] # "none",
           Told(p, says, k)
    PROVE  CallerInv'
<1>1. start' \in [Panels -> [at : {"no", "check", "insert", "answer"}, call : Calls0]]
    BY NoStartTyped DEF CallerInv, CallerTypes, Told
<1>2. \A q \in Panels : start'[q].at = "answer" => start'[q] = start[q]
    BY NoStartTyped DEF CallerInv, CallerTypes, Told
<1>3. checked' \in [Panels -> BOOLEAN]
    BY DEF CallerInv, CallerTypes, Told
<1>4. CASE line[p] = "placing"
  <2>1. line' = [line EXCEPT ![p] = says] /\ mine' = [mine EXCEPT ![p] = k]
      BY <1>4 DEF Told
  <2>2. says \in {"none", "placing", "ringing"} \cup Ended /\ says \notin Ended
      BY DEF Ended
  <2>3. says \in {"none", "placing"} <=> k = NoCall
      OBVIOUS
  <2>4. k # NoCall => state'[k] # "none"
      BY DEF Kept, Calls0
  <2> QED BY <1>1, <1>2, <1>3, <2>1, <2>2, <2>3, <2>4, LineSays
<1>5. CASE line[p] # "placing"
  <2>1. UNCHANGED <<line, mine>>
      BY <1>5 DEF Told
  <2> QED BY <1>1, <1>2, <1>3, <2>1, LineStays
<1> QED BY <1>4, <1>5

LEMMA StartStepSafe ==
    ASSUME RowInv, CallerInv, NEW p \in Panels, StartStep(p)
    PROVE  RowInv' /\ CallerInv'
<1>0. CallerTypes /\ start \in [Panels -> [at : {"no", "check", "insert", "answer"}, call : Calls0]]
    BY DEF CallerInv, CallerTypes
<1>1. CASE CheckRinging(p)
  <2>1. RowInv' /\ Kept
      BY <1>1, LessMail DEF CheckRinging
  <2>2. UNCHANGED <<line, mine, checked, state>>
      BY <1>1 DEF CheckRinging, rows
  <2>3. CASE start' = [start EXCEPT ![p].at = "insert"]
    <3>1. start' \in [Panels -> [at : {"no", "check", "insert", "answer"}, call : Calls0]]
        BY <1>0, <2>3
    <3>2. \A q \in Panels : start'[q].at = "answer" => start'[q] = start[q]
        BY <1>0, <2>3
    <3> QED BY <1>0, <2>1, <2>2, <3>1, <3>2, LineStays DEF CallerTypes
  <2>4. ASSUME NEW k \in Calls, Ringing(k), start' = [start EXCEPT ![p] = [at |-> "answer", call |-> k]]
        PROVE  CallerInv'
    <3>1. start' \in [Panels -> [at : {"no", "check", "insert", "answer"}, call : Calls0]]
        BY <1>0, <2>4 DEF Calls0
    <3>2. \A q \in Panels : \/ start'[q] = start[q]
                            \/ start'[q].call \in Calls /\ state'[start'[q].call] # "none"
        BY <1>0, <2>2, <2>4 DEF Ringing
    <3> QED BY <1>0, <2>1, <2>2, <3>1, <3>2, LineStays DEF CallerTypes
  <2> QED BY <1>1, <2>1, <2>3, <2>4 DEF CheckRinging
<1>2. CASE CreateCall(p)
  <2>1. RowInv' /\ Kept
      BY <1>2, CreateCallRows
  <2>2. PICK k \in Calls : state'[k] # "none" /\ start' = [start EXCEPT ![p] = [at |-> "answer", call |-> k]]
      BY <1>2, CreateCallRows
  <2>3. start' \in [Panels -> [at : {"no", "check", "insert", "answer"}, call : Calls0]]
      BY <1>0, <2>2 DEF Calls0
  <2>4. \A q \in Panels : \/ start'[q] = start[q]
                          \/ start'[q].call \in Calls /\ state'[start'[q].call] # "none"
      BY <1>0, <2>2
  <2>5. UNCHANGED <<line, mine, checked>>
      BY <1>2 DEF CreateCall
  <2> QED BY <1>0, <2>1, <2>3, <2>4, <2>5, LineStays DEF CallerTypes
<1>3. CASE AnswerStart(p)
  <2>1. RowInv' /\ Kept
      BY <1>3, LessMail DEF AnswerStart
  <2>2. start[p].call \in Calls /\ state[start[p].call] # "none" /\ start[p].call # NoCall
      BY <1>3, CallsAssumption DEF AnswerStart, CallerInv, StartPlaced
  <2> QED BY <1>3, <2>1, <2>2, ToldSafe DEF AnswerStart, Calls0
<1>4. CASE StartFails(p)
  <2>1. RowInv' /\ Kept
      BY <1>4, LessMail DEF StartFails
  <2> QED BY <1>4, <2>1, ToldSafe DEF StartFails, Calls0
<1> QED BY <1>1, <1>2, <1>3, <1>4 DEF StartStep

(* The rest of what a panel does. *)
LEMMA LineStepSafe ==
    ASSUME RowInv, CallerInv, NEW p \in Panels,
           \/ CallSomeone(p) \/ HangUp(p) \/ ReadAtEnd(p) \/ ClosePanel(p)
           \/ \E k \in Calls : HearEnd(p, k) \/ HearRead(p, k)
    PROVE  RowInv' /\ CallerInv'
<1> DEFINE ST == [at : {"no", "check", "insert", "answer"}, call : Calls0]
           Lines == {"none", "placing", "ringing"} \cup Ended
<1>0. CallerTypes /\ start \in [Panels -> ST] /\ checked \in [Panels -> BOOLEAN]
    BY DEF CallerInv, CallerTypes
<1>a. /\ mine[p] \in Calls0 /\ mine = [mine EXCEPT ![p] = mine[p]]
      /\ line[p] = "ringing" => mine[p] \in Calls /\ mine[p] # NoCall
    BY LineAsItWas
<1>b. "cancelled" \in Ended /\ "missed" \in Ended /\ {"none", "placing", "ringing"} \cap Ended = {}
    BY DEF Ended
<1>c. NoCall \in Calls0
    BY DEF Calls0
<1>1. CASE CallSomeone(p)
  <2>1. RowInv' /\ Kept
      BY <1>1, LessMail DEF CallSomeone
  <2>2. line' = [line EXCEPT ![p] = "placing"] /\ mine' = [mine EXCEPT ![p] = NoCall]
      BY <1>1 DEF CallSomeone
  <2>3. start' \in [Panels -> ST] /\ \A q \in Panels : start'[q].at = "answer" => start'[q] = start[q]
      BY <1>0, <1>1 DEF CallSomeone
  <2>4. checked' \in [Panels -> BOOLEAN]
      BY <1>0, <1>1 DEF CallSomeone
  <2> QED BY <1>b, <1>c, <2>1, <2>2, <2>3, <2>4, LineSays
<1>2. CASE HangUp(p)
  <2>1. line[p] = "ringing" /\ mine[p] \in Calls /\ UNCHANGED caller
      BY <1>2, <1>a DEF HangUp
  <2>2. CASE UNCHANGED mail
    <3>1. RowInv' /\ Kept
        BY <1>2, <1>b, <2>1, <2>2, AnsweredRows DEF HangUp
    <3> QED BY <2>1, <3>1, CallerKept
  <2>3. CASE state[mine[p]] = "cancelled" /\ mail' = mail \cup {<<p, "ended", mine[p]>>}
    <3>1. Unmoved
        BY <1>2, <2>3 DEF HangUp, Answered, EndCall
    <3>2. RowInv' /\ Kept
        BY <1>b, <2>1, <2>3, <3>1, SaidRows DEF Unmoved
    <3> QED BY <2>1, <3>2, CallerKept
  <2> QED BY <1>2, <2>2, <2>3 DEF HangUp
<1>3. CASE ReadAtEnd(p)
  <2>1. line[p] = "ringing" /\ mine[p] \in Calls
      BY <1>3, <1>a DEF ReadAtEnd
  <2>2. UNCHANGED <<start, line, mine>> /\ checked' \in [Panels -> BOOLEAN]
      BY <1>0, <1>3 DEF ReadAtEnd
  <2>3. RowInv' /\ Kept
    <3>1. CASE EndCall(mine[p], "missed") /\ UNCHANGED mail
        BY <1>b, <2>1, <3>1, EndCallRows
    <3>2. CASE state[mine[p]] \in Ended /\ Unmoved /\ mail' = mail \cup {<<p, "ended", mine[p]>>}
        BY <2>1, <3>2, SaidRows DEF Unmoved
    <3>3. CASE Unmoved /\ mail' = mail \cup {<<p, "still", mine[p]>>}
        BY <2>1, <3>3, StillRows DEF Unmoved
    <3> QED BY <1>3, <3>1, <3>2, <3>3 DEF ReadAtEnd
  <2> QED BY <1>0, <2>2, <2>3, LineStays
<1>4. ASSUME NEW k \in Calls, HearRead(p, k)
      PROVE  RowInv' /\ CallerInv'
  <2>1. RowInv' /\ Kept /\ UNCHANGED <<start, mine, checked>>
      BY <1>4, LessMail DEF HearRead
  <2>2. CASE UNCHANGED line
      BY <2>1, <2>2, CallerKept DEF caller
  <2>3. CASE ForLine(p, k) /\ Says(p, "ringing")
    <3>1. mine[p] = k /\ k # NoCall
        BY <2>3, CallsAssumption DEF ForLine
    <3>2. line' = [line EXCEPT ![p] = "ringing"] /\ mine' = [mine EXCEPT ![p] = mine[p]]
        BY <1>a, <2>1, <2>3 DEF Says
    <3>3. state'[mine[p]] # "none"
        BY <2>1, <3>1 DEF CallerInv, MinePlaced, Kept
    <3>4. start' \in [Panels -> ST] /\ \A q \in Panels : start'[q].at = "answer" => start'[q] = start[q]
        BY <1>0, <2>1
    <3>5. "ringing" \in Lines /\ "ringing" \notin Ended /\ "ringing" \notin {"none", "placing"}
        BY <1>b
    <3> QED BY <1>0, <1>a, <2>1, <3>1, <3>2, <3>3, <3>4, <3>5, LineSays
  <2> QED BY <1>4, <2>1, <2>2, <2>3 DEF HearRead, Tells
<1>5. ASSUME NEW k \in Calls, HearEnd(p, k)
      PROVE  RowInv' /\ CallerInv'
  <2>1. RowInv' /\ Kept /\ UNCHANGED <<state, start, mine, checked>>
      BY <1>5, LessMail DEF HearEnd, rows
  <2>2. CASE UNCHANGED line
      BY <2>1, <2>2, CallerKept DEF caller
  <2>3. CASE ForLine(p, k) /\ Says(p, state[k])
    <3>1. state[k] \in Ended /\ mine[p] = k /\ k # NoCall
        BY <1>5, <2>3, CallsAssumption DEF HearEnd, ForLine, RowInv, NewsOfEnds, Streams
    <3>2. line' = [line EXCEPT ![p] = state[k]] /\ mine' = [mine EXCEPT ![p] = mine[p]]
        BY <1>a, <2>1, <2>3 DEF Says
    <3>3. start' \in [Panels -> ST] /\ \A q \in Panels : start'[q].at = "answer" => start'[q] = start[q]
        BY <1>0, <2>1
    <3>4. state[k] \in Lines /\ state[k] \notin {"none", "placing"} /\ state[k] # "none"
        BY <1>b, <3>1
    <3> QED BY <1>0, <1>a, <2>1, <3>1, <3>2, <3>3, <3>4, LineSays
  <2> QED BY <1>5, <2>1, <2>2, <2>3 DEF HearEnd, Tells
<1>6. CASE ClosePanel(p)
  <2>1. RowInv' /\ Kept
      BY <1>6, LessMail DEF ClosePanel
  <2>2. line' = [line EXCEPT ![p] = "none"] /\ mine' = [mine EXCEPT ![p] = NoCall]
      BY <1>6 DEF ClosePanel
  <2>3. UNCHANGED start /\ checked' \in [Panels -> BOOLEAN]
      BY <1>0, <1>6 DEF ClosePanel
  <2>4. start' \in [Panels -> ST] /\ \A q \in Panels : start'[q].at = "answer" => start'[q] = start[q]
      BY <1>0, <2>3
  <2> QED BY <1>0, <1>b, <1>c, <2>1, <2>2, <2>3, <2>4, LineSays
<1> QED BY <1>1, <1>2, <1>3, <1>4, <1>5, <1>6

(* The callee's devices, the sweep and the transactions, the host's hand   *)
(* and the clock.                                                          *)
LEMMA OtherStepSafe ==
    ASSUME CInv,
           \/ \E d \in Devices : DeviceStep(d)
           \/ \E k \in Calls : CallStep(k)
           \/ AddPanelist \/ RemovePanelist
    PROVE  CInv'
<1>0. RowInv /\ CallerInv /\ ShownTypes
    BY DEF CInv
<1>a. "missed" \in Ended /\ "accepted" \in Ended /\ "declined" \in Ended
    BY DEF Ended
<1>1. ShownTypes'
    BY <1>0 DEF ShownTypes, DeviceStep, CallStep, Tick, ExpireCalls, ReleaseCallSeat, Commit, RollBack,
       MeEvents, HearRing, StopRinging, Press, AddPanelist, RemovePanelist
<1>2. UNCHANGED caller
    BY DEF DeviceStep, CallStep, Tick, ExpireCalls, ReleaseCallSeat, Commit, RollBack,
       MeEvents, HearRing, StopRinging, Press, AddPanelist, RemovePanelist
<1>3. RowInv' /\ Kept
  <2>1. ASSUME NEW d \in Devices, MeEvents(d) \/ \E k \in Calls : HearRing(d, k) \/ StopRinging(d, k)
        PROVE  RowInv' /\ Kept
      BY <1>0, <2>1, LessMail DEF MeEvents, HearRing, StopRinging
  <2>2. ASSUME NEW d \in Devices, NEW k \in Calls, NEW what \in {"accepted", "declined"}, Press(d, k, what)
        PROVE  RowInv' /\ Kept
      BY <1>0, <1>a, <2>2, AnsweredRows DEF Press
  <2>3. ASSUME NEW k \in Calls, Tick(k)
        PROVE  RowInv' /\ Kept
      BY <1>0, <2>3, TickRows
  <2>4. ASSUME NEW k \in Calls, ExpireCalls(k)
        PROVE  RowInv' /\ Kept
      BY <1>0, <1>a, <2>4, EndCallRows DEF ExpireCalls
  <2>5. ASSUME NEW k \in Calls, ReleaseCallSeat(k) \/ Commit(k) \/ RollBack(k)
        PROVE  RowInv' /\ Kept
      BY <1>0, <2>5, ReleaseRows, CommitRows, RollBackRows
  <2>6. CASE AddPanelist \/ RemovePanelist
      BY <1>0, <2>6, PanelistRows
  <2> QED BY <2>1, <2>2, <2>3, <2>4, <2>5, <2>6 DEF DeviceStep, CallStep
<1>4. CallerInv'
    BY <1>0, <1>2, <1>3, CallerKept
<1> QED BY <1>1, <1>3, <1>4, JoinC

LEMMA NextC == CInv /\ [Next]_vars => CInv'
<1> SUFFICES ASSUME CInv, [Next]_vars PROVE CInv'
    OBVIOUS
<1>0. RowInv /\ CallerInv /\ ShownTypes
    BY DEF CInv
<1>1. CASE UNCHANGED vars
  <2>1. RowInv' /\ Kept
      BY <1>0, <1>1, LessMail DEF vars
  <2>2. CallerInv'
      BY <1>0, <1>1, <2>1, CallerKept DEF vars
  <2>3. ShownTypes'
      BY <1>0, <1>1 DEF vars, ShownTypes
  <2> QED BY <2>1, <2>2, <2>3, JoinC
<1>2. ASSUME NEW p \in Panels, PanelStep(p)
      PROVE  CInv'
  <2>1. RowInv' /\ CallerInv'
      BY <1>0, <1>2, StartStepSafe, LineStepSafe DEF PanelStep
  <2>2. UNCHANGED shown
      BY <1>2 DEF PanelStep, StartStep, CallSomeone, CheckRinging, CreateCall, AnswerStart, StartFails,
         HangUp, ReadAtEnd, HearRead, HearEnd, ClosePanel
  <2>3. ShownTypes'
      BY <1>0, <2>2 DEF ShownTypes
  <2> QED BY <2>1, <2>3, JoinC
<1> QED BY <1>1, <1>2, OtherStepSafe DEF Next

-----------------------------------------------------------------------------
(* Every variable keeps its type, and a panel's line is about a call
   exactly while it says how one is doing. *)
THEOREM CallTypes == Spec => []TypeOK
BY InitC, NextC, TypesOfParts, PTL DEF Spec

(* The seat a call gave is not lost to the end of another while that call
   rings or after it was accepted in time, though every end deletes by what
   the others have committed when it looks. *)
THEOREM SeatIsHeld == Spec => []SeatHeld
<1>1. CInv => SeatHeld
    BY DEF CInv, RowInv
<1> QED BY <1>1, InitC, NextC, PTL DEF Spec

(* A call that came to nothing leaves no seat behind, unless its end and
   another's crossed: whoever has one was invited, or a call that gave it
   may still be, or was, accepted, or two ends left it to each other. *)
THEOREM SeatIsTakenBack == Spec => []SeatGoesBack
<1>1. CInv => SeatGoesBack
    BY DEF CInv, RowInv
<1> QED BY <1>1, InitC, NextC, PTL DEF Spec

(* A panel never says a call ended other than it did, though its stream,
   its read and its cancel answer in any order and may be lost. *)
THEOREM PanelIsTold == Spec => []PanelSaysSo
<1>1. CInv => PanelSaysSo
    BY DEF CInv, CallerInv
<1> QED BY <1>1, InitC, NextC, PTL DEF Spec

-----------------------------------------------------------------------------
(* Calls implements CallPromise: every step is one of the promise's on the
   rows, or leaves them, and panels tell what is so by PanelSaysSo. *)

RowPromise ==
    \/ UNCHANGED <<state, Late, Answering, added, seat>>
    \/ \E k \in Calls :
        \/ Promise!Ring(k) \/ Promise!TimeUp(k) \/ Promise!Answer(k) \/ Promise!Forget(k)
        \/ \E to \in Ended : Promise!End(k, to)
    \/ Promise!Host

LEMMA RowsAlone == UNCHANGED <<rows, panel, ending>> => RowPromise
BY DEF rows, panel, RowPromise, Late, Answering

(* A transaction opens: with an answer in time, or with none. *)
LEMMA EndKeepsPromise ==
    ASSUME RowInv, NEW k \in Calls, NEW to \in Ended, EndCall(k, to)
    PROVE  RowPromise
<1>1. /\ UNCHANGED <<state, Late, added, seat>> /\ state[k] = "ringing"
      /\ ending[k].at = "no" /\ (clock[k] = "due") = (to = "missed")
    BY DEF EndCall, Late, rows, panel
<1>2. /\ ending'[k].at # "no" /\ ending'[k].to = to
      /\ \A j \in Calls \ {k} : ending'[j] = ending[j]
    BY DEF EndCall, Opened, RowInv, RowTypes
<1>3. CASE to = "missed"
  <2>1. UNCHANGED Answering
      BY <1>1, <1>2, <1>3 DEF Answering
  <2> QED BY <1>1, <2>1 DEF RowPromise
<1>4. CASE to # "missed"
  <2>1. Answering' = Answering \cup {k} /\ k \notin Late \cup Answering
      BY <1>1, <1>2, <1>4 DEF Answering, Late
  <2>2. Promise!Answer(k)
      BY <1>1, <2>1 DEF Promise!Answer
  <2> QED BY <2>2 DEF RowPromise
<1> QED BY <1>3, <1>4

LEMMA AnswerKeepsPromise ==
    ASSUME RowInv, NEW k \in Calls, NEW to \in Ended, Answered(k, to) \/ Unmoved
    PROVE  RowPromise
<1>1. "missed" \in Ended
    BY DEF Ended
<1> QED BY <1>1, EndKeepsPromise, RowsAlone DEF Answered, Unmoved

LEMMA ReleaseKeepsPromise ==
    ASSUME RowInv, NEW k \in Calls, ReleaseCallSeat(k)
    PROVE  RowPromise
<1>1. UNCHANGED <<state, Late, added, seat>>
    BY DEF ReleaseCallSeat, rows, panel, Late
<1>2. \A j \in Calls : (ending'[j].at # "no" <=> ending[j].at # "no") /\ ending'[j].to = ending[j].to
    BY DEF ReleaseCallSeat, RowInv, RowTypes, Transactions
<1>3. UNCHANGED Answering
    BY <1>2 DEF Answering
<1> QED BY <1>1, <1>3 DEF RowPromise

LEMMA RollBackKeepsPromise ==
    ASSUME RowInv, NEW k \in Calls, RollBack(k)
    PROVE  RowPromise
<1>1. UNCHANGED <<state, Late, added, seat>>
    BY DEF RollBack, rows, panel, Late
<1>2. ending'[k].at = "no" /\ \A j \in Calls \ {k} : ending'[j] = ending[j]
    BY NoEndTyped DEF RollBack, RowInv, RowTypes
<1>3. Answering' = Answering \ {k}
    BY <1>2 DEF Answering
<1> QED BY <1>1, <1>3 DEF RowPromise, Promise!Forget

(* The commit: what was answered in time, or was late, and the seat only
   from calls that have no claim on it. *)
LEMMA CommitKeepsPromise ==
    ASSUME RowInv, NEW k \in Calls, Commit(k)
    PROVE  RowPromise
<1> DEFINE to == ending[k].to
<1>1. /\ to \in Ended /\ state[k] = "ringing" /\ ending[k].at = "commit"
      /\ to = "missed" => clock[k] = "due"
      /\ ending[k].took => TakesBack(k, to)
    BY DEF Commit, RowInv, RowTypes, Underway, Transactions
<1>2. state' = [state EXCEPT ![k] = to] /\ UNCHANGED <<Late, added>>
    BY DEF Commit, Late
<1>3. ending'[k].at = "no" /\ \A j \in Calls \ {k} : ending'[j] = ending[j]
    BY NoEndTyped DEF Commit, RowInv, RowTypes
<1>4. Answering' = Answering \ {k} /\ (k \in Answering <=> to # "missed")
    BY <1>1, <1>3 DEF Answering
<1>5. Promise!Leave(k, to) \/ UNCHANGED seat
  <2>1. CASE ending[k].took
    <3>1. seat' = FALSE /\ k \in added /\ to # "accepted"
        BY <1>1, <2>1 DEF Commit, TakesBack
    <3>2. \A j \in added \ {k} : ~Promise!Holds(j)
        BY <2>1 DEF RowInv, RowTypes, TookFromNobody, Live, Late, Promise!Holds
    <3> QED BY <3>1, <3>2 DEF Promise!Leave
  <2>2. CASE ~ending[k].took
      BY <2>2 DEF Commit
  <2> QED BY <2>1, <2>2
<1>6. k \in Late <=> clock[k] = "due"
    BY DEF Late
<1> HIDE DEF to
<1> QED BY <1>1, <1>2, <1>4, <1>5, <1>6 DEF RowPromise, Promise!End, Promise!Become

LEMMA TickKeepsPromise ==
    ASSUME RowInv, NEW k \in Calls, Tick(k)
    PROVE  RowPromise
<1>0. clock \in [Calls -> {"fresh", "cut", "due"}] /\ UNCHANGED <<state, added, seat, Answering>>
    BY DEF RowInv, RowTypes, Tick, panel, Answering
<1>1. CASE clock[k] = "fresh"
  <2>1. \A j \in Calls : clock'[j] = "due" <=> clock[j] = "due"
      BY <1>0, <1>1 DEF Tick
  <2>2. UNCHANGED Late
      BY <2>1 DEF Late
  <2> QED BY <1>0, <2>2 DEF RowPromise
<1>2. CASE clock[k] # "fresh"
  <2>1. \A j \in Calls : clock'[j] = "due" <=> clock[j] = "due" \/ j = k
      BY <1>0, <1>2 DEF Tick
  <2>2. Late' = Late \cup {k} /\ k \notin Late /\ state[k] = "ringing"
      BY <2>1 DEF Late, Tick, Ringing
  <2> QED BY <1>0, <2>2 DEF RowPromise, Promise!TimeUp
<1> QED BY <1>1, <1>2

LEMMA CreateKeepsPromise ==
    ASSUME NEW p \in Panels, CreateCall(p)
    PROVE  RowPromise
<1>1. PICK k \in Calls :
          /\ state[k] = "none"
          /\ state' = [state EXCEPT ![k] = "ringing"]
          /\ added' = IF seat THEN added ELSE added \cup {k}
    BY DEF CreateCall
<1>2. seat' = TRUE /\ UNCHANGED <<Late, Answering>>
    BY DEF CreateCall, Late, Answering
<1>3. Promise!Ring(k)
    BY <1>1, <1>2 DEF Promise!Ring, Promise!Become
<1> QED BY <1>3 DEF RowPromise

LEMMA HostKeepsPromise ==
    ASSUME RowInv, AddPanelist \/ RemovePanelist
    PROVE  RowPromise
<1>1. UNCHANGED <<state, Late, Answering, added>>
    BY DEF AddPanelist, RemovePanelist, rows, Late, Answering
<1>2. seat' = ~seat
    BY DEF AddPanelist, RemovePanelist, RowInv, RowTypes
<1> QED BY <1>1, <1>2 DEF RowPromise, Promise!Host

LEMMA PanelKeepsPromise ==
    ASSUME CInv, NEW p \in Panels, PanelStep(p)
    PROVE  RowPromise
<1>0. RowInv /\ "cancelled" \in Ended /\ "missed" \in Ended
    BY DEF CInv, Ended
<1>a. line[p] = "ringing" => mine[p] \in Calls
    BY LineAsItWas DEF CInv
<1>1. CASE \/ CallSomeone(p) \/ CheckRinging(p) \/ AnswerStart(p) \/ StartFails(p)
           \/ ClosePanel(p) \/ \E k \in Calls : HearEnd(p, k) \/ HearRead(p, k)
    BY <1>1, RowsAlone DEF CallSomeone, CheckRinging, AnswerStart, StartFails, HearRead, ClosePanel, HearEnd
<1>2. CASE CreateCall(p)
    BY <1>2, CreateKeepsPromise
<1>3. CASE HangUp(p)
    BY <1>0, <1>a, <1>3, AnswerKeepsPromise DEF HangUp
<1>4. CASE ReadAtEnd(p)
    BY <1>0, <1>a, <1>4, EndKeepsPromise, RowsAlone DEF ReadAtEnd, Unmoved
<1> QED BY <1>1, <1>2, <1>3, <1>4 DEF PanelStep, StartStep

LEMMA RowsKeepPromise ==
    ASSUME CInv, [Next]_vars
    PROVE  RowPromise
<1>0. RowInv /\ "missed" \in Ended /\ "accepted" \in Ended /\ "declined" \in Ended
    BY DEF CInv, Ended
<1>1. CASE UNCHANGED vars
    BY <1>1, RowsAlone DEF vars
<1>2. ASSUME NEW p \in Panels, PanelStep(p)
      PROVE  RowPromise
    BY <1>2, PanelKeepsPromise
<1>3. ASSUME NEW d \in Devices, MeEvents(d) \/ \E k \in Calls : HearRing(d, k) \/ StopRinging(d, k)
      PROVE  RowPromise
    BY <1>3, RowsAlone DEF MeEvents, HearRing, StopRinging
<1>4. ASSUME NEW d \in Devices, NEW k \in Calls, NEW what \in {"accepted", "declined"}, Press(d, k, what)
      PROVE  RowPromise
    BY <1>0, <1>4, AnswerKeepsPromise DEF Press
<1>5. ASSUME NEW k \in Calls, CallStep(k)
      PROVE  RowPromise
    BY <1>0, <1>5, TickKeepsPromise, EndKeepsPromise, ReleaseKeepsPromise, CommitKeepsPromise,
       RollBackKeepsPromise DEF CallStep, ExpireCalls
<1>6. CASE AddPanelist \/ RemovePanelist
    BY <1>0, <1>6, HostKeepsPromise
<1> QED BY <1>1, <1>2, <1>3, <1>4, <1>5, <1>6 DEF Next, DeviceStep

TellsSo == \A w \in Telling : w \in Panels \X Calls \X Ended /\ state[w[2]] = w[3]

LEMMA TellingIsSo == CInv => TellsSo
<1> SUFFICES ASSUME CInv, NEW w \in Telling
             PROVE  w \in Panels \X Calls \X Ended /\ state[w[2]] = w[3]
    BY DEF TellsSo
<1>1. PICK p \in Panels : line[p] \in Ended /\ w = <<p, mine[p], line[p]>>
    BY DEF Telling
<1>2. line[p] = state[mine[p]] /\ line[p] \notin {"none", "placing"}
    BY <1>1 DEF CInv, CallerInv, PanelSaysSo, Ended
<1>3. mine[p] \in Calls
    BY <1>2 DEF CInv, CallerInv, CallerTypes, Calls0
<1> QED BY <1>1, <1>2, <1>3

(* A call is decided once, by an answer that came in time or by its time
   being up while none was being recorded; its end takes no seat that
   another call gave and holds; and panels tell only of ends that are so:
   for any panels, devices and calls, the handlers and EndCall's
   transactions implement CallPromise. *)
THEOREM CallsImplementPromise == Spec => CallsKeepPromise
<1>1. Init => Promise!Init
    BY NoEndTyped DEF Init, Late, Answering, Telling, Ended, Promise!Init
<1>2. CInv /\ TellsSo' /\ [Next]_vars => Promise!Next
  <2> SUFFICES ASSUME CInv, TellsSo', [Next]_vars PROVE Promise!Next
      OBVIOUS
  <2>1. Promise!Tell
      BY DEF TellsSo, Promise!Tell, Ended, Promise!Ended
  <2> QED BY <2>1, RowsKeepPromise DEF RowPromise, Promise!Next, Ended, Promise!Ended
<1> QED BY <1>1, <1>2, InitC, NextC, TellingIsSo, PTL DEF Spec, CallsKeepPromise, Promise!Spec
=============================================================================
