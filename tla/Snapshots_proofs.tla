-------------------------- MODULE Snapshots_proofs --------------------------
(***************************************************************************)
(* SnapshotAssembly, SnapshotExtraction.                                   *)
(*                                                                         *)
(* The snapshots of f0, f1 and f2 belong together and none is lost, for    *)
(* every size of the buffers, every period of the code and every           *)
(* correction of it (LegalPeriods), if the f0 snapshot did not come before *)
(* the one before it could be sent (crowded).                              *)
(*                                                                         *)
(* What makes it inductive is the age of the snapshot in flight: each      *)
(* stage of the snapshots at f1 and f2 (asked, extracted, launched, ready) *)
(* bounds it by the buffers completed since, those that wait for their     *)
(* task included.  So a f0 snapshot finds the one before it sent, or ready *)
(* up to one flag; in that case the ready flags stay for one or two        *)
(* buffers of f1 (LeftReady), and the invariant says when they are gone.   *)
(*                                                                         *)
(* What is cut out of the ring is right because of where the f0 interrupt  *)
(* falls: in the buffer before the one whose end starts the extraction     *)
(* (AskedInTime), so that the buffers with the samples are the last three  *)
(* or those filled meanwhile, and the ring has not gone round.             *)
(***************************************************************************)
EXTENDS MCComponents, Averaging_proofs, Integers, TLAPS

\* Two buffers of f2 between the f0 snapshots.  It is so for every period that
\* the code accepts: 22 s, which a correction shortens by 1 s at most, are 67
\* slots less 3.
LegalPeriods == SnapshotPeriod - MaxShortening >= 2 * F2Slots

Cwf1Event == <<"CWF1", "NORM_S1_S2">>
Cwf2Event == <<"CWF2", "NORM_S1_S2">>
SwbdEvent == <<"SWBD", "NORM_S1_S2">>
SendEvent == <<"WFRM", "NORMAL">>
ResynchEvent == <<"WFRM", "RESYNCH">>

\* Slots since the last buffer of f1
Phase1 == phase % F1Slots

\* A buffer that is complete and that its task has not seen yet
Late1 == IF Cwf1Event \in events THEN F1Slots ELSE 0
Late2 == IF Cwf2Event \in events THEN F2Slots ELSE 0

\* Buffers are complete at the start of a slot; a correction is taken back.
Clocks ==
  /\ Cwf1Event \in events => Phase1 = 0
  /\ Cwf2Event \in events => phase = 0
  /\ resynchro = "MEASURE" => shorter = 0

\* How far the snapshot at f1 is asked for, and the one at f2
Asks1(flag) == \A g \in {"swf0_ready_flag_f1", "extractSWF1"} : g \in flags <=> g = flag
Asks2(flag) == \A g \in {"swf0_ready_flag_f2", "extractSWF2"} : g \in flags <=> g = flag

\* Where the snapshot at f1 is
Asked1 == Asks1("swf0_ready_flag_f1") /\ SwbdEvent \notin events /\ age <= Phase1 + Late1
Extracted1 == /\ Asks1("extractSWF1") /\ SwbdEvent \notin events
              /\ age <= Phase1 + F1Slots + Late1
              /\ Cwf1Event \in events => age >= 1
Launched1 == Asks1("none") /\ SwbdEvent \in events /\ age >= 1 /\ age <= 2 * F1Slots
Ready1 == /\ Asks1("none") /\ SwbdEvent \notin events
          /\ "swf1_ready" \in flags /\ swf1 = f0 /\ age >= 1

\* The ready flags of the snapshot before, which the next buffer of f1 clears
LeftReady == crowded /\ "swf1_ready" \in flags /\ (Asked1 \/ Extracted1)

\* and where the one at f2 is.  It may be asked for while the one before it is
\* being extracted, when both are due to the same buffer.
Asked2 == /\ "swf0_ready_flag_f2" \in flags /\ age <= phase + Late2
          /\ "extractSWF2" \in flags
               => Cwf2Event \in events /\ age = 0 /\ LeftReady /\ "swf2_ready" \notin flags
          /\ "swf2_ready" \in flags => LeftReady
Extracted2 == /\ Asks2("extractSWF2") /\ acqF2 = f0
              /\ phase + Late2 <= age /\ age <= phase + F2Slots + Late2
              /\ "swf2_ready" \in flags => LeftReady
Ready2 == Asks2("none") /\ "swf2_ready" \in flags /\ swf2 = f0 /\ age >= F2Slots

\* The snapshot goes through its stages, and its age with them.
InFlight ==
  /\ f0 > 0 /\ (SendEvent \in events => crowded)
  /\ Asked1 \/ Extracted1 \/ Launched1 \/ Ready1
  /\ Asked2 \/ Extracted2 \/ Ready2
  /\ Ready1 /\ Ready2 => age <= 2 * F2Slots + Phase1 + Late1

Sending ==
  /\ f0 > 0 /\ flags = {} /\ SwbdEvent \notin events /\ SendEvent \in events
  /\ swf1 = f0 /\ swf2 = f0 /\ age >= 1 /\ age <= 2 * F2Slots + F1Slots

Sent ==
  /\ flags \subseteq {"swf1_ready"} /\ SwbdEvent \notin events /\ SendEvent \notin events
  /\ swfSent = [f0 |-> f0, f1 |-> f0, f2 |-> f0]

Resynchs ==
  /\ ResynchEvent \in events => age = 0
  /\ crowded \/ ResynchEvent \in events \/ resynched = f0

Acquiring == (InFlight \/ Sending \/ Sent) /\ Resynchs

\* The mode is left: SWBD may raise its flag once more, and what the tasks may
\* still send is nothing of the next acquisition.
Away ==
  /\ flags \subseteq {"swf1_ready"}
  /\ acquiring = "restarting"
       => /\ SwbdEvent \notin events /\ f0 = 0 /\ swf1 = 0 /\ swf2 = 0
          /\ swfSent = [f0 |-> 0, f1 |-> 0, f2 |-> 0] /\ resynched = 0

SnapInv ==
  /\ SnapTypeOK /\ Clocks
  /\ acquiring = "on" => Acquiring
  /\ acquiring # "on" => Away

-----------------------------------------------------------------------------
(* Operators *)

\* The events, apart from each other
LEMMA EventFacts ==
  /\ Events = {Cwf1Event, Cwf2Event, SwbdEvent, SendEvent, ResynchEvent}
  /\ Cwf1Event[1] = "CWF1" /\ Cwf2Event[1] = "CWF2" /\ SwbdEvent[1] = "SWBD"
  /\ SendEvent[1] = "WFRM" /\ ResynchEvent[1] = "WFRM" /\ SendEvent # ResynchEvent
<1>1. SendEvent[2] = "NORMAL" /\ ResynchEvent[2] = "RESYNCH"
  BY DEF SendEvent, ResynchEvent
<1>2. SendEvent # ResynchEvent
  BY <1>1
<1>3. Events = {Cwf1Event, Cwf2Event, SwbdEvent, SendEvent, ResynchEvent}
  BY Zenon DEF Events, Cwf1Event, Cwf2Event, SwbdEvent, SendEvent, ResynchEvent
<1>4. /\ Cwf1Event[1] = "CWF1" /\ Cwf2Event[1] = "CWF2" /\ SwbdEvent[1] = "SWBD"
      /\ SendEvent[1] = "WFRM" /\ ResynchEvent[1] = "WFRM"
  BY DEF Cwf1Event, Cwf2Event, SwbdEvent, SendEvent, ResynchEvent
<1> QED
  BY <1>2, <1>3, <1>4

\* What is pending for each task
LEMMA PendingFacts ==
  ASSUME events \in SUBSET Events
  PROVE  /\ \A e : e \in Pending("CWF1") <=> e = Cwf1Event /\ e \in events
         /\ \A e : e \in Pending("CWF2") <=> e = Cwf2Event /\ e \in events
         /\ \A e : e \in Pending("SWBD") <=> e = SwbdEvent /\ e \in events
         /\ \A e : e \in Pending("WFRM") <=> e \in {SendEvent, ResynchEvent} /\ e \in events
BY EventFacts DEF Pending

\* Euclidean division has one quotient and one remainder.
LEMMA OneRemainder ==
  ASSUME NEW a \in Nat, NEW b \in Nat \ {0}, NEW q \in Int, NEW r \in 0 .. b - 1, a = b * q + r
  PROVE  a % b = r
<1>1. a = b * (a \div b) + (a % b) /\ a % b \in 0 .. b - 1 /\ a \div b \in Nat
  OBVIOUS
<1> DEFINE d == a \div b
           m == a % b
<1> HIDE DEF d, m
<1>2. a = b * d + m /\ m \in 0 .. b - 1 /\ d \in Nat
  BY <1>1 DEF d, m
<1>3. b * (q - d) = m - r
  BY <1>2
<1>4. CASE q - d >= 1
  <2>1. b * (q - d) >= b
    BY <1>2, <1>4
  <2> QED
    BY <1>2, <1>3, <2>1
<1>5. CASE q - d <= -1
  <2>1. b * (q - d) <= -b
    BY <1>2, <1>5
  <2> QED
    BY <1>2, <1>3, <2>1
<1>6. CASE q - d = 0
  BY <1>2, <1>3, <1>6 DEF m
<1> QED
  BY <1>2, <1>4, <1>5, <1>6

\* The remainder of the successor
LEMMA NextRemainder ==
  ASSUME NEW a \in Nat, NEW b \in Nat \ {0}
  PROVE  /\ a % b \in 0 .. b - 1
         /\ (a + 1) % b = IF a % b = b - 1 THEN 0 ELSE (a % b) + 1
<1>1. a = b * (a \div b) + (a % b) /\ a % b \in 0 .. b - 1 /\ a \div b \in Nat
  OBVIOUS
<1> DEFINE d == a \div b
           m == a % b
<1> HIDE DEF d, m
<1>2. a = b * d + m /\ m \in 0 .. b - 1 /\ d \in Nat
  BY <1>1 DEF d, m
<1>3. CASE m = b - 1
  <2>1. a + 1 = b * (d + 1) + 0
    BY <1>2, <1>3
  <2>2. (a + 1) % b = 0
    BY <2>1, <1>2, OneRemainder
  <2> QED
    BY <1>2, <1>3, <2>2 DEF m
<1>4. CASE m # b - 1
  <2>1. a + 1 = b * d + (m + 1) /\ m + 1 \in 0 .. b - 1
    BY <1>2, <1>4
  <2>2. (a + 1) % b = m + 1
    BY <2>1, <1>2, OneRemainder
  <2> QED
    BY <1>2, <1>4, <2>2 DEF m
<1> QED
  BY <1>3, <1>4

\* The lengths of the buffers: one of f2 is longer than two of f1.
LEMMA SlotFacts ==
  /\ F1Slots \in Nat \ {0} /\ F2Slots \in Nat \ {0} /\ 2 * F1Slots < F2Slots
  /\ SnapshotPeriod \in Nat /\ MaxShortening \in Nat /\ MaxSnapshots \in Nat
BY SlotAssumption

\* The end of a slot, seen from the buffers of f1 and of f2
LEMMA PhaseMoves ==
  ASSUME phase \in 0 .. F2Slots - 1, phase' = (phase + 1) % F2Slots
  PROVE  /\ phase' \in 0 .. F2Slots - 1
         /\ \/ phase' = 0 /\ Phase1' = 0 /\ phase = F2Slots - 1
            \/ phase' = phase + 1
         /\ Phase1 \in 0 .. F1Slots - 1
         /\ Phase1' = IF Phase1 = F1Slots - 1 THEN 0 ELSE Phase1 + 1
<1>1. /\ F1Slots \in Nat \ {0} /\ F2Slots \in Nat \ {0} /\ F2Slots % F1Slots = 0
      /\ phase \in Nat /\ F2Slots - 1 \in Nat
  BY SlotAssumption
<1>2. /\ Phase1 \in 0 .. F1Slots - 1
      /\ (phase + 1) % F1Slots = IF Phase1 = F1Slots - 1 THEN 0 ELSE Phase1 + 1
  BY <1>1, NextRemainder DEF Phase1
<1>3. 0 % F1Slots = 0
  <2>1. 0 = F1Slots * 0 + 0 /\ 0 \in 0 .. F1Slots - 1
    BY <1>1
  <2> QED
    BY <1>1, <2>1, OneRemainder
<1>4. CASE phase = F2Slots - 1
  <2>1. phase + 1 = F2Slots * 1 + 0 /\ 0 \in 0 .. F2Slots - 1
    BY <1>1, <1>4
  <2>2. phase' = 0
    BY <1>1, <2>1, OneRemainder
  <2>3. (phase + 1) % F1Slots = 0
    BY <1>1, <1>4
  <2>4. Phase1' = 0
    BY <2>2, <1>3 DEF Phase1
  <2> QED
    BY <1>1, <1>2, <1>4, <2>2, <2>3, <2>4
<1>5. CASE phase # F2Slots - 1
  <2>1. phase + 1 = F2Slots * 0 + (phase + 1) /\ phase + 1 \in 0 .. F2Slots - 1
    BY <1>1, <1>5
  <2>2. phase' = phase + 1
    BY <1>1, <2>1, OneRemainder
  <2>3. Phase1' = (phase + 1) % F1Slots
    BY <2>2 DEF Phase1
  <2> QED
    BY <1>1, <1>2, <2>1, <2>2, <2>3
<1> QED
  BY <1>4, <1>5

\* Buffers that wait count as slots since the last one that was taken.
LEMMA Waiting ==
  ASSUME SnapTypeOK, Clocks
  PROVE  /\ age \in Nat /\ f0 \in Nat /\ phase \in Nat
         /\ Phase1 \in Nat /\ Late1 \in Nat /\ Late2 \in Nat
         /\ Phase1 + Late1 <= F1Slots /\ phase + Late2 <= F2Slots
         /\ Cwf1Event \in events => Phase1 = 0 /\ Late1 = F1Slots
         /\ Cwf2Event \in events => phase = 0 /\ Late2 = F2Slots
         /\ Cwf2Event \notin events => phase + Late2 < F2Slots
<1>1. /\ age \in Nat /\ f0 \in Nat /\ phase \in Nat /\ phase < F2Slots
      /\ F1Slots \in Nat \ {0} /\ F2Slots \in Nat \ {0}
  BY SlotFacts DEF SnapTypeOK, Snapshot
<1>2. Phase1 \in Nat /\ Phase1 < F1Slots
  <2>1. phase % F1Slots \in 0 .. F1Slots - 1
    BY <1>1, NextRemainder
  <2> QED
    BY <1>1, <2>1 DEF Phase1
<1>3. /\ Cwf1Event \in events => Phase1 = 0 /\ Late1 = F1Slots
      /\ Cwf1Event \notin events => Late1 = 0
  BY DEF Clocks, Late1
<1>4. /\ Cwf2Event \in events => phase = 0 /\ Late2 = F2Slots
      /\ Cwf2Event \notin events => Late2 = 0
  BY DEF Clocks, Late2
<1>5. Late1 \in Nat /\ Phase1 + Late1 <= F1Slots
  BY <1>1, <1>2, <1>3
<1>6. /\ Late2 \in Nat /\ phase + Late2 <= F2Slots
      /\ Cwf2Event \notin events => phase + Late2 < F2Slots
  BY <1>1, <1>4
<1> QED
  BY <1>1, <1>2, <1>3, <1>4, <1>5, <1>6

\* A bound of the age that moves with the slots
LEMMA BoundMoves ==
  ASSUME NEW a \in Nat, NEW b \in Nat, b <= a + 1, NEW m \in Nat,
         NEW p \in Nat, NEW q \in Nat, NEW r \in Nat, q + r = p + 1, a <= m + p
  PROVE  b <= m + q + r
OBVIOUS

\* The buffers waiting, when only the events of other tasks change
LEMMA SameClocks ==
  ASSUME phase' = phase
  PROVE  /\ Phase1' = Phase1
         /\ (Cwf1Event \in events' <=> Cwf1Event \in events) => Late1' = Late1
         /\ (Cwf2Event \in events' <=> Cwf2Event \in events) => Late2' = Late2
         /\ Cwf1Event \notin events' => Late1' = 0
         /\ Cwf2Event \notin events' => Late2' = 0
BY DEF Phase1, Late1, Late2

\* Too late for the next snapshot, the one in flight is at its last stages.
LEMMA LastStages ==
  ASSUME SnapTypeOK, Clocks, Acquiring, age >= 2 * F2Slots
  PROVE  /\ Asks1("none") /\ SwbdEvent \notin events /\ "swf0_ready_flag_f2" \notin flags
         /\ "extractSWF2" \in flags
              => Cwf2Event \in events /\ "swf1_ready" \in flags /\ "swf2_ready" \notin flags
         /\ "swf2_ready" \in flags => "swf1_ready" \in flags
         /\ age >= SafeAge \/ f0 = 0 => Sent
         /\ ~crowded => resynched = f0
<1>1. /\ F1Slots \in Nat /\ F2Slots \in Nat \ {0} /\ 2 * F1Slots < F2Slots
      /\ age \in Nat /\ f0 \in Nat /\ phase \in Nat /\ Phase1 \in Nat /\ Late1 \in Nat /\ Late2 \in Nat
      /\ Phase1 + Late1 <= F1Slots /\ phase + Late2 <= F2Slots
      /\ Cwf2Event \notin events => phase + Late2 < F2Slots
  BY SlotFacts, Waiting
<1>2. ~crowded => resynched = f0
  BY <1>1 DEF Acquiring, Resynchs
<1>3. CASE InFlight
  <2>1. Ready1
    <3>1. ~(age <= Phase1 + Late1) /\ ~(age <= Phase1 + F1Slots + Late1) /\ ~(age <= 2 * F1Slots)
      BY <1>1
    <3> QED
      BY <1>3, <3>1 DEF InFlight, Asked1, Extracted1, Launched1
  <2>2. ~LeftReady
    BY <2>1 DEF LeftReady, Ready1, Asked1, Extracted1, Asks1
  <2>3. ~Asked2
    <3>1. ~(age <= phase + Late2)
      BY <1>1
    <3> QED
      BY <3>1 DEF Asked2
  <2>4. Extracted2 => Cwf2Event \in events /\ ~(age >= SafeAge)
    <3>1. age <= phase + F2Slots + Late2 => phase + Late2 >= F2Slots /\ ~(age >= SafeAge)
      BY <1>1 DEF SafeAge
    <3> QED
      BY <1>1, <3>1 DEF Extracted2
  <2>5. Ready2 => ~(age >= SafeAge)
    <3>1. age <= 2 * F2Slots + Phase1 + Late1 => ~(age >= SafeAge)
      BY <1>1 DEF SafeAge
    <3> QED
      BY <1>3, <2>1, <3>1 DEF InFlight
  <2>6. Extracted2 \/ Ready2
    BY <1>3, <2>3 DEF InFlight
  <2>7. f0 # 0
    BY <1>1, <1>3 DEF InFlight
  <2>8. CASE Extracted2
    BY <1>2, <2>1, <2>2, <2>4, <2>7, <2>8 DEF Ready1, Extracted2, Asks2
  <2>9. CASE Ready2
    BY <1>2, <2>1, <2>5, <2>7, <2>9 DEF Ready1, Ready2, Asks2
  <2> QED
    BY <2>6, <2>8, <2>9
<1>4. CASE Sending
  <2>1. f0 # 0 /\ ~(age >= SafeAge)
    BY <1>1, <1>4 DEF Sending, SafeAge
  <2> QED
    BY <1>2, <1>4, <2>1 DEF Sending, Asks1
<1>5. CASE Sent
  BY <1>2, <1>5 DEF Sent, Asks1
<1> QED
  BY <1>3, <1>4, <1>5 DEF Acquiring

-----------------------------------------------------------------------------
(* What the tasks do, flag by flag and event by event *)

LEMMA SlotDoes ==
  ASSUME SnapTypeOK, SlotEnds
  PROVE  /\ acquiring = "on" /\ acquiring' = "on" /\ events = {} /\ events' \in SUBSET Events
         /\ phase' \in 0 .. F2Slots - 1 /\ age' \in 0 .. SnapshotPeriod
         /\ age' = (IF age < SnapshotPeriod THEN age + 1 ELSE age)
         /\ Cwf1Event \in events' <=> Phase1' = 0
         /\ Cwf2Event \in events' <=> phase' = 0
         /\ SwbdEvent \notin events' /\ SendEvent \notin events' /\ ResynchEvent \notin events'
         /\ phase' + Late2' = phase + 1 /\ Phase1' + Late1' = Phase1 + 1
         /\ phase' \in Nat /\ Phase1' \in Nat /\ Late1' \in Nat /\ Late2' \in Nat
         /\ UNCHANGED <<resynchro, shorter, f0, flags, acqF2, swf1, swf2, swfSent, resynched, crowded>>
<1>1. /\ acquiring = "on" /\ phase' = (phase + 1) % F2Slots
      /\ age' = IF age < SnapshotPeriod THEN age + 1 ELSE age
      /\ events' = (IF phase' % F1Slots = 0 THEN {Cwf1Event} ELSE {})
                   \cup (IF phase' = 0 THEN {Cwf2Event} ELSE {})
      /\ UNCHANGED <<acquiring, resynchro, shorter, f0, flags, acqF2, swf1, swf2, swfSent,
                     resynched, crowded>>
  BY DEF SlotEnds, periodVars, isrVars, Cwf1Event, Cwf2Event
<1>2. events = {}
  <2>1. events \in SUBSET Events
    BY DEF SnapTypeOK
  <2>2. /\ Pending("CWF1") = {} /\ Pending("CWF2") = {}
        /\ Pending("SWBD") = {} /\ Pending("WFRM") = {}
    BY DEF SlotEnds, Idle, Tasks
  <2> QED
    BY <2>1, <2>2, PendingFacts, EventFacts
<1>3. /\ phase' \in 0 .. F2Slots - 1
      /\ \/ phase' = 0 /\ Phase1' = 0 /\ phase = F2Slots - 1
         \/ phase' = phase + 1
      /\ Phase1 \in 0 .. F1Slots - 1
      /\ Phase1' = IF Phase1 = F1Slots - 1 THEN 0 ELSE Phase1 + 1
  BY <1>1, PhaseMoves DEF SnapTypeOK
<1>4. /\ Cwf1Event \in events' <=> Phase1' = 0
      /\ Cwf2Event \in events' <=> phase' = 0
      /\ SwbdEvent \notin events' /\ SendEvent \notin events' /\ ResynchEvent \notin events'
      /\ events' \in SUBSET Events
  BY <1>1, EventFacts DEF Phase1
<1>5. F1Slots \in Nat \ {0} /\ F2Slots \in Nat \ {0} /\ SnapshotPeriod \in Nat
  BY SlotAssumption
<1>6. age \in 0 .. SnapshotPeriod /\ phase \in 0 .. F2Slots - 1
  BY DEF SnapTypeOK
<1>7. age' \in 0 .. SnapshotPeriod
  BY <1>1, <1>5, <1>6
<1>8. Phase1' + Late1' = Phase1 + 1
  BY <1>3, <1>4, <1>5 DEF Late1
<1>9. phase' + Late2' = phase + 1
  <2>1. CASE phase' = 0
    <3>1. Late2' = F2Slots
      BY <1>4, <2>1 DEF Late2
    <3>2. phase = F2Slots - 1
      BY <1>3, <1>5, <1>6, <2>1
    <3> QED
      BY <1>5, <2>1, <3>1, <3>2
  <2>2. CASE phase' = phase + 1
    <3>1. Late2' = 0
      BY <1>4, <1>6, <2>2 DEF Late2
    <3> QED
      BY <1>6, <2>2, <3>1
  <2> QED
    BY <1>3, <2>1, <2>2
<1>10. phase' \in Nat /\ Phase1' \in Nat /\ Late1' \in Nat /\ Late2' \in Nat
  BY <1>3, <1>5 DEF Late1, Late2
<1> QED
  BY <1>1, <1>2, <1>3, <1>4, <1>7, <1>8, <1>9, <1>10

LEMMA IsrDoes ==
  ASSUME SnapTypeOK, F0Isr
  PROVE  /\ acquiring = "on" /\ acquiring' = "on" /\ age >= SnapshotPeriod - shorter
         /\ f0 < MaxSnapshots /\ f0' = f0 + 1 /\ age' = 0
         /\ crowded' = (f0 > 0 /\ age < SafeAge)
         /\ flags' = flags \cup {"swf0_ready_flag_f1", "swf0_ready_flag_f2"}
         /\ flags' \in SUBSET Flags /\ events' \in SUBSET Events
         /\ ResynchEvent \in events'
         /\ Cwf1Event \in events' <=> Cwf1Event \in events
         /\ Cwf2Event \in events' <=> Cwf2Event \in events
         /\ SwbdEvent \in events' <=> SwbdEvent \in events
         /\ SendEvent \in events' <=> SendEvent \in events
         /\ UNCHANGED <<phase, acqF2, swf1, swf2, swfSent, resynched, resynchro, shorter>>
<1>1. /\ acquiring = "on" /\ acquiring' = acquiring /\ age >= SnapshotPeriod - shorter
      /\ f0 < MaxSnapshots /\ f0' = f0 + 1 /\ age' = 0
      /\ crowded' = (f0 > 0 /\ age < SafeAge)
      /\ flags' = flags \cup {"swf0_ready_flag_f1", "swf0_ready_flag_f2"}
      /\ events' = events \cup {ResynchEvent}
      /\ UNCHANGED <<phase, acqF2, swf1, swf2, swfSent, resynched, resynchro, shorter>>
  BY DEF F0Isr, periodVars, ResynchEvent
<1>2. flags' \in SUBSET Flags
  BY <1>1 DEF SnapTypeOK, Flags
<1>3. /\ events' \in SUBSET Events /\ ResynchEvent \in events'
      /\ Cwf1Event \in events' <=> Cwf1Event \in events
      /\ Cwf2Event \in events' <=> Cwf2Event \in events
      /\ SwbdEvent \in events' <=> SwbdEvent \in events
      /\ SendEvent \in events' <=> SendEvent \in events
  BY <1>1, EventFacts DEF SnapTypeOK
<1> QED
  BY <1>1, <1>2, <1>3

LEMMA Cwf1Does ==
  ASSUME SnapTypeOK, Cwf1
  PROVE  /\ acquiring # "stopped" /\ Cwf1Event \in events /\ Cwf1Event \notin events'
         /\ Cwf2Event \in events' <=> Cwf2Event \in events
         /\ ResynchEvent \in events' <=> ResynchEvent \in events
         /\ SwbdEvent \in events' <=> SwbdEvent \in events \/ "extractSWF1" \in flags
         /\ SendEvent \in events'
              <=> SendEvent \in events \/ ("swf1_ready" \in flags /\ "swf2_ready" \in flags)
         /\ events' \in SUBSET Events /\ flags' \in SUBSET Flags
         /\ "swf0_ready_flag_f1" \notin flags'
         /\ "extractSWF1" \in flags' <=> "swf0_ready_flag_f1" \in flags
         /\ "swf1_ready" \in flags' <=> "swf1_ready" \in flags /\ "swf2_ready" \notin flags
         /\ "swf0_ready_flag_f2" \in flags' <=> "swf0_ready_flag_f2" \in flags
         /\ "extractSWF2" \in flags' <=> "extractSWF2" \in flags
         /\ "swf2_ready" \in flags' <=> "swf2_ready" \in flags /\ "swf1_ready" \notin flags
         /\ UNCHANGED <<acquiring, phase, age, f0, acqF2, swf1, swf2, swfSent, resynched,
                        resynchro, shorter, crowded>>
<1> DEFINE ready == "swf1_ready" \in flags /\ "swf2_ready" \in flags
<1>1. /\ Cwf1Event \in events /\ acquiring # "stopped"
      /\ flags' = (flags \ ({"extractSWF1", "swf0_ready_flag_f1"}
                              \cup IF ready THEN {"swf1_ready", "swf2_ready"} ELSE {}))
                  \cup IF "swf0_ready_flag_f1" \in flags THEN {"extractSWF1"} ELSE {}
      /\ events' = (events \ {Cwf1Event})
                   \cup (IF "extractSWF1" \in flags THEN {SwbdEvent} ELSE {})
                   \cup (IF ready THEN {SendEvent} ELSE {})
      /\ UNCHANGED <<acquiring, phase, age, f0, acqF2, swf1, swf2, swfSent, resynched,
                     resynchro, shorter, crowded>>
  <2>1. \A e : e \in Pending("CWF1") <=> e = Cwf1Event /\ e \in events
    BY PendingFacts DEF SnapTypeOK
  <2>2. events \ Pending("CWF1") = events \ {Cwf1Event} /\ Cwf1Event \in events
    BY <2>1 DEF Cwf1
  <2>3. ready <=> {"swf1_ready", "swf2_ready"} \subseteq flags
    OBVIOUS
  <2> QED
    BY <2>2, <2>3 DEF Cwf1, SwbdEvent, SendEvent, periodVars, isrVars
<1>2. /\ events' \in SUBSET Events
      /\ Cwf1Event \notin events'
      /\ Cwf2Event \in events' <=> Cwf2Event \in events
      /\ ResynchEvent \in events' <=> ResynchEvent \in events
      /\ SwbdEvent \in events' <=> SwbdEvent \in events \/ "extractSWF1" \in flags
      /\ SendEvent \in events' <=> SendEvent \in events \/ ready
  BY <1>1, EventFacts DEF SnapTypeOK
<1>3. /\ "swf0_ready_flag_f1" \notin flags'
      /\ "extractSWF1" \in flags' <=> "swf0_ready_flag_f1" \in flags
      /\ "swf1_ready" \in flags' <=> "swf1_ready" \in flags /\ ~ready
      /\ "swf0_ready_flag_f2" \in flags' <=> "swf0_ready_flag_f2" \in flags
      /\ "extractSWF2" \in flags' <=> "extractSWF2" \in flags
      /\ "swf2_ready" \in flags' <=> "swf2_ready" \in flags /\ ~ready
      /\ flags' \in SUBSET Flags
  BY <1>1 DEF SnapTypeOK, Flags
<1> QED
  BY <1>1, <1>2, <1>3

LEMMA Cwf2Does ==
  ASSUME SnapTypeOK, Cwf2
  PROVE  /\ acquiring # "stopped" /\ Cwf2Event \in events /\ Cwf2Event \notin events'
         /\ Cwf1Event \in events' <=> Cwf1Event \in events
         /\ ResynchEvent \in events' <=> ResynchEvent \in events
         /\ SwbdEvent \in events' <=> SwbdEvent \in events
         /\ SendEvent \in events' <=> SendEvent \in events
         /\ events' \in SUBSET Events /\ flags' \in SUBSET Flags
         /\ "swf0_ready_flag_f1" \in flags' <=> "swf0_ready_flag_f1" \in flags
         /\ "extractSWF1" \in flags' <=> "extractSWF1" \in flags
         /\ "swf1_ready" \in flags' <=> "swf1_ready" \in flags
         /\ "swf0_ready_flag_f2" \notin flags'
         /\ "extractSWF2" \in flags' <=> "swf0_ready_flag_f2" \in flags
         /\ "swf2_ready" \in flags' <=> "swf2_ready" \in flags \/ "extractSWF2" \in flags
         /\ swf2' = IF "extractSWF2" \in flags THEN acqF2 ELSE swf2
         /\ acqF2' = IF "swf0_ready_flag_f2" \in flags THEN f0 ELSE acqF2
         /\ UNCHANGED <<acquiring, phase, age, f0, swf1, swfSent, resynched, resynchro,
                        shorter, crowded>>
<1>1. /\ Cwf2Event \in events /\ acquiring # "stopped"
      /\ flags' = (flags \ {"extractSWF2", "swf0_ready_flag_f2"})
                  \cup (IF "extractSWF2" \in flags THEN {"swf2_ready"} ELSE {})
                  \cup (IF "swf0_ready_flag_f2" \in flags THEN {"extractSWF2"} ELSE {})
      /\ swf2' = IF "extractSWF2" \in flags THEN acqF2 ELSE swf2
      /\ acqF2' = IF "swf0_ready_flag_f2" \in flags THEN f0 ELSE acqF2
      /\ events' = events \ {Cwf2Event}
      /\ UNCHANGED <<acquiring, phase, age, f0, swf1, swfSent, resynched, resynchro, shorter, crowded>>
  <2>1. \A e : e \in Pending("CWF2") <=> e = Cwf2Event /\ e \in events
    BY PendingFacts DEF SnapTypeOK
  <2>2. events \ Pending("CWF2") = events \ {Cwf2Event} /\ Cwf2Event \in events
    BY <2>1 DEF Cwf2
  <2> QED
    BY <2>2 DEF Cwf2, periodVars, isrVars
<1>2. /\ events' \in SUBSET Events
      /\ Cwf2Event \notin events'
      /\ Cwf1Event \in events' <=> Cwf1Event \in events
      /\ ResynchEvent \in events' <=> ResynchEvent \in events
      /\ SwbdEvent \in events' <=> SwbdEvent \in events
      /\ SendEvent \in events' <=> SendEvent \in events
  BY <1>1, EventFacts DEF SnapTypeOK
<1>3. /\ "swf0_ready_flag_f1" \in flags' <=> "swf0_ready_flag_f1" \in flags
      /\ "extractSWF1" \in flags' <=> "extractSWF1" \in flags
      /\ "swf1_ready" \in flags' <=> "swf1_ready" \in flags
      /\ "swf0_ready_flag_f2" \notin flags'
      /\ "extractSWF2" \in flags' <=> "swf0_ready_flag_f2" \in flags
      /\ "swf2_ready" \in flags' <=> "swf2_ready" \in flags \/ "extractSWF2" \in flags
      /\ flags' \in SUBSET Flags
  BY <1>1 DEF SnapTypeOK, Flags
<1> QED
  BY <1>1, <1>2, <1>3

LEMMA SwbdDoes ==
  ASSUME SnapTypeOK, Swbd
  PROVE  /\ SwbdEvent \in events /\ SwbdEvent \notin events'
         /\ swf1' = f0 /\ flags' = flags \cup {"swf1_ready"}
         /\ Cwf1Event \in events' <=> Cwf1Event \in events
         /\ Cwf2Event \in events' <=> Cwf2Event \in events
         /\ ResynchEvent \in events' <=> ResynchEvent \in events
         /\ SendEvent \in events' <=> SendEvent \in events
         /\ events' \in SUBSET Events /\ flags' \in SUBSET Flags
         /\ UNCHANGED <<acquiring, phase, age, f0, acqF2, swf2, swfSent, resynched, resynchro,
                        shorter, crowded>>
<1>1. /\ SwbdEvent \in events
      /\ swf1' = f0 /\ flags' = flags \cup {"swf1_ready"}
      /\ events' = events \ {SwbdEvent}
      /\ UNCHANGED <<acquiring, phase, age, f0, acqF2, swf2, swfSent, resynched, resynchro,
                     shorter, crowded>>
  <2>1. \A e : e \in Pending("SWBD") <=> e = SwbdEvent /\ e \in events
    BY PendingFacts DEF SnapTypeOK
  <2>2. events \ Pending("SWBD") = events \ {SwbdEvent} /\ SwbdEvent \in events
    BY <2>1 DEF Swbd
  <2> QED
    BY <2>2 DEF Swbd, periodVars, isrVars
<1>2. /\ events' \in SUBSET Events
      /\ SwbdEvent \notin events'
      /\ Cwf1Event \in events' <=> Cwf1Event \in events
      /\ Cwf2Event \in events' <=> Cwf2Event \in events
      /\ ResynchEvent \in events' <=> ResynchEvent \in events
      /\ SendEvent \in events' <=> SendEvent \in events
  BY <1>1, EventFacts DEF SnapTypeOK
<1>3. flags' \in SUBSET Flags
  BY <1>1 DEF SnapTypeOK, Flags
<1> QED
  BY <1>1, <1>2, <1>3

LEMMA WfrmDoes ==
  ASSUME SnapTypeOK, Wfrm
  PROVE  /\ acquiring # "stopped" /\ SendEvent \notin events' /\ ResynchEvent \notin events'
         /\ Cwf1Event \in events' <=> Cwf1Event \in events
         /\ Cwf2Event \in events' <=> Cwf2Event \in events
         /\ SwbdEvent \in events' <=> SwbdEvent \in events
         /\ events' \in SUBSET Events
         /\ \/ /\ SendEvent \in events /\ ResynchEvent \notin events
               /\ swfSent' = [f0 |-> f0, f1 |-> swf1, f2 |-> swf2]
               /\ UNCHANGED <<resynched, resynchro, shorter>>
            \/ /\ SendEvent \notin events /\ ResynchEvent \in events
               /\ Resynchronise /\ resynched' = f0 /\ swfSent' = swfSent
            \/ /\ SendEvent \in events /\ ResynchEvent \in events
               /\ UNCHANGED <<swfSent, resynched, resynchro, shorter>>
         /\ UNCHANGED <<acquiring, phase, age, f0, flags, acqF2, swf1, swf2, crowded>>
<1>1. /\ events \in SUBSET Events
      /\ \A e : e \in Pending("WFRM") <=> e \in {SendEvent, ResynchEvent} /\ e \in events
  BY PendingFacts DEF SnapTypeOK
<1>2. events' = events \ {SendEvent, ResynchEvent}
  BY <1>1 DEF Wfrm
<1>3. /\ events' \in SUBSET Events
      /\ SendEvent \notin events' /\ ResynchEvent \notin events'
      /\ Cwf1Event \in events' <=> Cwf1Event \in events
      /\ Cwf2Event \in events' <=> Cwf2Event \in events
      /\ SwbdEvent \in events' <=> SwbdEvent \in events
  BY <1>1, <1>2, EventFacts
<1>4. UNCHANGED <<acquiring, phase, age, f0, flags, acqF2, swf1, swf2, crowded>>
  BY DEF Wfrm, isrVars
<1>5. /\ SendEvent # ResynchEvent
      /\ SendEvent \in Pending("WFRM") <=> SendEvent \in events
      /\ ResynchEvent \in Pending("WFRM") <=> ResynchEvent \in events
  BY <1>1, EventFacts
<1>6. CASE /\ Pending("WFRM") = {SendEvent}
           /\ swfSent' = [f0 |-> f0, f1 |-> swf1, f2 |-> swf2]
           /\ UNCHANGED <<resynched, periodVars>>
  <2>1. SendEvent \in events /\ ResynchEvent \notin events
    BY <1>5, <1>6
  <2> QED
    BY <1>3, <1>4, <1>6, <2>1 DEF Wfrm, periodVars
<1>7. CASE /\ Pending("WFRM") = {ResynchEvent}
           /\ Resynchronise
           /\ resynched' = f0
           /\ UNCHANGED swfSent
  <2>1. SendEvent \notin events /\ ResynchEvent \in events
    BY <1>5, <1>7
  <2> QED
    BY <1>3, <1>4, <1>7, <2>1 DEF Wfrm
<1>8. CASE /\ Pending("WFRM") = {SendEvent, ResynchEvent}
           /\ UNCHANGED <<swfSent, resynched, periodVars>>
  <2>1. SendEvent \in events /\ ResynchEvent \in events
    BY <1>5, <1>8
  <2> QED
    BY <1>3, <1>4, <1>8, <2>1 DEF Wfrm, periodVars
<1> QED
  BY <1>6, <1>7, <1>8 DEF Wfrm, SendEvent, ResynchEvent

LEMMA StopDoes ==
  ASSUME SnapTypeOK, StopSnapshots
  PROVE  /\ acquiring = "on" /\ acquiring' = "stopped" /\ flags' = {}
         /\ events' \in SUBSET Events
         /\ Cwf1Event \in events' => Cwf1Event \in events
         /\ Cwf2Event \in events' => Cwf2Event \in events
         /\ SendEvent \in events' => SendEvent \in events
         /\ SwbdEvent \in events' => SwbdEvent \in events \/ "extractSWF1" \in flags
         /\ UNCHANGED <<phase, age, f0, acqF2, swf1, swf2, swfSent, resynched, resynchro,
                        shorter, crowded>>
<1>1. /\ acquiring = "on" /\ acquiring' = "stopped" /\ flags' = {}
      /\ UNCHANGED <<phase, age, f0, acqF2, swf1, swf2, swfSent, resynched, resynchro,
                     shorter, crowded>>
      /\ \/ events' = events
         \/ /\ "extractSWF1" \in flags
            /\ events' = (events \ Pending("CWF1")) \cup {SwbdEvent}
  BY DEF StopSnapshots, periodVars, SwbdEvent
<1>2. events \in SUBSET Events
  BY DEF SnapTypeOK
<1>3. CASE events' = events
  BY <1>1, <1>2, <1>3
<1>4. CASE "extractSWF1" \in flags /\ events' = (events \ Pending("CWF1")) \cup {SwbdEvent}
  <2>1. /\ events' \in SUBSET Events
        /\ Cwf1Event \in events' => Cwf1Event \in events
        /\ Cwf2Event \in events' => Cwf2Event \in events
        /\ SendEvent \in events' => SendEvent \in events
    BY <1>2, <1>4, EventFacts
  <2> QED
    BY <1>1, <1>4, <2>1
<1> QED
  BY <1>1, <1>3, <1>4

LEMMA RelaunchDoes ==
  ASSUME SnapTypeOK, Relaunch
  PROVE  /\ acquiring = "stopped" /\ acquiring' = "restarting"
         /\ events' \in SUBSET events /\ SwbdEvent \notin events
         /\ phase' = 0 /\ age' = SnapshotPeriod /\ shorter' = 0 /\ f0' = 0 /\ acqF2' = 0
         /\ swf1' = 0 /\ swf2' = 0 /\ swfSent' = [f0 |-> 0, f1 |-> 0, f2 |-> 0]
         /\ resynched' = 0 /\ crowded' = FALSE
         /\ UNCHANGED <<flags, resynchro>>
<1>1. Pending("SWBD") = {}
  BY DEF Relaunch, Idle
<1>2. SwbdEvent \notin events
  BY <1>1, PendingFacts DEF SnapTypeOK
<1> QED
  BY <1>2 DEF Relaunch

LEMMA PickerDoes ==
  ASSUME SnapTypeOK, PickerStarts
  PROVE  /\ acquiring = "restarting" /\ acquiring' = "on" /\ events = {}
         /\ UNCHANGED <<phase, age, f0, flags, acqF2, swf1, swf2, events, swfSent, resynched,
                        resynchro, shorter, crowded>>
<1>1. events = {}
  <2>1. events \in SUBSET Events
    BY DEF SnapTypeOK
  <2>2. /\ Pending("CWF1") = {} /\ Pending("CWF2") = {}
        /\ Pending("SWBD") = {} /\ Pending("WFRM") = {}
    BY DEF PickerStarts, Idle, Tasks
  <2> QED
    BY <2>1, <2>2, PendingFacts, EventFacts
<1> QED
  BY <1>1 DEF PickerStarts, periodVars

-----------------------------------------------------------------------------
(* The invariant *)

\* An acquisition starts with no snapshot, which counts as sent.
LEMMA SnapInitInv == ASSUME SnapInit PROVE SnapInv
<1>1. SnapTypeOK
  <2>1. /\ 0 \in Snapshot /\ 0 \in 0 .. F2Slots - 1 /\ SnapshotPeriod \in 0 .. SnapshotPeriod
        /\ 0 \in 0 .. MaxShortening
    BY SlotFacts DEF Snapshot
  <2> QED
    BY <2>1 DEF SnapInit, SnapTypeOK
<1>2. Clocks /\ Sent /\ Resynchs
  BY DEF SnapInit, Clocks, Sent, Resynchs
<1> QED
  BY <1>1, <1>2 DEF SnapInv, Acquiring, SnapInit

\* Types, buffers and corrections hold whatever the period.
LEMMA SnapTypes == ASSUME SnapTypeOK, Clocks, [SnapNext]_snapVars PROVE SnapTypeOK' /\ Clocks'
<1>1. CASE SlotEnds
  <2>1. SnapTypeOK'
    BY <1>1, SlotDoes DEF SnapTypeOK
  <2>2. Clocks'
    BY <1>1, SlotDoes DEF Clocks
  <2> QED
    BY <2>1, <2>2
<1>2. CASE F0Isr
  <2>1. f0' \in Snapshot /\ age' \in 0 .. SnapshotPeriod
    BY <1>2, IsrDoes, SlotFacts DEF SnapTypeOK, Snapshot
  <2>2. SnapTypeOK'
    BY <1>2, <2>1, IsrDoes DEF SnapTypeOK
  <2>3. Clocks'
    BY <1>2, IsrDoes DEF Clocks, Phase1
  <2> QED
    BY <2>2, <2>3
<1>3. CASE Cwf1
  BY <1>3, Cwf1Does DEF SnapTypeOK, Clocks, Phase1
<1>4. CASE Cwf2
  BY <1>4, Cwf2Does DEF SnapTypeOK, Clocks, Phase1
<1>5. CASE Swbd
  BY <1>5, SwbdDoes DEF SnapTypeOK, Clocks, Phase1
<1>6. CASE Wfrm
  <2>1. /\ resynchro' \in {"MEASURE", "CORRECTION"} /\ shorter' \in 0 .. MaxShortening
        /\ resynchro' = "MEASURE" => shorter' = 0
    BY <1>6, WfrmDoes, SlotFacts DEF SnapTypeOK, Clocks, Resynchronise
  <2>2. swfSent' \in [f0 : Snapshot, f1 : Snapshot, f2 : Snapshot] /\ resynched' \in Snapshot
    BY <1>6, WfrmDoes DEF SnapTypeOK
  <2>3. SnapTypeOK'
    BY <1>6, <2>1, <2>2, WfrmDoes DEF SnapTypeOK
  <2>4. Clocks'
    BY <1>6, <2>1, WfrmDoes DEF Clocks, Phase1
  <2> QED
    BY <2>3, <2>4
<1>7. CASE StopSnapshots
  BY <1>7, StopDoes DEF SnapTypeOK, Clocks, Phase1
<1>8. CASE Relaunch
  <2>1. 0 \in Snapshot /\ 0 \in 0 .. F2Slots - 1 /\ SnapshotPeriod \in 0 .. SnapshotPeriod
        /\ 0 \in 0 .. MaxShortening
    BY SlotFacts DEF Snapshot
  <2>2. SnapTypeOK'
    <3>1. /\ acquiring' = "restarting" /\ events' \in SUBSET events /\ crowded' = FALSE
          /\ phase' = 0 /\ age' = SnapshotPeriod /\ shorter' = 0 /\ f0' = 0 /\ acqF2' = 0
          /\ swf1' = 0 /\ swf2' = 0 /\ swfSent' = [f0 |-> 0, f1 |-> 0, f2 |-> 0]
          /\ resynched' = 0 /\ flags' = flags /\ resynchro' = resynchro
      BY <1>8, RelaunchDoes
    <3>2. swfSent' \in [f0 : Snapshot, f1 : Snapshot, f2 : Snapshot]
      BY <2>1, <3>1
    <3> QED
      BY <2>1, <3>1, <3>2 DEF SnapTypeOK
  <2>3. Clocks'
    <3>1. Phase1' = 0
      <4>1. 0 = F1Slots * 0 + 0 /\ 0 \in 0 .. F1Slots - 1
        BY SlotFacts
      <4>2. 0 % F1Slots = 0
        BY <4>1, SlotFacts, OneRemainder
      <4> QED
        BY <1>8, <4>2, RelaunchDoes DEF Phase1
    <3> QED
      BY <1>8, <3>1, RelaunchDoes DEF Clocks
  <2> QED
    BY <2>2, <2>3
<1>9. CASE PickerStarts
  BY <1>9, PickerDoes DEF SnapTypeOK, Clocks, Phase1
<1>10. CASE UNCHANGED snapVars
  BY <1>10 DEF snapVars, SnapTypeOK, Clocks, Phase1
<1> QED
  BY <1>1, <1>2, <1>3, <1>4, <1>5, <1>6, <1>7, <1>8, <1>9, <1>10 DEF SnapNext

\* The end of a slot completes buffers and makes the snapshot older.
LEMMA SlotInv ==
  ASSUME LegalPeriods, SnapTypeOK, Clocks, Acquiring, SlotEnds
  PROVE  Acquiring'
<1>1. /\ events = {}
      /\ SwbdEvent \notin events' /\ SendEvent \notin events' /\ ResynchEvent \notin events'
      /\ UNCHANGED <<f0, flags, acqF2, swf1, swf2, swfSent, resynched, crowded>>
      /\ Cwf2Event \in events' => phase' = 0
  BY SlotDoes
<1>2. Late1 = 0 /\ Late2 = 0
  BY <1>1 DEF Late1, Late2
<1>3. /\ age \in Nat /\ phase \in Nat /\ Phase1 \in Nat /\ phase < F2Slots
      /\ F1Slots \in Nat \ {0} /\ F2Slots \in Nat \ {0}
  <2>1. Cwf2Event \notin events
    BY <1>1
  <2>2. phase \in Nat /\ phase + Late2 < F2Slots
    BY <2>1, Waiting
  <2> QED
    BY <1>2, <2>2, Waiting, SlotFacts
<1>4. age' \in Nat /\ age' >= 1 /\ age <= age' /\ age' <= age + 1
      /\ (age' = age => age >= 2 * F2Slots)
  <2>1. /\ SnapshotPeriod >= 2 * F2Slots /\ SnapshotPeriod \in Nat
        /\ age' = (IF age < SnapshotPeriod THEN age + 1 ELSE age)
    BY SlotFacts, SlotDoes DEF LegalPeriods
  <2> QED
    BY <1>3, <2>1
<1>5. phase' + Late2' = phase + 1 /\ Phase1' + Late1' = Phase1 + 1
  BY SlotDoes
<1>6. Phase1' \in Nat /\ Late1' \in Nat /\ phase' \in Nat /\ Late2' \in Nat
  BY SlotDoes
<1>7. F1Slots \in Nat /\ F2Slots \in Nat /\ 2 * F2Slots \in Nat
  BY <1>3
<1>8. \A g : (Asks1(g)' <=> Asks1(g)) /\ (Asks2(g)' <=> Asks2(g))
  BY <1>1 DEF Asks1, Asks2
<1>9. Resynchs'
  BY <1>1 DEF Acquiring, Resynchs
<1>10. CASE InFlight
  <2>1. Asked1 => Asked1'
    <3>1. age <= Phase1 + Late1 => age' <= Phase1' + Late1'
      BY <1>2, <1>3, <1>4, <1>5
    <3> QED
      BY <1>1, <1>8, <3>1 DEF Asked1
  <2>2. Extracted1 => Extracted1'
    <3>1. age <= F1Slots + Phase1 => age' <= F1Slots + Phase1' + Late1'
      BY Zenon, <1>3, <1>4, <1>5, <1>6, <1>7, BoundMoves
    <3>2. /\ Phase1 + F1Slots + Late1 = F1Slots + Phase1
          /\ Phase1' + F1Slots + Late1' = F1Slots + Phase1' + Late1'
      BY <1>2, <1>3, <1>6
    <3> QED
      BY <1>1, <1>4, <1>8, <3>1, <3>2 DEF Extracted1
  <2>3. ~Launched1
    BY <1>1 DEF Launched1
  <2>4. Ready1 => Ready1'
    BY <1>1, <1>4, <1>8 DEF Ready1
  <2>5. LeftReady => LeftReady'
    BY <1>1, <2>1, <2>2 DEF LeftReady
  <2>6. Asked2 => Asked2'
    <3>1. age <= phase + Late2 => age' <= phase' + Late2'
      BY <1>2, <1>3, <1>4, <1>5
    <3>2. Asked2 => "extractSWF2" \notin flags
      BY <1>1 DEF Asked2
    <3> QED
      BY <1>1, <2>5, <3>1, <3>2 DEF Asked2
  <2>7. Extracted2 => Extracted2'
    <3>1. age <= F2Slots + phase => age' <= F2Slots + phase' + Late2'
      BY Zenon, <1>3, <1>4, <1>5, <1>6, <1>7, BoundMoves
    <3>2. /\ phase + F2Slots + Late2 = F2Slots + phase
          /\ phase' + F2Slots + Late2' = F2Slots + phase' + Late2'
      BY <1>2, <1>3, <1>6
    <3>3. phase + Late2 <= age => phase' + Late2' <= age'
      BY <1>2, <1>3, <1>4, <1>5
    <3> QED
      BY <1>1, <1>8, <2>5, <3>1, <3>2, <3>3 DEF Extracted2
  <2>8. Ready2 => Ready2'
    <3>1. age >= F2Slots => age' >= F2Slots
      BY <1>3, <1>4
    <3> QED
      BY <1>1, <1>8, <3>1 DEF Ready2
  <2>9. Ready1' /\ Ready2' => age' <= 2 * F2Slots + Phase1' + Late1'
    <3>1. Ready1' => Ready1
      BY <1>8, <1>10, <2>3 DEF InFlight, Asked1, Extracted1, Ready1, Asks1
    <3>2. Ready2' => Ready2
      BY <1>1, <1>8, <1>10 DEF InFlight, Asked2, Extracted2, Ready2, Asks2
    <3>3. age <= 2 * F2Slots + Phase1 => age' <= 2 * F2Slots + Phase1' + Late1'
      <4> DEFINE two == 2 * F2Slots
      <4>1. two \in Nat
        BY <1>7
      <4> HIDE DEF two
      <4>2. age <= two + Phase1 => age' <= two + Phase1' + Late1'
        BY Zenon, <1>3, <1>4, <1>5, <1>6, <4>1, BoundMoves
      <4> QED
        BY <4>2 DEF two
    <3>4. 2 * F2Slots + Phase1 + Late1 = 2 * F2Slots + Phase1
      BY <1>2, <1>3
    <3> QED
      BY <1>10, <3>1, <3>2, <3>3, <3>4 DEF InFlight
  <2>10. InFlight'
    BY <1>1, <1>10, <2>1, <2>2, <2>3, <2>4, <2>6, <2>7, <2>8, <2>9 DEF InFlight
  <2> QED
    BY <1>9, <2>10 DEF Acquiring
<1>11. CASE Sending
  BY <1>1, <1>11 DEF Sending
<1>12. CASE Sent
  <2>1. Sent'
    BY <1>1, <1>12 DEF Sent
  <2> QED
    BY <1>9, <2>1 DEF Acquiring
<1> QED
  BY <1>10, <1>11, <1>12 DEF Acquiring

\* The interrupt of f0 starts a snapshot.  The one before is sent, or its flags
\* are those of LeftReady.
LEMMA IsrInv ==
  ASSUME LegalPeriods, SnapTypeOK, Clocks, Acquiring, F0Isr
  PROVE  Acquiring'
<1>1. /\ age \in Nat /\ f0 \in Nat /\ phase \in Nat /\ Phase1 \in Nat /\ Late1 \in Nat /\ Late2 \in Nat
      /\ F1Slots \in Nat \ {0} /\ F2Slots \in Nat \ {0}
  BY Waiting, SlotFacts
<1>2. age >= 2 * F2Slots
  BY <1>1, IsrDoes, SlotFacts DEF SnapTypeOK, LegalPeriods
<1>3. /\ Asks1("none") /\ SwbdEvent \notin events /\ "swf0_ready_flag_f2" \notin flags
      /\ "extractSWF2" \in flags
           => Cwf2Event \in events /\ "swf1_ready" \in flags /\ "swf2_ready" \notin flags
      /\ "swf2_ready" \in flags => "swf1_ready" \in flags
      /\ age >= SafeAge \/ f0 = 0 => Sent
  BY <1>2, LastStages
<1>4. /\ f0' = f0 + 1 /\ age' = 0 /\ crowded' = (f0 > 0 /\ age < SafeAge)
      /\ flags' = flags \cup {"swf0_ready_flag_f1", "swf0_ready_flag_f2"}
      /\ phase' = phase
      /\ ResynchEvent \in events'
      /\ Cwf1Event \in events' <=> Cwf1Event \in events
      /\ Cwf2Event \in events' <=> Cwf2Event \in events
      /\ SwbdEvent \in events' <=> SwbdEvent \in events
      /\ SendEvent \in events' <=> SendEvent \in events
  BY IsrDoes
<1>5. ~crowded' => flags \subseteq {"swf1_ready"} /\ SendEvent \notin events
  <2>1. ~crowded' => age >= SafeAge \/ f0 = 0
    <3>1. 2 * F2Slots + F1Slots + 1 \in Nat
      BY <1>1
    <3>2. age < 2 * F2Slots + F1Slots + 1 \/ age >= 2 * F2Slots + F1Slots + 1
      BY <1>1, <3>1
    <3>3. f0 > 0 \/ f0 = 0
      BY <1>1
    <3> QED
      BY <1>4, <3>2, <3>3 DEF SafeAge
  <2> QED
    BY <1>3, <2>1 DEF Sent
<1>6. Phase1' = Phase1 /\ Late1' = Late1 /\ Late2' = Late2
  BY <1>4, SameClocks
<1>7. age' <= Phase1' + Late1' /\ age' <= phase' + Late2'
  BY <1>1, <1>4, <1>6
<1>8. Asked1'
  <2>1. Asks1("swf0_ready_flag_f1")'
    BY <1>3, <1>4 DEF Asks1
  <2> QED
    BY <1>3, <1>4, <1>7, <2>1 DEF Asked1
<1>9. "swf1_ready" \in flags /\ crowded' => LeftReady'
  BY <1>4, <1>8 DEF LeftReady
<1>10. Asked2'
  <2>1. "extractSWF2" \in flags \/ "swf2_ready" \in flags => "swf1_ready" \in flags /\ crowded'
    BY <1>3, <1>5
  <2>2. /\ "extractSWF2" \in flags' <=> "extractSWF2" \in flags
        /\ "swf2_ready" \in flags' <=> "swf2_ready" \in flags
        /\ "swf0_ready_flag_f2" \in flags'
    BY <1>4
  <2> QED
    BY <1>3, <1>4, <1>7, <1>9, <2>1, <2>2 DEF Asked2
<1>11. ~Ready1'
  BY <1>8 DEF Asked1, Ready1, Asks1
<1>12. InFlight'
  <2>1. f0' > 0
    BY <1>1, <1>4
  <2> QED
    BY <1>4, <1>5, <1>8, <1>10, <1>11, <2>1 DEF InFlight
<1>13. Resynchs'
  BY <1>4 DEF Resynchs
<1> QED
  BY <1>12, <1>13 DEF Acquiring

\* cwf1_task takes a buffer of f1: it asks for the extraction, and for the
\* transmission when both snapshots are ready.
LEMMA Cwf1Inv ==
  ASSUME SnapTypeOK, Clocks, Cwf1
  PROVE  /\ acquiring = "on" /\ Acquiring => Acquiring'
         /\ acquiring # "on" /\ Away => Away'
<1>1. /\ Cwf1Event \in events /\ Cwf1Event \notin events'
      /\ Cwf2Event \in events' <=> Cwf2Event \in events
      /\ ResynchEvent \in events' <=> ResynchEvent \in events
      /\ SwbdEvent \in events' <=> SwbdEvent \in events \/ "extractSWF1" \in flags
      /\ SendEvent \in events'
           <=> SendEvent \in events \/ ("swf1_ready" \in flags /\ "swf2_ready" \in flags)
      /\ UNCHANGED <<acquiring, phase, age, f0, acqF2, swf1, swf2, swfSent, resynched, crowded>>
  BY Cwf1Does
<1>2. /\ "swf0_ready_flag_f1" \notin flags'
      /\ "extractSWF1" \in flags' <=> "swf0_ready_flag_f1" \in flags
      /\ "swf1_ready" \in flags' <=> "swf1_ready" \in flags /\ "swf2_ready" \notin flags
      /\ "swf0_ready_flag_f2" \in flags' <=> "swf0_ready_flag_f2" \in flags
      /\ "extractSWF2" \in flags' <=> "extractSWF2" \in flags
      /\ "swf2_ready" \in flags' <=> "swf2_ready" \in flags /\ "swf1_ready" \notin flags
      /\ flags' \in SUBSET Flags
  BY Cwf1Does
<1>3. ASSUME acquiring = "on", Acquiring PROVE Acquiring'
  <2>1. /\ F1Slots \in Nat \ {0} /\ F2Slots \in Nat \ {0} /\ 2 * F1Slots < F2Slots
        /\ age \in Nat /\ Phase1 = 0 /\ Late1 = F1Slots
    BY <1>1, SlotFacts, Waiting
  <2>2. Phase1' = 0 /\ Late1' = 0 /\ Late2' = Late2
    BY <1>1, <2>1, SameClocks
  <2>3. Resynchs'
    BY <1>1, <1>3 DEF Acquiring, Resynchs
  <2>4. CASE Sending
    <3>1. flags' = {}
      BY <1>2, <2>4 DEF Sending, Flags
    <3>2. Sending'
      BY <1>1, <2>4, <3>1 DEF Sending
    <3> QED
      BY <2>3, <3>2 DEF Acquiring
  <2>5. CASE Sent
    <3>1. flags' \subseteq {"swf1_ready"}
      BY <1>2, <2>5 DEF Sent, Flags
    <3>2. Sent'
      BY <1>1, <2>5, <3>1 DEF Sent
    <3> QED
      BY <2>3, <3>2 DEF Acquiring
  <2>6. CASE InFlight
    \* Early snapshots at f1 find at most the ready flag of f2 that was left.
    <3>1. age <= 2 * F1Slots => ~Ready2
      BY <2>1 DEF Ready2
    <3>2. age <= 2 * F1Slots /\ "swf2_ready" \in flags => LeftReady
      BY <2>6, <3>1 DEF InFlight, Asked2, Extracted2
    <3>3. CASE Asked1
      <4>1. age <= F1Slots /\ age <= 2 * F1Slots
        BY <2>1, <3>3 DEF Asked1
      <4>2. Extracted1'
        <5>1. Asks1("extractSWF1")'
          BY <1>2, <3>3 DEF Asked1, Asks1
        <5>2. age' <= Phase1' + F1Slots + Late1'
          BY <1>1, <2>1, <2>2, <4>1
        <5> QED
          BY <1>1, <3>3, <5>1, <5>2 DEF Asked1, Extracted1, Asks1
      <4>3. /\ LeftReady /\ "swf2_ready" \notin flags => LeftReady'
            /\ LeftReady => "swf2_ready" \notin flags'
        BY <1>1, <1>2, <4>2 DEF LeftReady
      <4>4. "swf2_ready" \notin flags'
        BY <1>2, <3>2, <4>1, <4>3
      <4>5. Asked2 => Asked2'
        BY <1>1, <1>2, <2>2, <4>3, <4>4 DEF Asked2
      <4>6. Extracted2 => Extracted2'
        BY <1>1, <1>2, <2>2, <4>4 DEF Extracted2, Asks2
      <4>7. SendEvent \in events' => crowded'
        BY <1>1, <2>6, <3>2, <4>1 DEF InFlight, LeftReady
      <4>8. ~Ready1'
        BY <4>2 DEF Extracted1, Ready1, Asks1
      <4>9. InFlight'
        BY <1>1, <2>6, <3>1, <4>1, <4>2, <4>5, <4>6, <4>7, <4>8 DEF InFlight
      <4> QED
        BY <2>3, <4>9 DEF Acquiring
    <3>4. CASE Extracted1 \/ Launched1
      <4>1. age >= 1 /\ age <= 2 * F1Slots
        BY <1>1, <2>1, <3>4 DEF Extracted1, Launched1
      <4>2. Launched1'
        <5>1. Asks1("none")'
          BY <1>2, <3>4 DEF Extracted1, Launched1, Asks1
        <5>2. SwbdEvent \in events'
          BY <1>1, <3>4 DEF Extracted1, Launched1, Asks1
        <5> QED
          BY <1>1, <4>1, <5>1, <5>2 DEF Launched1
      <4>3. "swf2_ready" \notin flags'
        BY <1>2, <3>2, <4>1 DEF LeftReady
      <4>4. Asked2 => Asked2'
        <5>1. age # 0
          BY <2>1, <4>1
        <5> QED
          BY <1>1, <1>2, <2>2, <4>3, <5>1 DEF Asked2
      <4>5. Extracted2 => Extracted2'
        BY <1>1, <1>2, <2>2, <4>3 DEF Extracted2, Asks2
      <4>6. SendEvent \in events' => crowded'
        BY <1>1, <2>6, <3>2, <4>1 DEF InFlight, LeftReady
      <4>7. ~Ready1'
        BY <4>2 DEF Launched1, Ready1
      <4>8. InFlight'
        BY <1>1, <2>6, <3>1, <4>1, <4>2, <4>4, <4>5, <4>6, <4>7 DEF InFlight
      <4> QED
        BY <2>3, <4>8 DEF Acquiring
    <3>5. CASE Ready1 /\ Ready2
      <4>1. flags' = {}
        BY <1>2, <3>5 DEF Ready1, Ready2, Asks1, Asks2, Flags
      <4>2. age' >= 1 /\ age' <= 2 * F2Slots + F1Slots
        BY <1>1, <2>1, <2>6, <3>5 DEF InFlight, Ready1
      <4>3. SendEvent \in events' /\ SwbdEvent \notin events'
        BY <1>1, <3>5 DEF Ready1, Ready2, Asks1
      <4>4. Sending'
        BY <1>1, <2>6, <3>5, <4>1, <4>2, <4>3 DEF Sending, InFlight, Ready1, Ready2
      <4> QED
        BY <2>3, <4>4 DEF Acquiring
    <3>6. CASE Ready1 /\ ~Ready2
      <4>1. ~LeftReady
        BY <3>6 DEF LeftReady, Ready1, Asked1, Extracted1, Asks1
      <4>2. "swf2_ready" \notin flags /\ "swf2_ready" \notin flags'
        BY <1>2, <2>6, <3>6, <4>1 DEF InFlight, Asked2, Extracted2
      <4>3. Ready1'
        BY <1>1, <1>2, <3>6, <4>2 DEF Ready1, Asks1
      <4>4. Asked2 => Asked2'
        BY <1>1, <1>2, <2>2, <4>1, <4>2 DEF Asked2
      <4>5. Extracted2 => Extracted2'
        BY <1>1, <1>2, <2>2, <4>2 DEF Extracted2, Asks2
      <4>6. ~Ready2'
        BY <4>2 DEF Ready2
      <4>7. InFlight'
        BY <1>1, <2>6, <3>6, <4>2, <4>3, <4>4, <4>5, <4>6 DEF InFlight
      <4> QED
        BY <2>3, <4>7 DEF Acquiring
    <3> QED
      BY <2>6, <3>3, <3>4, <3>5, <3>6 DEF InFlight
  <2> QED
    BY <1>3, <2>4, <2>5, <2>6 DEF Acquiring
<1>4. ASSUME acquiring # "on", Away PROVE Away'
  <2>1. "extractSWF1" \notin flags /\ "swf2_ready" \notin flags
    BY <1>4 DEF Away
  <2>2. flags' \subseteq {"swf1_ready"}
    BY <1>2, <1>4 DEF Away, Flags
  <2> QED
    BY <1>1, <1>4, <2>1, <2>2 DEF Away
<1> QED
  BY <1>3, <1>4

\* cwf2_task takes a buffer of f2, and extracts from it and the one before.
LEMMA Cwf2Inv ==
  ASSUME SnapTypeOK, Clocks, Cwf2
  PROVE  /\ acquiring = "on" /\ Acquiring => Acquiring'
         /\ acquiring # "on" /\ Away => Away'
<1>1. /\ Cwf2Event \in events /\ Cwf2Event \notin events'
      /\ Cwf1Event \in events' <=> Cwf1Event \in events
      /\ ResynchEvent \in events' <=> ResynchEvent \in events
      /\ SwbdEvent \in events' <=> SwbdEvent \in events
      /\ SendEvent \in events' <=> SendEvent \in events
      /\ swf2' = IF "extractSWF2" \in flags THEN acqF2 ELSE swf2
      /\ acqF2' = IF "swf0_ready_flag_f2" \in flags THEN f0 ELSE acqF2
      /\ UNCHANGED <<acquiring, phase, age, f0, swf1, swfSent, resynched, crowded>>
  BY Cwf2Does
<1>2. /\ "swf0_ready_flag_f1" \in flags' <=> "swf0_ready_flag_f1" \in flags
      /\ "extractSWF1" \in flags' <=> "extractSWF1" \in flags
      /\ "swf1_ready" \in flags' <=> "swf1_ready" \in flags
      /\ "swf0_ready_flag_f2" \notin flags'
      /\ "extractSWF2" \in flags' <=> "swf0_ready_flag_f2" \in flags
      /\ "swf2_ready" \in flags' <=> "swf2_ready" \in flags \/ "extractSWF2" \in flags
      /\ flags' \in SUBSET Flags
  BY Cwf2Does
<1>3. ASSUME acquiring = "on", Acquiring PROVE Acquiring'
  <2>1. /\ F1Slots \in Nat /\ F2Slots \in Nat /\ age \in Nat /\ phase = 0 /\ Late2 = F2Slots
        /\ Late1 \in Nat /\ Phase1 \in Nat
    BY <1>1, SlotFacts, Waiting
  <2>2. Phase1' = Phase1 /\ Late1' = Late1 /\ Late2' = 0
    BY <1>1, SameClocks
  <2>3. Resynchs'
    BY <1>1, <1>3 DEF Acquiring, Resynchs
  <2>4. CASE Sending
    <3>1. flags' = {}
      BY <1>2, <2>4 DEF Sending, Flags
    <3>2. swf2' = swf2
      BY <1>1, <2>4 DEF Sending
    <3>3. Sending'
      BY <1>1, <2>4, <3>1, <3>2 DEF Sending
    <3> QED
      BY <2>3, <3>3 DEF Acquiring
  <2>5. CASE Sent
    <3>1. flags' \subseteq {"swf1_ready"}
      BY <1>2, <2>5 DEF Sent, Flags
    <3>2. Sent'
      BY <1>1, <2>5, <3>1 DEF Sent
    <3> QED
      BY <2>3, <3>2 DEF Acquiring
  <2>6. CASE InFlight
    <3>1. /\ Asked1' <=> Asked1
          /\ Extracted1' <=> Extracted1
          /\ Launched1' <=> Launched1
          /\ Ready1' <=> Ready1
      <4>1. \A g : Asks1(g)' <=> Asks1(g)
        BY <1>2 DEF Asks1
      <4> QED
        BY <1>1, <1>2, <2>2, <4>1 DEF Asked1, Extracted1, Launched1, Ready1
    <3>2. LeftReady' <=> LeftReady
      BY <1>1, <1>2, <3>1 DEF LeftReady
    <3>3. CASE Asked2
      <4>1. phase' + Late2' <= age' /\ age' <= phase' + F2Slots + Late2'
        BY <1>1, <2>1, <2>2, <3>3 DEF Asked2
      <4>2. Asks2("extractSWF2")' /\ acqF2' = f0'
        BY <1>1, <1>2, <3>3 DEF Asked2, Asks2
      <4>3. "swf2_ready" \in flags' => LeftReady'
        BY <1>2, <3>2, <3>3 DEF Asked2
      <4>4. Extracted2'
        BY <4>1, <4>2, <4>3 DEF Extracted2
      <4>5. ~Ready2'
        BY <4>2 DEF Ready2, Asks2
      <4>6. InFlight'
        BY <1>1, <2>6, <3>1, <4>4, <4>5 DEF InFlight
      <4> QED
        BY <2>3, <4>6 DEF Acquiring
    <3>4. CASE Extracted2
      <4>1. age >= F2Slots /\ age <= 2 * F2Slots
        BY <2>1, <3>4 DEF Extracted2
      <4>2. Ready2'
        BY <1>1, <1>2, <3>4, <4>1 DEF Extracted2, Ready2, Asks2
      <4>3. age' <= 2 * F2Slots + Phase1' + Late1'
        BY <1>1, <2>1, <2>2, <4>1
      <4>4. InFlight'
        BY <1>1, <2>6, <3>1, <4>2, <4>3 DEF InFlight
      <4> QED
        BY <2>3, <4>4 DEF Acquiring
    <3>5. CASE Ready2
      <4>1. Ready2'
        BY <1>1, <1>2, <3>5 DEF Ready2, Asks2
      <4>2. Ready1' => age' <= 2 * F2Slots + Phase1' + Late1'
        BY <1>1, <2>2, <2>6, <3>1, <3>5 DEF InFlight
      <4>3. InFlight'
        BY <1>1, <2>6, <3>1, <4>1, <4>2 DEF InFlight
      <4> QED
        BY <2>3, <4>3 DEF Acquiring
    <3> QED
      BY <2>6, <3>3, <3>4, <3>5 DEF InFlight
  <2> QED
    BY <1>3, <2>4, <2>5, <2>6 DEF Acquiring
<1>4. ASSUME acquiring # "on", Away PROVE Away'
  <2>1. "extractSWF2" \notin flags /\ "swf0_ready_flag_f2" \notin flags /\ "swf2_ready" \notin flags
    BY <1>4 DEF Away
  <2>2. flags' \subseteq {"swf1_ready"}
    BY <1>2, <1>4, <2>1 DEF Away, Flags
  <2> QED
    BY <1>1, <1>4, <2>1, <2>2 DEF Away
<1> QED
  BY <1>3, <1>4

\* swbd_task extracts the snapshot of f1.
LEMMA SwbdInv ==
  ASSUME SnapTypeOK, Clocks, Swbd
  PROVE  /\ acquiring = "on" /\ Acquiring => Acquiring'
         /\ acquiring # "on" /\ Away => Away'
<1>1. /\ SwbdEvent \in events /\ SwbdEvent \notin events'
      /\ swf1' = f0 /\ flags' = flags \cup {"swf1_ready"}
      /\ Cwf1Event \in events' <=> Cwf1Event \in events
      /\ Cwf2Event \in events' <=> Cwf2Event \in events
      /\ ResynchEvent \in events' <=> ResynchEvent \in events
      /\ SendEvent \in events' <=> SendEvent \in events
      /\ UNCHANGED <<acquiring, phase, age, f0, acqF2, swf2, swfSent, resynched, crowded>>
  BY SwbdDoes
<1>2. ASSUME acquiring = "on", Acquiring PROVE Acquiring'
  <2>1. /\ F1Slots \in Nat \ {0} /\ F2Slots \in Nat \ {0} /\ 2 * F1Slots < F2Slots
        /\ age \in Nat /\ Late1 \in Nat /\ Phase1 \in Nat
    BY SlotFacts, Waiting
  <2>2. Phase1' = Phase1 /\ Late1' = Late1 /\ Late2' = Late2
    BY <1>1, SameClocks
  <2>3. Launched1 /\ InFlight
    BY <1>1, <1>2 DEF Acquiring, InFlight, Asked1, Extracted1, Ready1, Sending, Sent
  <2>4. Ready1'
    BY <1>1, <2>3 DEF Launched1, Ready1, Asks1
  <2>5. ~LeftReady
    BY <2>3 DEF LeftReady, Launched1, Asked1, Extracted1
  <2>6. \A g : Asks2(g)' <=> Asks2(g)
    BY <1>1 DEF Asks2
  <2>7. (Asked2 => Asked2') /\ (Extracted2 => Extracted2') /\ (Ready2 => Ready2')
    BY <1>1, <2>2, <2>5, <2>6 DEF Asked2, Extracted2, Ready2
  <2>8. age' <= 2 * F2Slots + Phase1' + Late1'
    BY <1>1, <2>1, <2>2, <2>3 DEF Launched1
  <2>9. InFlight'
    BY <1>1, <2>3, <2>4, <2>7, <2>8 DEF InFlight
  <2>10. Resynchs'
    BY <1>1, <1>2 DEF Acquiring, Resynchs
  <2> QED
    BY <2>9, <2>10 DEF Acquiring
<1>3. ASSUME acquiring # "on", Away PROVE Away'
  BY <1>1, <1>3 DEF Away
<1> QED
  BY <1>2, <1>3

\* wfrm_task sends the three snapshots, or resynchronizes.
LEMMA WfrmInv ==
  ASSUME SnapTypeOK, Clocks, Wfrm
  PROVE  /\ acquiring = "on" /\ Acquiring => Acquiring'
         /\ acquiring # "on" /\ Away => Away'
<1>1. /\ SendEvent \notin events' /\ ResynchEvent \notin events'
      /\ Cwf1Event \in events' <=> Cwf1Event \in events
      /\ Cwf2Event \in events' <=> Cwf2Event \in events
      /\ SwbdEvent \in events' <=> SwbdEvent \in events
      /\ \/ /\ SendEvent \in events /\ ResynchEvent \notin events
            /\ swfSent' = [f0 |-> f0, f1 |-> swf1, f2 |-> swf2]
            /\ resynched' = resynched
         \/ /\ SendEvent \notin events /\ ResynchEvent \in events
            /\ resynched' = f0 /\ swfSent' = swfSent
         \/ /\ SendEvent \in events /\ ResynchEvent \in events
            /\ UNCHANGED <<swfSent, resynched>>
      /\ UNCHANGED <<acquiring, phase, age, f0, flags, acqF2, swf1, swf2, crowded>>
  BY WfrmDoes
<1>2. ASSUME acquiring = "on", Acquiring PROVE Acquiring'
  <2>1. Sending => SendEvent \in events /\ ResynchEvent \notin events
    <3>1. Sending => age # 0
      BY Waiting DEF Sending
    <3> QED
      BY <1>2, <3>1 DEF Acquiring, Resynchs, Sending
  <2>2. Resynchs'
    <3>1. SendEvent \in events /\ ResynchEvent \in events => crowded
      BY <1>2, <2>1 DEF Acquiring, InFlight, Sent
    <3> QED
      BY <1>1, <1>2, <3>1 DEF Acquiring, Resynchs
  <2>3. CASE Sending
    <3>1. SendEvent \in events /\ ResynchEvent \notin events
      BY <2>3, <2>1
    <3>2. swfSent' = [f0 |-> f0', f1 |-> f0', f2 |-> f0']
      BY <1>1, <2>3, <3>1 DEF Sending
    <3>3. Sent'
      BY <1>1, <2>3, <3>2 DEF Sent, Sending
    <3> QED
      BY <2>2, <3>3 DEF Acquiring
  <2>4. CASE Sent
    <3>1. Sent'
      BY <1>1, <2>4 DEF Sent
    <3> QED
      BY <2>2, <3>1 DEF Acquiring
  <2>5. CASE InFlight
    <3>1. /\ Phase1' = Phase1 /\ Late1' = Late1 /\ Late2' = Late2
          /\ \A g : (Asks1(g)' <=> Asks1(g)) /\ (Asks2(g)' <=> Asks2(g))
      BY <1>1, SameClocks DEF Asks1, Asks2
    <3>2. /\ Asked1' <=> Asked1
          /\ Extracted1' <=> Extracted1
          /\ Launched1' <=> Launched1
          /\ Ready1' <=> Ready1
      BY <1>1, <3>1 DEF Asked1, Extracted1, Launched1, Ready1
    <3>3. LeftReady' <=> LeftReady
      BY <1>1, <3>2 DEF LeftReady
    <3>4. /\ Asked2' <=> Asked2
          /\ Extracted2' <=> Extracted2
          /\ Ready2' <=> Ready2
      BY <1>1, <3>1, <3>3 DEF Asked2, Extracted2, Ready2
    <3>5. InFlight'
      BY <1>1, <2>5, <3>1, <3>2, <3>4 DEF InFlight
    <3> QED
      BY <2>2, <3>5 DEF Acquiring
  <2> QED
    BY <1>2, <2>3, <2>4, <2>5 DEF Acquiring
<1>3. ASSUME acquiring # "on", Away PROVE Away'
  BY <1>1, <1>3 DEF Away
<1> QED
  BY <1>2, <1>3

\* The next acquisition finds no event, and the flag of SWBD at most.
LEMMA PickerInv == ASSUME SnapTypeOK, Away, PickerStarts PROVE Acquiring'
<1>1. /\ acquiring = "restarting" /\ events = {}
      /\ UNCHANGED <<f0, flags, events, swfSent, resynched, crowded, age>>
  BY PickerDoes
<1>2. Sent /\ Resynchs
  BY <1>1 DEF Away, Sent, Resynchs
<1>3. Sent' /\ Resynchs'
  BY <1>1, <1>2 DEF Sent, Resynchs
<1> QED
  BY <1>3 DEF Acquiring

\* The snapshot in flight is sent, or found ready by the next one, always.
LEMMA SnapInvIsInductive == ASSUME LegalPeriods PROVE SnapSpec => []SnapInv
<1>1. SnapInit => SnapInv
  BY SnapInitInv
<1>2. ASSUME SnapInv, [SnapNext]_snapVars PROVE SnapInv'
  <2>1. SnapTypeOK /\ Clocks /\ SnapTypeOK' /\ Clocks'
    BY <1>2, SnapTypes DEF SnapInv
  <2>2. (acquiring = "on" => Acquiring) /\ (acquiring # "on" => Away)
    BY <1>2 DEF SnapInv
  <2>3. CASE SlotEnds
    BY <2>1, <2>2, <2>3, SlotDoes, SlotInv DEF SnapInv
  <2>4. CASE F0Isr
    BY <2>1, <2>2, <2>4, IsrDoes, IsrInv DEF SnapInv
  <2>5. CASE Cwf1
    BY <2>1, <2>2, <2>5, Cwf1Does, Cwf1Inv DEF SnapInv
  <2>6. CASE Cwf2
    BY <2>1, <2>2, <2>6, Cwf2Does, Cwf2Inv DEF SnapInv
  <2>7. CASE Swbd
    BY <2>1, <2>2, <2>7, SwbdDoes, SwbdInv DEF SnapInv
  <2>8. CASE Wfrm
    BY <2>1, <2>2, <2>8, WfrmDoes, WfrmInv DEF SnapInv
  <2>9. CASE StopSnapshots
    <3>1. acquiring' = "stopped" /\ flags' = {}
      BY <2>1, <2>9, StopDoes
    <3> QED
      BY <2>1, <3>1 DEF SnapInv, Away
  <2>10. CASE Relaunch
    <3>1. /\ acquiring = "stopped" /\ acquiring' = "restarting" /\ SwbdEvent \notin events'
          /\ f0' = 0 /\ swf1' = 0 /\ swf2' = 0
          /\ swfSent' = [f0 |-> 0, f1 |-> 0, f2 |-> 0] /\ resynched' = 0 /\ flags' = flags
      BY <2>1, <2>10, RelaunchDoes
    <3>2. Away'
      BY <2>2, <3>1 DEF Away
    <3> QED
      BY <2>1, <3>1, <3>2 DEF SnapInv
  <2>11. CASE PickerStarts
    BY <2>1, <2>2, <2>11, PickerDoes, PickerInv DEF SnapInv
  <2>12. CASE UNCHANGED snapVars
    <3>1. UNCHANGED <<acquiring, phase, age, f0, flags, acqF2, swf1, swf2, events, swfSent,
                      resynched, crowded>>
      BY <2>12 DEF snapVars
    <3>2. /\ Phase1' = Phase1 /\ Late1' = Late1 /\ Late2' = Late2
          /\ \A g : (Asks1(g)' <=> Asks1(g)) /\ (Asks2(g)' <=> Asks2(g))
      BY <3>1, SameClocks DEF Asks1, Asks2
    <3>3. /\ Asked1' <=> Asked1
          /\ Extracted1' <=> Extracted1
          /\ Launched1' <=> Launched1
          /\ Ready1' <=> Ready1
      BY <3>1, <3>2 DEF Asked1, Extracted1, Launched1, Ready1
    <3>4. LeftReady' <=> LeftReady
      BY <3>1, <3>3 DEF LeftReady
    <3>5. (Asked2' <=> Asked2) /\ (Extracted2' <=> Extracted2) /\ (Ready2' <=> Ready2)
      BY <3>1, <3>2, <3>4 DEF Asked2, Extracted2, Ready2
    <3>6. InFlight' <=> InFlight
      BY <3>1, <3>2, <3>3, <3>5 DEF InFlight
    <3>7. (Sending' <=> Sending) /\ (Sent' <=> Sent) /\ (Resynchs' <=> Resynchs) /\ (Away' <=> Away)
      BY <3>1 DEF Sending, Sent, Resynchs, Away
    <3> QED
      BY <2>1, <2>2, <3>1, <3>6, <3>7 DEF SnapInv, Acquiring
  <2> QED
    BY <1>2, <2>3, <2>4, <2>5, <2>6, <2>7, <2>8, <2>9, <2>10, <2>11, <2>12 DEF SnapNext
<1>3. SnapInv /\ [SnapNext]_snapVars => SnapInv'
  BY <1>2
<1> QED
  BY <1>1, <1>3, PTL DEF SnapSpec

\* The three snapshots sent together were taken for the same f0 snapshot, whatever the
\* order in which the buffers of f1 and f2 end and the tasks run, and wherever SPIQ or a
\* TC stops them (wfrm_task, swbd_task, cwf1_task, cwf2_task, stop_current_mode), unless
\* the last f0 snapshot came before the one before it could be sent: for every period
\* that the code accepts.
THEOREM SentTogether == LegalPeriods /\ SnapSpec => SnapshotsTogether
<1> SUFFICES ASSUME LegalPeriods PROVE SnapSpec => SnapshotsTogether
  BY DEF LegalPeriods
<1> DEFINE together == swfSent' # swfSent /\ ~crowded
                         => swfSent'.f0 = swfSent'.f1 /\ swfSent'.f1 = swfSent'.f2
<1>1. ASSUME SnapInv, [SnapNext]_snapVars, swfSent' # swfSent, ~crowded
      PROVE  swfSent'.f0 = swfSent'.f1 /\ swfSent'.f1 = swfSent'.f2
  <2>1. SnapTypeOK
    BY <1>1 DEF SnapInv
  <2>2. Wfrm \/ Relaunch
    BY <1>1, <2>1, SlotDoes, IsrDoes, Cwf1Does, Cwf2Does, SwbdDoes, StopDoes, PickerDoes
       DEF SnapNext, snapVars
  <2>3. CASE Wfrm
    <3>1. SendEvent \in events /\ swfSent' = [f0 |-> f0, f1 |-> swf1, f2 |-> swf2]
      BY <1>1, <2>1, <2>3, WfrmDoes
    <3>2. swf1 = f0 /\ swf2 = f0
      <4>1. acquiring = "on" \/ acquiring = "restarting"
        BY <2>1, <2>3, WfrmDoes DEF SnapTypeOK
      <4>2. CASE acquiring = "on"
        BY <1>1, <3>1, <4>2 DEF SnapInv, Acquiring, InFlight, Sending, Sent
      <4>3. CASE acquiring = "restarting"
        BY <1>1, <4>3 DEF SnapInv, Away
      <4> QED
        BY <4>1, <4>2, <4>3
    <3> QED
      BY <3>1, <3>2
  <2>4. CASE Relaunch
    BY <2>1, <2>4, RelaunchDoes
  <2> QED
    BY <2>2, <2>3, <2>4
<1>2. SnapInv /\ [SnapNext]_snapVars => [together]_snapVars
  BY <1>1
<1> QED
  BY <1>2, SnapInvIsInductive, PTL DEF SnapSpec, SnapshotsTogether

\* What an f0 snapshot finds when it comes
LEMMA IsrFinds ==
  ASSUME LegalPeriods, SnapInv, [SnapNext]_snapVars, f0' = f0 + 1
  PROVE  (age >= SafeAge => Sent) /\ (~crowded => resynched = f0)
<1>1. f0 \in Nat /\ SnapTypeOK /\ Clocks
  BY DEF SnapInv, SnapTypeOK, Snapshot
<1>2. f0' # f0
  BY <1>1
<1>3. F0Isr
  <2>1. Relaunch => f0' = 0
    BY <1>1, RelaunchDoes
  <2> QED
    BY <1>1, <1>2, <2>1, SlotDoes, Cwf1Does, Cwf2Does, SwbdDoes, WfrmDoes, StopDoes, PickerDoes
       DEF SnapNext, snapVars
<1>4. age >= 2 * F2Slots
  BY <1>1, <1>3, IsrDoes, SlotFacts DEF SnapTypeOK, LegalPeriods
<1>5. Acquiring
  BY <1>1, <1>3, IsrDoes DEF SnapInv
<1> QED
  BY <1>1, <1>4, <1>5, LastStages

\* An f0 snapshot that comes two buffers of f2 and one of f1 after the one before finds
\* the three snapshots of that one sent, whatever happened to the earlier ones
\* (waveform_isr_normal_sbm1_sbm2, which overwrites the pointer and the flags).
THEOREM EachSnapshotSent == LegalPeriods /\ SnapSpec => NoSnapshotLost
<1> SUFFICES ASSUME LegalPeriods PROVE SnapSpec => NoSnapshotLost
  BY DEF LegalPeriods
<1>1. SnapInv /\ [SnapNext]_snapVars
        => [f0' = f0 + 1 /\ age >= SafeAge => swfSent = [f0 |-> f0, f1 |-> f0, f2 |-> f0]]_snapVars
  BY IsrFinds DEF Sent
<1> QED
  BY <1>1, SnapInvIsInductive, PTL DEF SnapSpec, NoSnapshotLost

\* An f0 snapshot that did not come too soon is measured by snapshot_resynchronization
\* before the next one, for every period that the code accepts.
THEOREM EachSnapshotResynched == LegalPeriods /\ SnapSpec => EverySnapshotResynched
<1> SUFFICES ASSUME LegalPeriods PROVE SnapSpec => EverySnapshotResynched
  BY DEF LegalPeriods
<1>1. SnapInv /\ [SnapNext]_snapVars => [f0' = f0 + 1 /\ ~crowded => resynched = f0]_snapVars
  BY IsrFinds
<1> QED
  BY <1>1, SnapInvIsInductive, PTL DEF SnapSpec, EverySnapshotResynched

-----------------------------------------------------------------------------
(* SnapshotExtraction *)

\* The ticks of a buffer, and from the first sample of a snapshot to the
\* interrupt of the f0 snapshot
TicksOf(c) == Samples * TicksPerSample[c]
Ahead(c) == F0Ticks - DeltaF0 + DeltaT[c]

\* The numbers of the program: the first sample is less than a buffer before
\* the interrupt at f0, and in a buffer filled since the launch; the ring keeps
\* the three buffers a snapshot may be in beside those filled while it is cut.
ExtractionNumbers ==
  /\ F0Ticks \in Nat /\ DeltaF0 \in Nat /\ FirstF0 \in Nat /\ CutLag \in Nat
  /\ Phases \subseteq Nat /\ Settings \subseteq Int
  /\ \A c \in FrequencyChannels :
       /\ DeltaT[c] \in Nat /\ Period[c] \in Nat
       /\ 0 <= Ahead(c) /\ Ahead(c) <= TicksOf(c) /\ Ahead(c) <= FirstF0
  /\ RingNodes >= CutLag + 4

\* The f0 snapshot at time was in buffer b when its interrupt came.
During(time, b) ==
  /\ b * BufferTicks <= time + F0Ticks /\ time + F0Ticks < (b + 1) * BufferTicks
  /\ time + F0Ticks >= FirstF0

\* The first sample of the snapshot, and its buffer
Start(time) == time + DeltaF0 - DeltaT[frequencyChannel]
StartBuffer(time) == Start(time) \div BufferTicks

\* Types; of the extraction, those of the fields that decide
CutFields == {"at", "late", "node", "acq", "asked", "sameClock", "clock", "offset", "part1", "date",
              "first", "second"}

CutTypes ==
  /\ frequencyChannel \in FrequencyChannels
  /\ written \in Nat /\ started \in Int /\ clockShift \in Int
  /\ dates \in [0 .. RingNodes - 1 -> Int]
  /\ swf0 \in [time : Int, date : Int] /\ swf0Ready \in BOOLEAN /\ extractSWF \in BOOLEAN
  /\ asked \in Int
  /\ DOMAIN cut = CutFields /\ cut.at \in {"idle", "search", "part1", "part2", "done"}
  /\ cut.late \in Nat /\ cut.asked \in Int /\ cut.sameClock \in BOOLEAN

\* The f0 snapshots on the way, and that of the extraction in progress
AskedInTime ==
  /\ swf0Ready => During(swf0.time, written)
  /\ extractSWF => During(asked, written - 1)
  /\ Cutting => /\ cut.late <= CutLag
                /\ During(cut.asked, written - 2 - cut.late)
  /\ cut.at = "search" => cut.node = RingNode(written - 1 - cut.late)

\* What the search has found
SearchDone ==
  cut.at \in {"part1", "part2", "done"} /\ cut.sameClock =>
    LET s == StartBuffer(cut.asked)
        offset == (Start(cut.asked) - s * BufferTicks) \div Ticks IN
    /\ s \in Nat
    /\ cut.offset = offset /\ offset \in 0 .. Samples - 1
    /\ cut.part1 = Samples - offset
    /\ cut.date = s * BufferTicks + offset * Ticks + cut.clock
    /\ cut.at = "part1" => cut.node = RingNode(s)
    /\ cut.at = "part2" => cut.first = s /\ cut.node = RingNode(s + 1)
    /\ cut.at = "done" => cut.first = s /\ cut.second = s + 1 /\ s + 1 < written

CutInv == CutTypes /\ AskedInTime /\ SearchDone

-----------------------------------------------------------------------------
(* Divisions and the ring *)

\* Quotient and remainder are unique.
LEMMA OneDivision ==
  ASSUME NEW a \in Int, NEW b \in Nat \ {0}, NEW q \in Int, NEW r \in 0 .. b - 1, a = b * q + r
  PROVE  a % b = r /\ a \div b = q
<1> DEFINE d == a \div b
           m == a % b
<1>1. a = b * d + m /\ m \in 0 .. b - 1 /\ d \in Int
  OBVIOUS
<1> HIDE DEF d, m
<1>2. b * (q - d) = m - r
  BY <1>1
<1>3. CASE q - d >= 1
  <2>1. b * (q - d) >= b
    BY <1>1, <1>3
  <2> QED
    BY <2>1, <1>1, <1>2
<1>4. CASE q - d <= -1
  <2>1. b * (q - d) <= -b
    BY <1>1, <1>4
  <2> QED
    BY <2>1, <1>1, <1>2
<1>5. CASE q = d
  BY <1>1, <1>5 DEF d, m
<1> QED
  BY <1>1, <1>3, <1>4, <1>5

\* The node of a buffer holds it until the ring has gone round.
LEMMA LastInRing ==
  ASSUME NEW x \in Int, NEW b \in Int, x <= b, b < x + RingNodes
  PROVE  LastIn(RingNode(x), b) = x /\ RingNode(x) \in 0 .. RingNodes - 1
<1> DEFINE q == x \div RingNodes
           r == x % RingNodes
<1>1. RingNodes \in Nat \ {0}
  BY ExtractionAssumption
<1>2. x = RingNodes * q + r /\ r \in 0 .. RingNodes - 1 /\ q \in Int
  BY <1>1
<1> HIDE DEF q, r
<1>3. b - r = RingNodes * q + (b - x) /\ b - x \in 0 .. RingNodes - 1 /\ b - r \in Int
  BY <1>1, <1>2
<1>4. (b - r) % RingNodes = b - x
  BY <1>1, <1>2, <1>3, OneDivision
<1> QED
  BY <1>2, <1>4 DEF LastIn, RingNode, r

\* Back along the ring is back along the buffers.
LEMMA BackBuffers ==
  ASSUME NEW x \in Int, NEW k \in Int
  PROVE  Back(RingNode(x), k) = RingNode(x - k)
<1> DEFINE q == x \div RingNodes
           r == x % RingNodes
           p == (x - k) \div RingNodes
           s == (x - k) % RingNodes
<1>1. RingNodes \in Nat \ {0}
  BY ExtractionAssumption
<1>2. x = RingNodes * q + r /\ r \in 0 .. RingNodes - 1 /\ q \in Int
  BY <1>1
<1>3. x - k = RingNodes * p + s /\ s \in 0 .. RingNodes - 1 /\ p \in Int
  <2>1. x - k \in Int
    OBVIOUS
  <2> QED
    BY <2>1, <1>1
<1> HIDE DEF q, r, p, s
<1>4. r - k = RingNodes * (p - q) + s
  BY <1>1, <1>2, <1>3
<1>5. (r - k) % RingNodes = s
  BY <1>1, <1>2, <1>3, <1>4, OneDivision
<1> QED
  BY <1>5 DEF Back, RingNode, r, s

\* So is the next node (CopyPart1).
LEMMA NextRingNode ==
  ASSUME NEW x \in Int
  PROVE  RingNode(RingNode(x) + 1) = RingNode(x + 1)
<1>1. Back(RingNode(x), -1) = RingNode(x - (-1))
  BY BackBuffers
<1>2. RingNode(x) \in Int
  BY ExtractionAssumption DEF RingNode
<1>3. RingNode(x) - (-1) = RingNode(x) + 1 /\ x - (-1) = x + 1
  BY <1>2
<1> QED
  BY <1>1, <1>3 DEF Back, RingNode

\* The first sample of a snapshot is in the buffer of the f0 interrupt or in
\* the one before.
LEMMA StartNear ==
  ASSUME ExtractionNumbers, frequencyChannel \in FrequencyChannels,
         NEW time \in Int, NEW b \in Int, During(time, b)
  PROVE  /\ BufferTicks \in Nat \ {0} /\ Ticks \in Nat \ {0} /\ Start(time) \in Nat
         /\ StartBuffer(time) \in Nat
         /\ StartBuffer(time) * BufferTicks <= Start(time)
         /\ Start(time) < StartBuffer(time) * BufferTicks + BufferTicks
         /\ b - 1 <= StartBuffer(time) /\ StartBuffer(time) <= b
<1> DEFINE B == BufferTicks
           S == Start(time)
           s == S \div B
<1>1. /\ B \in Nat \ {0} /\ Ticks \in Nat \ {0}
      /\ Ahead(frequencyChannel) \in Nat /\ Ahead(frequencyChannel) <= B
      /\ Ahead(frequencyChannel) <= FirstF0
      /\ F0Ticks \in Nat /\ DeltaF0 \in Nat /\ DeltaT[frequencyChannel] \in Nat /\ FirstF0 \in Nat
  <2>1. Samples \in Nat \ {0} /\ Ticks \in Nat \ {0}
    BY ExtractionAssumption DEF Ticks
  <2>2. Samples * Ticks \in Nat \ {0}
    BY <2>1
  <2> QED
    BY <2>1, <2>2 DEF ExtractionNumbers, TicksOf, BufferTicks, Ticks, Ahead
<1>2. S = time + F0Ticks - Ahead(frequencyChannel)
  BY <1>1 DEF Start, Ahead
<1>3. b * B <= time + F0Ticks /\ time + F0Ticks < (b + 1) * B /\ time + F0Ticks >= FirstF0
  BY DEF During
<1>4. (b + 1) * B = b * B + B /\ (b - 1) * B = b * B - B /\ b * B \in Int
  <2> HIDE DEF B
  <2> QED
    BY <1>1
<1>5. S \in Nat
  <2> HIDE DEF S, B
  <2> QED
    BY <1>1, <1>2, <1>3
<1>6. s \in Nat /\ S = B * s + (S % B) /\ S % B \in 0 .. B - 1
  <2> HIDE DEF S, B
  <2> QED
    BY <1>1, <1>5
<1> HIDE DEF s, S, B
<1>7. B * s = s * B /\ s * B \in Nat
  BY <1>1, <1>6
<1>8. s * B <= S /\ S < s * B + B
  BY <1>1, <1>5, <1>6, <1>7
<1>9. S < b * B + B /\ S >= b * B - B
  BY <1>1, <1>2, <1>3, <1>4
<1>10. s <= b
  <2> SUFFICES ASSUME s >= b + 1 PROVE FALSE
    BY <1>6
  <2>1. s * B >= (b + 1) * B
    BY <1>1, <1>6
  <2> QED
    BY <2>1, <1>1, <1>4, <1>5, <1>7, <1>8, <1>9
<1>11. s >= b - 1
  <2> SUFFICES ASSUME s <= b - 2 PROVE FALSE
    BY <1>6
  <2>1. s * B <= (b - 2) * B /\ (b - 2) * B = b * B - 2 * B
    BY <1>1, <1>6
  <2> QED
    BY <2>1, <1>1, <1>4, <1>5, <1>7, <1>8, <1>9
<1> QED
  BY <1>1, <1>5, <1>6, <1>8, <1>10, <1>11 DEF s, S, B, StartBuffer

\* The search stops at the buffer of the first sample: the ring still holds it
\* and those after it, and their dates are on the same clock.
LEMMA SearchFinds ==
  ASSUME ExtractionNumbers, CutTypes, AskedInTime, cut.at = "search", SameClock
  PROVE  LET s == StartBuffer(cut.asked)
             found == FindNode(NodeToSend, AcquisitionTimeF0 + DeltaF0 - DeltaT[frequencyChannel]) IN
         found.node = RingNode(s) /\ found.date = s * BufferTicks + clockShift
<1> DEFINE s == StartBuffer(cut.asked)
           B == BufferTicks
           acq == AcquisitionTimeF0 + DeltaF0 - DeltaT[frequencyChannel]
           n == IF frequencyChannel = "F1" THEN written - 1 - cut.late ELSE written - 1
           k0 == n - s
           before == {k \in 0 .. RingNodes - 1 : dates[Back(RingNode(n), k)] <= acq}
<1>1. /\ cut.late \in Nat /\ cut.late <= CutLag /\ cut.asked \in Int /\ written \in Nat
      /\ During(cut.asked, written - 2 - cut.late) /\ frequencyChannel \in FrequencyChannels
      /\ cut.node = RingNode(written - 1 - cut.late) /\ CutLag \in Nat /\ RingNodes >= CutLag + 4
      /\ RingNodes \in Nat /\ clockShift \in Int
  BY ExtractionAssumption DEF CutTypes, AskedInTime, Cutting, ExtractionNumbers
<1>2. /\ B \in Nat \ {0} /\ Start(cut.asked) \in Nat /\ s \in Nat
      /\ s * B <= Start(cut.asked) /\ Start(cut.asked) < s * B + B
      /\ written - 3 - cut.late <= s /\ s <= written - 2 - cut.late
  BY <1>1, StartNear
<1>3. NodeToSend = RingNode(n)
  BY <1>1 DEF NodeToSend
<1>4. acq = Start(cut.asked) + clockShift
  <2>1. AcquisitionTimeF0 = cut.asked + clockShift
    BY DEF SameClock
  <2>2. DeltaF0 \in Nat /\ DeltaT[frequencyChannel] \in Nat
    BY <1>1 DEF ExtractionNumbers
  <2> QED
    BY <2>1, <2>2, <1>1 DEF Start
<1>5. n \in Int /\ n <= written - 1 /\ k0 \in 0 .. RingNodes - 1 /\ n - k0 = s /\ k0 \in Nat
      /\ written - 1 < s + RingNodes
  <2> HIDE DEF s
  <2> QED
    BY <1>1, <1>2
<1>6. ASSUME NEW k \in 0 .. k0
      PROVE  dates[Back(RingNode(n), k)] = (n - k) * B + clockShift
  <2> HIDE DEF n, s
  <2>1. k \in Int /\ n - k \in Int /\ n - k <= written - 1 /\ written - 1 < n - k + RingNodes /\ n - k >= 0
    BY <1>1, <1>2, <1>5
  <2>2. LastIn(RingNode(n - k), written - 1) = n - k /\ RingNode(n - k) \in 0 .. RingNodes - 1
    BY <2>1, <1>1, LastInRing
  <2>3. Back(RingNode(n), k) = RingNode(n - k)
    BY <2>1, <1>5, BackBuffers
  <2>4. DOMAIN dates = 0 .. RingNodes - 1
    BY DEF CutTypes
  <2> QED
    BY <2>1, <2>2, <2>3, <2>4 DEF SameClock
<1>7. k0 \in before
  <2>1. dates[Back(RingNode(n), k0)] = s * B + clockShift
    BY <1>5, <1>6
  <2>2. s * B \in Nat
    BY <1>2
  <2> HIDE DEF n, s, acq, k0, B
  <2> QED
    BY <2>1, <2>2, <1>1, <1>2, <1>4, <1>5
<1>8. ASSUME NEW k \in before
      PROVE  k >= k0
  <2> SUFFICES ASSUME k < k0 PROVE FALSE
    BY <1>5
  <2> HIDE DEF n, s, acq, k0, B
  <2>1. k \in 0 .. k0 /\ k \in Nat /\ n - k >= s + 1
    BY <1>5
  <2>2. (n - k) * B >= (s + 1) * B /\ (s + 1) * B = s * B + B /\ (n - k) * B \in Int /\ s * B \in Int
    BY <2>1, <1>2, <1>5
  <2>3. dates[Back(RingNode(n), k)] > acq
    BY <2>1, <2>2, <1>1, <1>2, <1>4, <1>6
  <2>4. dates[Back(RingNode(n), k)] <= acq /\ dates[Back(RingNode(n), k)] \in Int /\ acq \in Int
    BY <2>1, <2>2, <1>1, <1>2, <1>4, <1>6
  <2> QED
    BY <2>3, <2>4
<1>9. (CHOOSE k \in before : \A l \in before : k <= l) = k0
  <2> DEFINE c == CHOOSE k \in before : \A l \in before : k <= l
  <2>1. c \in before /\ \A l \in before : c <= l
    <3> HIDE DEF before, k0
    <3> QED
      BY <1>7, <1>8
  <2>2. c <= k0 /\ c >= k0 /\ c \in Int
    BY <2>1, <1>7, <1>8
  <2> HIDE DEF c, before, k0
  <2> QED
    BY <2>2, <1>5 DEF c
<1>10. Back(RingNode(n), k0) = RingNode(s)
  <2> HIDE DEF n, s
  <2>1. k0 \in Int /\ n - k0 = s
    BY <1>5
  <2> HIDE DEF k0
  <2> QED
    BY <2>1, <1>5, BackBuffers
<1>11. dates[RingNode(s)] = s * B + clockShift
  BY <1>5, <1>6, <1>10
<1>12. FindNode(RingNode(n), acq) = [node |-> RingNode(s), date |-> dates[RingNode(s)]]
  <2>1. before # {}
    BY <1>7
  <2>2. FindNode(RingNode(n), acq) = LET k == CHOOSE k \in before : \A l \in before : k <= l IN
          [node |-> Back(RingNode(n), k), date |-> dates[Back(RingNode(n), k)]]
    BY <2>1 DEF FindNode
  <2> HIDE DEF before, k0, s, n, acq
  <2> QED
    BY <2>2, <1>9, <1>10
<1> QED
  BY <1>3, <1>11, <1>12
-----------------------------------------------------------------------------
(* The invariant *)

\* A buffer lasts.
LEMMA BufferTicksPositive == ASSUME CutTypes PROVE BufferTicks \in Nat \ {0} /\ Ticks \in Nat \ {0}
<1>1. Samples \in Nat \ {0} /\ Ticks \in Nat \ {0}
  BY ExtractionAssumption DEF Ticks, CutTypes
<1>2. Samples * Ticks \in Nat \ {0}
  BY <1>1
<1> QED
  BY <1>1, <1>2 DEF BufferTicks

LEMMA CutInitInv == ExtractionNumbers /\ CutInit => CutInv
<1> SUFFICES ASSUME ExtractionNumbers, CutInit
             PROVE  CutInv
  OBVIOUS
<1>1. frequencyChannel \in FrequencyChannels /\ FirstF0 \in Nat /\ Period[frequencyChannel] \in Nat
  BY DEF CutInit, ExtractionNumbers
<1>2. BufferTicks \in Nat \ {0}
  <2>1. Samples \in Nat \ {0} /\ Ticks \in Nat \ {0}
    BY <1>1, ExtractionAssumption DEF Ticks
  <2>2. Samples * Ticks \in Nat \ {0}
    BY <2>1
  <2> QED
    BY <2>2 DEF BufferTicks
<1>3. written \in Nat /\ started \in Int
  <2>1. FirstF0 \div BufferTicks \in Nat
    BY <1>1, <1>2
  <2>2. written \in Nat
    BY <2>1 DEF CutInit
  <2> QED
    BY <2>2, <1>2 DEF CutInit
<1>4. dates \in [0 .. RingNodes - 1 -> Int]
  <2>1. PICK unfilled \in Unfilled :
          dates = [n \in 0 .. RingNodes - 1 |->
                     LET b == LastIn(n, written - 1) IN IF b < 0 THEN unfilled ELSE b * BufferTicks]
    BY DEF CutInit
  <2>2. ASSUME NEW n \in 0 .. RingNodes - 1
        PROVE  LastIn(n, written - 1) \in Int
    BY <1>3, ExtractionAssumption DEF LastIn
  <2>3. ASSUME NEW n \in 0 .. RingNodes - 1
        PROVE  LastIn(n, written - 1) * BufferTicks \in Int
    BY <2>2, <1>2
  <2>4. unfilled \in Int
    BY DEF Unfilled
  <2> QED
    BY <2>1, <2>3, <2>4
<1>5. CutTypes
  <2>1. swf0 \in [time : Int, date : Int]
    BY <1>1 DEF CutInit
  <2>2. /\ DOMAIN cut = CutFields /\ cut.at = "idle" /\ cut.late \in Nat /\ cut.asked \in Int
        /\ cut.sameClock \in BOOLEAN
    BY DEF CutInit, CutFields, NoCut
  <2>3. swf0Ready \in BOOLEAN /\ extractSWF \in BOOLEAN
    <3>1. swf0Ready = FALSE /\ extractSWF = FALSE
      BY DEF CutInit
    <3> QED
      BY <3>1, Zenon
  <2>4. clockShift \in Int /\ asked \in Int
    BY DEF CutInit
  <2> QED
    BY <1>1, <1>3, <1>4, <2>1, <2>2, <2>3, <2>4 DEF CutTypes
<1>6. AskedInTime /\ SearchDone
  BY DEF CutInit, NoCut, AskedInTime, SearchDone, Cutting
<1> QED
  BY <1>5, <1>6 DEF CutInv

LEMMA CutTypesNext ==
  ASSUME ExtractionNumbers, CutInv, [CutNext]_cutVars
  PROVE  CutTypes'
<1> USE DEF CutInv, CutTypes
<1>1. BufferTicks \in Nat \ {0}
  BY BufferTicksPositive
<1>2. CASE BufferIsFull
  <2>1. written' \in Nat /\ started' \in Int
    <3>1. written' \in Nat /\ started' = written' * BufferTicks + clockShift
      BY <1>2 DEF BufferIsFull
    <3> QED
      BY <3>1, <1>1
  <2>2. /\ DOMAIN cut' = CutFields /\ cut'.at \in {"idle", "search", "part1", "part2", "done"}
        /\ cut'.late \in Nat /\ cut'.asked \in Int /\ cut'.sameClock \in BOOLEAN
    <3>1. CASE extractSWF
      BY <1>2, <3>1 DEF BufferIsFull, NoCut, CutFields
    <3>2. CASE ~extractSWF /\ Cutting
      BY <1>2, <3>2 DEF BufferIsFull, CutFields
    <3>3. CASE ~extractSWF /\ ~Cutting
      BY <1>2, <3>3 DEF BufferIsFull
    <3> QED
      BY <3>1, <3>2, <3>3
  <2> QED
    BY <1>2, <2>1, <2>2 DEF BufferIsFull
<1>3. CASE F0Snapshot
  <2>1. PICK p \in Phases : swf0' = [time |-> (written * BufferTicks + p) - F0Ticks,
                                     date |-> ((written * BufferTicks + p) - F0Ticks) + clockShift]
    BY <1>3 DEF F0Snapshot
  <2>2. written * BufferTicks \in Nat /\ p \in Nat /\ F0Ticks \in Nat
    BY <1>1 DEF ExtractionNumbers
  <2>3. swf0' \in [time : Int, date : Int]
    BY <2>1, <2>2
  <2> QED
    BY <1>3, <2>3 DEF F0Snapshot
<1>4. CASE TimeIsSet
  BY <1>4 DEF TimeIsSet, ExtractionNumbers
<1>5. CASE Search
  <2>1. SameClock \in BOOLEAN
    BY DEF SameClock
  <2>2. /\ DOMAIN cut' = CutFields /\ cut'.at = "part1"
        /\ cut'.late = cut.late /\ cut'.asked = cut.asked /\ cut'.sameClock = SameClock
    BY <1>5 DEF Search, CutFields
  <2> QED
    BY <1>5, <2>1, <2>2 DEF Search
<1>6. CASE CopyPart1
  BY <1>6 DEF CopyPart1, CutFields
<1>7. CASE CopyPart2
  BY <1>7 DEF CopyPart2, CutFields
<1>8. CASE UNCHANGED cutVars
  BY <1>8 DEF cutVars
<1> QED
  BY <1>2, <1>3, <1>4, <1>5, <1>6, <1>7, <1>8 DEF CutNext

\* An f0 snapshot waits for one buffer, and for another to be extracted for; then
\* the buffers filled meanwhile are counted.
LEMMA AskedInTimeNext ==
  ASSUME ExtractionNumbers, CutInv, [CutNext]_cutVars
  PROVE  AskedInTime'
<1> USE DEF CutInv, CutTypes
<1>1. BufferTicks \in Nat \ {0} /\ F0Ticks \in Nat /\ CutLag \in Nat
  BY BufferTicksPositive DEF ExtractionNumbers
<1>2. frequencyChannel' = frequencyChannel
  BY DEF CutNext, BufferIsFull, F0Snapshot, TimeIsSet, Search, CopyPart1, CopyPart2, cutVars
<1>3. ASSUME NEW time, NEW b
      PROVE  During(time, b) <=> /\ b * BufferTicks' <= time + F0Ticks /\ time + F0Ticks < (b + 1) * BufferTicks'
                                 /\ time + F0Ticks >= FirstF0
  BY <1>2 DEF During, BufferTicks, Ticks
<1>4. CASE BufferIsFull
  <2>1. written' = written + 1 /\ written' - 1 = written
    BY <1>4 DEF BufferIsFull
  <2>2. (extractSWF => During(asked, written - 1))'
    BY <1>4, <2>1, <1>3 DEF BufferIsFull, AskedInTime, During
  <2>3. CASE extractSWF
    <3>1. /\ cut'.late = 0 /\ cut'.asked = asked /\ cut'.at = "search"
          /\ cut'.node = RingNode(written)
      BY <1>4, <2>3 DEF BufferIsFull, NoCut
    <3>2. written' - 2 - cut'.late = written - 1 /\ written' - 1 - cut'.late = written
      BY <2>1, <3>1
    <3> QED
      BY <1>1, <1>3, <1>4, <2>2, <2>3, <3>1, <3>2, SMTT(30)
         DEF BufferIsFull, AskedInTime, During, Cutting, RingNode
  <2>4. CASE ~extractSWF /\ Cutting
    <3>1. /\ cut'.late = cut.late + 1 /\ cut'.asked = cut.asked /\ cut'.at = cut.at
          /\ cut'.node = cut.node /\ cut.late < CutLag
      BY <1>4, <2>4 DEF BufferIsFull, CutFields
    <3>2. written' - 2 - cut'.late = written - 2 - cut.late /\ written' - 1 - cut'.late = written - 1 - cut.late
      <4>1. written \in Int /\ cut.late \in Int
        OBVIOUS
      <4> HIDE DEF CutInv, CutTypes
      <4> QED
        BY <2>1, <3>1, <4>1
    <3>3. cut'.late <= CutLag
      BY <1>1, <3>1
    <3>4. During(cut.asked, written - 2 - cut.late)'
      BY <1>3, <2>4, <3>1, <3>2 DEF AskedInTime, During
    <3>5. cut'.at = "search" => cut'.node = RingNode(written' - 1 - cut'.late)
      BY <3>1, <3>2 DEF AskedInTime
    <3>6. ~swf0Ready'
      BY <1>4 DEF BufferIsFull
    <3> QED
      BY <2>2, <3>3, <3>4, <3>5, <3>6 DEF AskedInTime, RingNode
  <2>5. CASE ~extractSWF /\ ~Cutting
    BY <1>4, <2>2, <2>5 DEF BufferIsFull, AskedInTime, Cutting
  <2> QED
    BY <2>3, <2>4, <2>5
<1>5. CASE F0Snapshot
  <2>1. PICK p \in Phases : /\ p < BufferTicks /\ written * BufferTicks + p >= FirstF0
                            /\ swf0'.time = (written * BufferTicks + p) - F0Ticks
    BY <1>5 DEF F0Snapshot
  <2>2. p \in Nat /\ written * BufferTicks \in Nat /\ (written + 1) * BufferTicks = written * BufferTicks + BufferTicks
    BY <1>1 DEF ExtractionNumbers
  <2>3. swf0'.time + F0Ticks = written * BufferTicks + p
    BY <1>1, <2>1, <2>2
  <2>4. During(swf0'.time, written)
    BY <1>1, <2>1, <2>2, <2>3 DEF During
  <2> QED
    BY <1>3, <1>5, <2>4 DEF F0Snapshot, AskedInTime, During, Cutting, RingNode
<1>6. CASE TimeIsSet
  BY <1>3, <1>6 DEF TimeIsSet, AskedInTime, During, Cutting, RingNode
<1>7. CASE Search
  <2>1. cut'.at = "part1" /\ cut'.late = cut.late /\ cut'.asked = cut.asked /\ cut.at = "search"
    BY <1>7 DEF Search, CutFields
  <2> QED
    BY <1>3, <1>7, <2>1 DEF Search, AskedInTime, During, Cutting
<1>8. CASE CopyPart1
  <2>1. cut'.at = "part2" /\ cut'.late = cut.late /\ cut'.asked = cut.asked /\ cut.at = "part1"
    BY <1>8 DEF CopyPart1, CutFields
  <2> QED
    BY <1>3, <1>8, <2>1 DEF CopyPart1, AskedInTime, During, Cutting
<1>9. CASE CopyPart2
  <2>1. cut'.at = "done"
    BY <1>9 DEF CopyPart2, CutFields
  <2> QED
    BY <1>3, <1>9, <2>1 DEF CopyPart2, AskedInTime, During, Cutting
<1>10. CASE UNCHANGED cutVars
  BY <1>3, <1>10 DEF cutVars, AskedInTime, During, Cutting, RingNode
<1> QED
  BY <1>4, <1>5, <1>6, <1>7, <1>8, <1>9, <1>10 DEF CutNext

\* The search finds the first sample, and the copies take the buffers before
\* the picker comes round to them.
LEMMA FoundNext ==
  ASSUME ExtractionNumbers, CutInv, [CutNext]_cutVars
  PROVE  SearchDone'
<1> USE DEF CutInv, CutTypes
<1> DEFINE s == StartBuffer(cut.asked)
           B == BufferTicks
           rest == Start(cut.asked) - s * B
           offset == rest \div Ticks
<1>1. B \in Nat \ {0} /\ Ticks \in Nat \ {0} /\ B = Samples * Ticks /\ Samples \in Nat \ {0}
  BY BufferTicksPositive, ExtractionAssumption DEF BufferTicks
<1>2. frequencyChannel' = frequencyChannel
  BY DEF CutNext, BufferIsFull, F0Snapshot, TimeIsSet, Search, CopyPart1, CopyPart2, cutVars
<1>3. ASSUME cut'.asked = cut.asked
      PROVE  /\ StartBuffer(cut.asked)' = s /\ Start(cut.asked)' = Start(cut.asked)
             /\ BufferTicks' = B /\ Ticks' = Ticks
  BY <1>2, <1>3 DEF StartBuffer, Start, BufferTicks, Ticks
<1>4. ASSUME Cutting
      PROVE  /\ Start(cut.asked) \in Nat /\ s \in Nat /\ s * B <= Start(cut.asked)
             /\ Start(cut.asked) < s * B + B
             /\ written - 3 - cut.late <= s /\ s <= written - 2 - cut.late
  <2>1. During(cut.asked, written - 2 - cut.late)
    BY <1>4 DEF AskedInTime
  <2> QED
    BY <2>1, StartNear
<1>5. ASSUME Cutting
      PROVE  /\ s <= written /\ written < s + RingNodes
             /\ s + 1 < written /\ written < s + 1 + RingNodes
  <2>1. RingNodes \in Nat /\ RingNodes >= CutLag + 4 /\ CutLag \in Nat /\ cut.late <= CutLag
    BY <1>5, ExtractionAssumption DEF ExtractionNumbers, AskedInTime
  <2>2. written - 3 - cut.late <= s /\ s <= written - 2 - cut.late /\ s \in Nat
    BY <1>4, <1>5
  <2>3. written \in Nat /\ cut.late \in Nat
    OBVIOUS
  <2> HIDE DEF s, CutInv
  <2> QED
    BY <2>1, <2>2, <2>3
<1>6. CASE BufferIsFull
  <2>1. CASE extractSWF
    BY <1>6, <2>1 DEF BufferIsFull, SearchDone, NoCut
  <2>2. CASE ~extractSWF
    <3>1. /\ \A x \in CutFields : x # "late" => cut'[x] = cut[x]
          /\ cut' = cut \/ Cutting
      BY <1>6, <2>2 DEF BufferIsFull, CutFields
    <3>2. /\ cut'.at = cut.at /\ cut'.asked = cut.asked /\ cut'.sameClock = cut.sameClock /\ cut'.node = cut.node
          /\ cut'.offset = cut.offset /\ cut'.part1 = cut.part1 /\ cut'.date = cut.date
          /\ cut'.clock = cut.clock /\ cut'.first = cut.first /\ cut'.second = cut.second
      BY <3>1 DEF CutFields
    <3>3. written' = written + 1
      BY <1>6 DEF BufferIsFull
    <3>4. s + 1 < written => s + 1 < written'
      <4>1. CASE s \in Int
        <5> HIDE DEF s
        <5> QED
          BY <3>3, <4>1
      <4>2. Start(cut.asked) \in Int
        <5>1. DeltaF0 \in Int /\ DeltaT[frequencyChannel] \in Int
          BY DEF ExtractionNumbers
        <5> QED
          BY <5>1 DEF Start
      <4>3. s \in Int
        BY <4>2, <1>1 DEF StartBuffer
      <4> QED
        BY <4>1, <4>3
    <3> HIDE DEF s, offset, B
    <3> QED
      BY <3>2, <3>4, <1>3 DEF SearchDone, RingNode, s, offset, B
  <2> QED
    BY <2>1, <2>2
<1>7. CASE F0Snapshot
  BY <1>3, <1>7 DEF F0Snapshot, SearchDone, RingNode
<1>8. CASE TimeIsSet
  BY <1>3, <1>8 DEF TimeIsSet, SearchDone, RingNode
<1>9. CASE Search
  <2> DEFINE found == FindNode(NodeToSend, AcquisitionTimeF0 + DeltaF0 - DeltaT[frequencyChannel])
             sampleOffset == ((AcquisitionTimeF0 + DeltaF0 - DeltaT[frequencyChannel]) - found.date) \div Ticks
  <2>1. /\ cut.at = "search" /\ Cutting
        /\ cut'.at = "part1" /\ cut'.asked = cut.asked /\ cut'.sameClock = SameClock
        /\ cut'.node = found.node /\ cut'.offset = sampleOffset
        /\ cut'.part1 = IF sampleOffset \in 0 .. Samples THEN Samples - sampleOffset ELSE 0
        /\ cut'.date = found.date + sampleOffset * Ticks /\ cut'.clock = clockShift
    BY <1>9 DEF Search, CutFields, Cutting
  <2> SUFFICES ASSUME SameClock PROVE SearchDone'
    BY <2>1 DEF SearchDone
  <2>2. found.node = RingNode(s) /\ found.date = s * B + clockShift
    BY <2>1, SearchFinds
  <2>3. AcquisitionTimeF0 + DeltaF0 - DeltaT[frequencyChannel] = Start(cut.asked) + clockShift
    <3>1. AcquisitionTimeF0 = cut.asked + clockShift
      BY DEF SameClock
    <3>2. DeltaF0 \in Nat /\ DeltaT[frequencyChannel] \in Nat
      BY DEF ExtractionNumbers
    <3> QED
      BY <3>1, <3>2 DEF Start
  <2>4. Start(cut.asked) \in Nat /\ s \in Nat /\ s * B \in Nat /\ rest \in 0 .. B - 1
    <3>1. /\ Start(cut.asked) \in Nat /\ s \in Nat /\ s * B <= Start(cut.asked)
          /\ Start(cut.asked) < s * B + B
      BY <1>4, <2>1
    <3> HIDE DEF s, B, CutInv
    <3>2. s * B \in Nat
      BY <1>1, <3>1
    <3> QED
      BY <1>1, <3>1, <3>2
  <2>5. sampleOffset = offset
    <3>1. (Start(cut.asked) + clockShift) - (s * B + clockShift) = rest
      <4> HIDE DEF s, B
      <4> QED
        BY <2>4
    <3> HIDE DEF found, rest
    <3> QED
      BY <2>2, <2>3, <3>1
  <2>6. offset \in 0 .. Samples - 1
    <3>1. offset \in Nat /\ rest = Ticks * offset + (rest % Ticks) /\ rest % Ticks \in 0 .. Ticks - 1
      <4>1. rest \in Nat /\ Ticks \in Nat \ {0}
        BY <1>1, <2>4
      <4> HIDE DEF rest
      <4> QED
        BY <4>1
    <3> HIDE DEF offset, rest
    <3>2. ASSUME offset >= Samples PROVE FALSE
      <4>1. Ticks * offset >= Ticks * Samples /\ Ticks * Samples = Samples * Ticks
        BY <1>1, <3>1, <3>2
      <4>2. rest \in Nat /\ rest < B /\ Samples * Ticks = B /\ B \in Nat
        BY <1>1, <2>4, <3>1
      <4>3. Ticks * offset \in Nat /\ rest >= Ticks * offset
        BY <1>1, <3>1
      <4> HIDE DEF B
      <4> QED
        BY <4>1, <4>2, <4>3
    <3> QED
      BY <1>1, <3>1, <3>2
  <2>7. cut'.date = s * B + offset * Ticks + clockShift
    <3>1. offset * Ticks \in Int
      BY <1>1, <2>6
    <3>2. cut'.date = s * B + clockShift + offset * Ticks
      <4> HIDE DEF found, sampleOffset, offset, s, B
      <4> QED
        BY <2>1, <2>2, <2>5
    <3> HIDE DEF offset, s, B
    <3> QED
      BY <2>4, <3>1, <3>2
  <2>8. cut'.part1 = Samples - offset
    <3> HIDE DEF offset, sampleOffset
    <3> QED
      BY <1>1, <2>1, <2>5, <2>6
  <2>9. cut'.offset = offset /\ cut'.node = RingNode(s)
    BY <2>1, <2>2, <2>5
  <2> HIDE DEF s, B, offset, found, sampleOffset
  <2> QED
    BY <1>3, <2>1, <2>4, <2>6, <2>7, <2>8, <2>9 DEF SearchDone, RingNode, s, B, offset, rest
<1>10. CASE CopyPart1
  <2>1. /\ cut.at = "part1" /\ Cutting
        /\ cut'.at = "part2" /\ cut'.asked = cut.asked /\ cut'.sameClock = cut.sameClock
        /\ cut'.offset = cut.offset /\ cut'.part1 = cut.part1 /\ cut'.date = cut.date
        /\ cut'.clock = cut.clock
        /\ cut'.first = LastIn(cut.node, written) /\ cut'.node = RingNode(cut.node + 1)
    BY <1>10 DEF CopyPart1, CutFields, Cutting
  <2> SUFFICES ASSUME cut.sameClock PROVE SearchDone'
    BY <2>1 DEF SearchDone
  <2>2. cut.node = RingNode(s) /\ s \in Nat
    BY <2>1 DEF SearchDone
  <2>3. cut'.first = s /\ cut'.node = RingNode(s + 1)
    <3> HIDE DEF s
    <3> QED
      BY <1>5, <2>1, <2>2, LastInRing, NextRingNode
  <2> HIDE DEF s, B, offset
  <2> QED
    BY <1>3, <2>1, <2>3 DEF SearchDone, RingNode, s, B, offset, rest
<1>11. CASE CopyPart2
  <2>1. /\ cut.at = "part2" /\ Cutting
        /\ cut'.at = "done" /\ cut'.asked = cut.asked /\ cut'.sameClock = cut.sameClock
        /\ cut'.offset = cut.offset /\ cut'.part1 = cut.part1 /\ cut'.date = cut.date
        /\ cut'.clock = cut.clock /\ cut'.first = cut.first
        /\ cut'.second = LastIn(cut.node, written) /\ written' = written
    BY <1>11 DEF CopyPart2, CutFields, Cutting
  <2> SUFFICES ASSUME cut.sameClock PROVE SearchDone'
    BY <2>1 DEF SearchDone
  <2>2. cut.node = RingNode(s + 1) /\ s \in Nat
    BY <2>1 DEF SearchDone
  <2>3. cut'.second = s + 1 /\ s + 1 < written'
    <3> HIDE DEF s
    <3>1. s + 1 <= written /\ s + 1 \in Int /\ written < s + 1 + RingNodes
      BY <1>5, <2>1, <2>2
    <3>2. LastIn(RingNode(s + 1), written) = s + 1
      BY <3>1, LastInRing
    <3> QED
      BY <3>2, <1>5, <2>1, <2>2
  <2> HIDE DEF s, B, offset
  <2> QED
    BY <1>3, <2>1, <2>3 DEF SearchDone, RingNode, s, B, offset, rest
<1>12. CASE UNCHANGED cutVars
  BY <1>3, <1>12 DEF cutVars, SearchDone, RingNode
<1> QED
  BY <1>6, <1>7, <1>8, <1>9, <1>10, <1>11, <1>12 DEF CutNext

LEMMA CutInvNext == ExtractionNumbers /\ CutInv /\ [CutNext]_cutVars => CutInv'
BY CutTypesNext, AskedInTimeNext, FoundNext DEF CutInv

\* What is found is the snapshot asked for.
LEMMA FoundIsCut == ExtractionNumbers /\ CutInv => SnapshotCut
<1> SUFFICES ASSUME ExtractionNumbers, CutInv, cut.at = "done", cut.sameClock
             PROVE  LET start == cut.asked + DeltaF0 - DeltaT[frequencyChannel] IN
                    /\ cut.part1 \in 1 .. Samples
                    /\ cut.part1 < Samples => cut.second = cut.first + 1
                    /\ (IF cut.part1 < Samples THEN cut.second ELSE cut.first) < written
                    /\ FirstSample = start \div Ticks
                    /\ cut.date = FirstSample * Ticks + cut.clock
  BY DEF SnapshotCut
<1> DEFINE start == Start(cut.asked)
           s == StartBuffer(cut.asked)
           rest == start - s * BufferTicks
           offset == rest \div Ticks
<1>1. BufferTicks \in Nat \ {0} /\ Ticks \in Nat \ {0} /\ Samples \in Nat \ {0} /\ written \in Nat
  BY BufferTicksPositive, ExtractionAssumption DEF CutInv, CutTypes
<1>2. /\ s \in Nat /\ cut.offset = offset /\ offset \in 0 .. Samples - 1 /\ cut.part1 = Samples - offset
      /\ cut.date = s * BufferTicks + offset * Ticks + cut.clock
      /\ cut.first = s /\ cut.second = s + 1 /\ s + 1 < written
  BY DEF CutInv, SearchDone
<1>3. cut.part1 \in 1 .. Samples
  <2> HIDE DEF offset
  <2> QED
    BY <1>1, <1>2
<1>4. FirstSample = s * Samples + offset
  <2> HIDE DEF offset, s
  <2> QED
    BY <1>2, <1>3 DEF FirstSample
<1>5. (s * Samples + offset) * Ticks = s * BufferTicks + offset * Ticks
  <2>1. offset \in Int
    BY <1>2
  <2>2. s \in Int
    BY <1>2
  <2>3. BufferTicks = Samples * Ticks
    BY DEF BufferTicks
  <2> HIDE DEF offset, s
  <2> QED
    BY <1>1, <2>1, <2>2, <2>3
<1>6. rest = Ticks * offset + (rest % Ticks) /\ rest % Ticks \in 0 .. Ticks - 1 /\ rest \in Int
  <2>1. start \in Int
    <3>1. DeltaF0 \in Nat /\ DeltaT[frequencyChannel] \in Nat /\ cut.asked \in Int
      BY DEF ExtractionNumbers, CutInv, CutTypes
    <3> QED
      BY <3>1 DEF Start
  <2>2. s * BufferTicks \in Int
    BY <1>1, <1>2
  <2>3. rest \in Int
    <3> HIDE DEF start, s
    <3> QED
      BY <2>1, <2>2
  <2> HIDE DEF rest
  <2> QED
    BY <2>3, <1>1
<1>7. start = Ticks * (s * Samples + offset) + (rest % Ticks) /\ start \in Int
  <2>1. start = s * BufferTicks + rest /\ start \in Int
    <3>1. DeltaF0 \in Nat /\ DeltaT[frequencyChannel] \in Nat /\ cut.asked \in Int
      BY DEF ExtractionNumbers, CutInv, CutTypes
    <3>2. start \in Int
      BY <3>1 DEF Start
    <3>3. s * BufferTicks \in Int
      BY <1>1, <1>2
    <3> HIDE DEF start, s
    <3> QED
      BY <3>2, <3>3
  <2>2. offset \in Int /\ s \in Int
    BY <1>2
  <2> HIDE DEF rest, offset, s, start
  <2>3. Ticks * offset = offset * Ticks /\ (s * Samples + offset) \in Int
    BY <1>1, <2>2
  <2>4. Ticks * (s * Samples + offset) = (s * Samples + offset) * Ticks
    BY <1>1, <2>3
  <2> QED
    BY <1>1, <1>5, <1>6, <2>1, <2>2, <2>3, <2>4
<1>8. start \div Ticks = s * Samples + offset
  <2>1. s * Samples + offset \in Int
    <3>1. offset \in Int /\ s \in Int
      BY <1>2
    <3> HIDE DEF offset, s
    <3> QED
      BY <1>1, <3>1
  <2> HIDE DEF rest, offset, s, start
  <2> QED
    BY <1>1, <1>6, <1>7, <2>1, OneDivision
<1>9. cut.date = FirstSample * Ticks + cut.clock
  BY <1>2, <1>4, <1>5
<1>10. start = cut.asked + DeltaF0 - DeltaT[frequencyChannel]
  BY DEF Start
<1>11. /\ cut.part1 < Samples => cut.second = cut.first + 1
       /\ (IF cut.part1 < Samples THEN cut.second ELSE cut.first) < written
  <2> HIDE DEF s, offset
  <2> QED
    BY <1>1, <1>2
<1> HIDE DEF start, s, offset
<1> QED
  BY <1>3, <1>4, <1>8, <1>9, <1>10, <1>11

\* For all numbers such as those of the program, at f1 and f2, wherever the f0
\* snapshot falls in a buffer and however late the extraction is within CutLag:
\* the samples extracted are consecutive, not overwritten, dated and the right
\* ones, if the dates in the ring are those of one clock
\* (build_snapshot_from_ring).
THEOREM ExtractionRight == ExtractionNumbers /\ CutSpec => []SnapshotCut
<1> SUFFICES ASSUME ExtractionNumbers PROVE CutSpec => []SnapshotCut
  OBVIOUS
<1>1. CutInit => CutInv
  BY CutInitInv
<1>2. CutInv /\ [CutNext]_cutVars => CutInv'
  BY CutInvNext
<1>3. CutInv => SnapshotCut
  BY FoundIsCut
<1> QED
  BY <1>1, <1>2, <1>3, PTL DEF CutSpec

-----------------------------------------------------------------------------
(* The clock *)

\* A second f0 snapshot comes after the extraction for the first one at f1.
LongF1Period ==
  "F1" \in FrequencyChannels => Period["F1"] >= (CutLag + 3) * TicksOf("F1")

\* As long as the clock has not been set, dates are real times, and SWBD reads
\* the date of the f0 snapshot that it extracts for.
ClockKept ==
  clockShift = 0 =>
    /\ started = written * BufferTicks
    /\ \A n \in 0 .. RingNodes - 1 :
         LastIn(n, written - 1) >= 0 => dates[n] = LastIn(n, written - 1) * BufferTicks
    /\ swf0Ready => swf0.date = swf0.time
    /\ extractSWF => acquisitionTimeF0 = asked
    /\ extractSWF /\ frequencyChannel = "F1" => swf0.time = asked /\ swf0.date = asked
    /\ cut.at = "search" => cut.acq = cut.asked
    /\ cut.at = "search" /\ frequencyChannel = "F1" => swf0.time = cut.asked /\ swf0.date = cut.asked

SameUnlessSet == cut.at \in {"part1", "part2", "done"} /\ cut.clock = 0 => cut.sameClock

ClockInv == CutInv /\ ClockKept /\ SameUnlessSet

\* The interrupt of a buffer changes the last buffer of its node only.
LEMMA LastInNext ==
  ASSUME NEW n \in 0 .. RingNodes - 1, NEW b \in Int
  PROVE  IF n = RingNode(b) THEN LastIn(n, b) = b ELSE LastIn(n, b) = LastIn(n, b - 1)
<1> DEFINE q == (b - n) \div RingNodes
           r == (b - n) % RingNodes
<1>1. RingNodes \in Nat \ {0} /\ n \in Int
  BY ExtractionAssumption
<1>2. b - n = RingNodes * q + r /\ r \in 0 .. RingNodes - 1 /\ q \in Int
  <2>1. b - n \in Int
    BY <1>1
  <2> QED
    BY <2>1, <1>1
<1> HIDE DEF q, r
<1>3. CASE r = 0
  <2>1. b = RingNodes * q + n
    BY <1>1, <1>2, <1>3
  <2>2. b % RingNodes = n
    BY <2>1, <1>1, <1>2, OneDivision
  <2> QED
    BY <2>2, <1>1, <1>3 DEF RingNode, LastIn, r
<1>4. CASE r # 0
  <2>1. (b - 1) - n = RingNodes * q + (r - 1) /\ r - 1 \in 0 .. RingNodes - 1 /\ (b - 1) - n \in Int
    BY <1>1, <1>2, <1>4
  <2>2. ((b - 1) - n) % RingNodes = r - 1
    BY <2>1, <1>1, <1>2, OneDivision
  <2>3. LastIn(n, b) = b - r /\ LastIn(n, b - 1) = (b - 1) - (r - 1)
    BY <2>2 DEF LastIn, r
  <2>4. n # RingNode(b)
    <3> SUFFICES ASSUME n = RingNode(b) PROVE FALSE
      OBVIOUS
    <3>1. b = RingNodes * (b \div RingNodes) + n /\ b \div RingNodes \in Int
      BY <1>1 DEF RingNode
    <3>2. b - n = RingNodes * (b \div RingNodes) + 0 /\ 0 \in 0 .. RingNodes - 1 /\ b - n \in Int
      BY <3>1, <1>1
    <3>3. (b - n) % RingNodes = 0
      <4> DEFINE a == b - n
                 d == b \div RingNodes
      <4>1. a \in Int /\ d \in Int /\ a = RingNodes * d + 0
        BY <3>1, <3>2
      <4> HIDE DEF a, d
      <4>2. a % RingNodes = 0
        BY <4>1, <3>2, <1>1, OneDivision
      <4> QED
        BY <4>2 DEF a
    <3> QED
      BY <3>3, <1>4 DEF r
  <2> QED
    BY <2>3, <2>4, <1>2
<1> QED
  BY <1>3, <1>4

\* The ring begins on the clock of the launch, but for buffers never filled.
LEMMA ClockInitInv == ExtractionNumbers /\ CutInit => ClockInv
<1> SUFFICES ASSUME ExtractionNumbers, CutInit
             PROVE  ClockInv
  OBVIOUS
<1>1. CutInv
  BY CutInitInv
<1>2. \A n \in 0 .. RingNodes - 1 :
        LastIn(n, written - 1) >= 0 => dates[n] = LastIn(n, written - 1) * BufferTicks
  <2>1. PICK unfilled \in Unfilled :
          dates = [n \in 0 .. RingNodes - 1 |->
                     LET b == LastIn(n, written - 1) IN IF b < 0 THEN unfilled ELSE b * BufferTicks]
    BY DEF CutInit
  <2>2. ASSUME NEW n \in 0 .. RingNodes - 1
        PROVE  LastIn(n, written - 1) \in Int
    BY <1>1, ExtractionAssumption DEF LastIn, CutInv, CutTypes
  <2> QED
    BY <2>1, <2>2
<1>3. started = written * BufferTicks /\ swf0Ready = FALSE /\ extractSWF = FALSE /\ cut.at = "idle"
  BY DEF CutInit, NoCut
<1> QED
  BY <1>1, <1>2, <1>3 DEF ClockInv, ClockKept, SameUnlessSet

\* A second f0 snapshot does not come that soon after the first one.
LEMMA NoSecondF0 ==
  ASSUME ExtractionNumbers, LongF1Period, CutTypes, F0Snapshot, frequencyChannel = "F1",
         NEW b \in Int, written - b <= CutLag + 2,
         During(swf0.time, b)
  PROVE  FALSE
<1> DEFINE B == BufferTicks
<1>1. B \in Nat \ {0} /\ F0Ticks \in Nat /\ CutLag \in Nat /\ swf0.time \in Int /\ written \in Nat
      /\ Period["F1"] \in Nat
  BY BufferTicksPositive DEF CutTypes, ExtractionNumbers
<1>2. Period["F1"] >= (CutLag + 3) * B
  BY DEF LongF1Period, CutTypes, TicksOf, BufferTicks, Ticks
<1>3. PICK p \in Phases : p < B /\ (written * B + p) - F0Ticks >= swf0.time + Period["F1"]
  BY DEF F0Snapshot
<1>4. p \in Nat
  BY DEF ExtractionNumbers
<1>5. b * B <= swf0.time + F0Ticks
  BY DEF During
<1> HIDE DEF B
<1>6. written * B <= (b + (CutLag + 2)) * B
  BY <1>1
<1>7. (b + (CutLag + 2)) * B = b * B + (CutLag + 2) * B /\ (CutLag + 3) * B = (CutLag + 2) * B + B
  BY <1>1
<1>8. b * B \in Int /\ written * B \in Int /\ (CutLag + 2) * B \in Int
  BY <1>1
<1> QED
  BY <1>1, <1>2, <1>3, <1>4, <1>5, <1>6, <1>7, <1>8

\* Until TC_LFR_UPDATE_TIME changes it there is one clock.
LEMMA ClockKeptNext ==
  ASSUME ExtractionNumbers, LongF1Period, ClockInv, [CutNext]_cutVars
  PROVE  ClockKept'
<1> USE DEF ClockInv, CutInv, CutTypes
<1>1. BufferTicks \in Nat \ {0}
  BY BufferTicksPositive
<1>2. frequencyChannel' = frequencyChannel /\ BufferTicks' = BufferTicks
  BY DEF CutNext, BufferIsFull, F0Snapshot, TimeIsSet, Search, CopyPart1, CopyPart2, cutVars, BufferTicks, Ticks
<1>3. CASE BufferIsFull
  <2> SUFFICES ASSUME clockShift' = 0
               PROVE  ClockKept'
    BY DEF ClockKept
  <2>1. clockShift = 0 /\ written' = written + 1 /\ written' - 1 = written
    BY <1>3 DEF BufferIsFull
  <2>2. started' = written' * BufferTicks
    <3>1. started' = written' * BufferTicks + clockShift
      BY <1>3 DEF BufferIsFull
    <3>2. written' * BufferTicks \in Int
      BY <1>1, <2>1
    <3> QED
      BY <2>1, <3>1, <3>2
  <2>3. ASSUME NEW n \in 0 .. RingNodes - 1, LastIn(n, written) >= 0
        PROVE  dates'[n] = LastIn(n, written) * BufferTicks
    <3>1. dates' = [dates EXCEPT ![RingNode(written)] = started]
      BY <1>3 DEF BufferIsFull
    <3>2. CASE n = RingNode(written)
      BY <2>1, <3>1, <3>2, LastInNext DEF ClockKept
    <3>3. CASE n # RingNode(written)
      BY <2>1, <2>3, <3>1, <3>3, LastInNext DEF ClockKept
    <3> QED
      BY <3>2, <3>3
  <2>4. /\ ~swf0Ready'
        /\ extractSWF' => acquisitionTimeF0' = asked'
        /\ extractSWF' /\ frequencyChannel = "F1" => swf0'.time = asked' /\ swf0'.date = asked'
    BY <1>3, <2>1 DEF BufferIsFull, ClockKept
  <2>5. CASE extractSWF
    <3>1. cut'.acq = acquisitionTimeF0 /\ cut'.asked = asked /\ swf0' = swf0
      BY <1>3, <2>5 DEF BufferIsFull, NoCut
    <3> QED
      BY <1>2, <2>1, <2>2, <2>3, <2>4, <2>5, <3>1 DEF ClockKept, LastIn
  <2>6. CASE ~extractSWF
    <3>1. cut'.acq = cut.acq /\ cut'.asked = cut.asked /\ cut'.at = cut.at /\ swf0' = swf0
      BY <1>3, <2>6 DEF BufferIsFull, CutFields
    <3> QED
      BY <1>2, <2>1, <2>2, <2>3, <2>4, <2>6, <3>1 DEF ClockKept, LastIn
  <2> QED
    BY <2>5, <2>6
<1>4. CASE F0Snapshot
  <2>1. ~(extractSWF /\ frequencyChannel = "F1" /\ clockShift = 0)
    <3> SUFFICES ASSUME extractSWF, frequencyChannel = "F1", clockShift = 0
                 PROVE  FALSE
      OBVIOUS
    <3>1. During(swf0.time, written - 1)
      BY DEF AskedInTime, ClockKept
    <3>2. written - 1 \in Int /\ written - (written - 1) <= CutLag + 2
      BY DEF ExtractionNumbers
    <3> QED
      BY <1>4, <3>1, <3>2, NoSecondF0
  <2>2. ~(cut.at = "search" /\ frequencyChannel = "F1" /\ clockShift = 0)
    <3> SUFFICES ASSUME cut.at = "search", frequencyChannel = "F1", clockShift = 0
                 PROVE  FALSE
      OBVIOUS
    <3>1. During(swf0.time, written - 2 - cut.late) /\ cut.late <= CutLag
      BY DEF AskedInTime, ClockKept, Cutting
    <3>2. written - 2 - cut.late \in Int /\ written - (written - 2 - cut.late) <= CutLag + 2
      BY <3>1 DEF ExtractionNumbers
    <3> QED
      BY <1>4, <3>1, <3>2, NoSecondF0
  <2>3. PICK p \in Phases : swf0' = [time |-> (written * BufferTicks + p) - F0Ticks,
                                     date |-> ((written * BufferTicks + p) - F0Ticks) + clockShift]
    BY <1>4 DEF F0Snapshot
  <2>4. (written * BufferTicks + p) - F0Ticks \in Int
    BY <1>1 DEF ExtractionNumbers
  <2>5. clockShift = 0 => swf0'.date = swf0'.time
    BY <2>3, <2>4
  <2> QED
    BY <1>2, <1>4, <2>1, <2>2, <2>5 DEF F0Snapshot, ClockKept, LastIn
<1>5. CASE TimeIsSet
  BY <1>2, <1>5 DEF TimeIsSet, ClockKept, LastIn
<1>6. CASE Search
  <2>1. cut'.at = "part1"
    BY <1>6 DEF Search, CutFields
  <2> QED
    BY <1>2, <1>6, <2>1 DEF Search, ClockKept, LastIn
<1>7. CASE CopyPart1
  <2>1. cut'.at = "part2"
    BY <1>7 DEF CopyPart1, CutFields
  <2> QED
    BY <1>2, <1>7, <2>1 DEF CopyPart1, ClockKept, LastIn
<1>8. CASE CopyPart2
  <2>1. cut'.at = "done"
    BY <1>8 DEF CopyPart2, CutFields
  <2> QED
    BY <1>2, <1>8, <2>1 DEF CopyPart2, ClockKept, LastIn
<1>9. CASE UNCHANGED cutVars
  BY <1>2, <1>9 DEF cutVars, ClockKept, LastIn
<1> QED
  BY <1>3, <1>4, <1>5, <1>6, <1>7, <1>8, <1>9 DEF CutNext

LEMMA SameUnlessSetNext ==
  ASSUME ExtractionNumbers, ClockInv, [CutNext]_cutVars
  PROVE  SameUnlessSet'
<1> USE DEF ClockInv, CutInv, CutTypes
<1>1. CASE BufferIsFull
  <2>1. CASE extractSWF
    BY <1>1, <2>1 DEF BufferIsFull, NoCut, SameUnlessSet
  <2>2. CASE ~extractSWF
    <3>1. cut'.at = cut.at /\ cut'.clock = cut.clock /\ cut'.sameClock = cut.sameClock
      BY <1>1, <2>2 DEF BufferIsFull, CutFields
    <3> QED
      BY <3>1 DEF SameUnlessSet
  <2> QED
    BY <2>1, <2>2
<1>2. CASE Search
  <2>1. cut'.clock = clockShift /\ cut'.sameClock = SameClock /\ cut.at = "search"
    BY <1>2 DEF Search, CutFields
  <2>2. clockShift = 0 => SameClock
    <3> SUFFICES ASSUME clockShift = 0 PROVE SameClock
      OBVIOUS
    <3>1. AcquisitionTimeF0 = cut.asked + clockShift
      BY <2>1 DEF ClockKept, AcquisitionTimeF0
    <3>2. ASSUME NEW n \in DOMAIN dates, LastIn(n, written - 1) >= 0
          PROVE  dates[n] = LastIn(n, written - 1) * BufferTicks + clockShift
      <4>1. dates[n] = LastIn(n, written - 1) * BufferTicks /\ dates[n] \in Int
        BY <3>2 DEF ClockKept
      <4> QED
        BY <4>1
    <3> QED
      BY <3>1, <3>2 DEF SameClock
  <2> QED
    BY <2>1, <2>2 DEF SameUnlessSet
<1>3. CASE CopyPart1
  BY <1>3 DEF CopyPart1, CutFields, SameUnlessSet
<1>4. CASE CopyPart2
  BY <1>4 DEF CopyPart2, CutFields, SameUnlessSet
<1>5. CASE F0Snapshot \/ TimeIsSet \/ UNCHANGED cutVars
  BY <1>5 DEF F0Snapshot, TimeIsSet, cutVars, SameUnlessSet
<1> QED
  BY <1>1, <1>2, <1>3, <1>4, <1>5 DEF CutNext

\* Moreover the dates are those of one clock whenever the clock has not been set:
\* only TC_LFR_UPDATE_TIME can make a snapshot be cut elsewhere
\* (build_snapshot_from_ring, cwf1_task, cwf2_task).
THEOREM SnapshotDated ==
  ExtractionNumbers /\ LongF1Period /\ CutSpec => [](SnapshotCut /\ SameUnlessSet)
<1> SUFFICES ASSUME ExtractionNumbers, LongF1Period
             PROVE  CutSpec => [](SnapshotCut /\ SameUnlessSet)
  OBVIOUS
<1>1. CutInit => ClockInv
  BY ClockInitInv
<1>2. ClockInv /\ [CutNext]_cutVars => ClockInv'
  BY CutInvNext, ClockKeptNext, SameUnlessSetNext DEF ClockInv
<1>3. ClockInv => SnapshotCut /\ SameUnlessSet
  BY FoundIsCut DEF ClockInv
<1> QED
  BY <1>1, <1>2, <1>3, PTL DEF CutSpec

-----------------------------------------------------------------------------
(* The components side by side *)

\* A step of another component is no step of Averaging or SnapshotAssembly: their
\* types are kept when all components share one behaviour, as they share the
\* program (avf0_task, prc0_task, cwf2_task, wfrm_task).
THEOREM TypesCorrect == MCSpec => []TypesOK
<1> DEFINE all == <<part, vars, ringVars, snapVars, dateVars, smVars, pasVars,
                    wheelVars, timecodeVars, hkVars, tcVars, cutVars>>
<1>1. MCInit => Init /\ SnapTypeOK /\ Clocks
  <2>1. SnapInit => SnapTypeOK /\ Clocks
    BY SnapInitInv DEF SnapInv
  <2> QED
    BY <2>1 DEF MCInit
<1>2. [MCNext]_all => [Next]_vars
  BY DEF MCNext
<1>3. [MCNext]_all => [SnapNext]_snapVars
  BY DEF MCNext
<1>4. SnapTypeOK /\ Clocks /\ [MCNext]_all => SnapTypeOK' /\ Clocks'
  BY <1>3, SnapTypes
<1>5. MCSpec => Spec
  BY <1>1, <1>2, PTL DEF MCSpec, Spec
<1>6. MCSpec => [](SnapTypeOK /\ Clocks)
  BY <1>1, <1>4, PTL DEF MCSpec
<1> QED
  BY <1>5, <1>6, TypeCorrect, PTL DEF TypesOK
=============================================================================
