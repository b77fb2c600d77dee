------------------------ MODULE CommandRuntimeProofs ------------------------
(***************************************************************************)
(* Proofs about the server side of commands, in three parts, each resting  *)
(* on the one before: the tracker, the runtime that drives it, and what a  *)
(* receipt reports.  All hold for every set of sessions, every payload     *)
(* alphabet and every capacity of at least two.                            *)
(***************************************************************************)
EXTENDS CommandRuntime, FiniteSetTheorems, TLAPS

-----------------------------------------------------------------------------
(***************************************************************************)
(* Part one.  The tracker's safety properties.                             *)
(***************************************************************************)

-----------------------------------------------------------------------------
(* The inductive invariant *)

\* Every consumed identity is out of reach: its session is retired, or it is
\* not above the owner's high-water mark.
LedgerBehind ==
  \A l \in ledger : \/ Owner(l.key) \in retired
                    \/ Owner(l.key) = session /\ l.key[2] <= highWater

\* Only the owner can hold the motion slot.
SlotOwned == active # None => Owner(active) = session

\* Receipts are stamped in the order of their insertion.
StampsBehind == \A k \in DOMAIN receipts : receipts[k].stamp < arrivals

TrackerInv ==
  /\ TrackerTypeOK
  /\ session \notin retired
  /\ IsFiniteSet(DOMAIN receipts)
  /\ SlotReceiptRetained
  /\ StampsBehind
  /\ SlotOwned
  /\ LedgerBehind
  /\ ConsumedOnce

-----------------------------------------------------------------------------
(* Identities and numbers *)

LEMMA KeyLemma ==
  ASSUME NEW k \in Key
  PROVE  /\ k = <<k[1], k[2]>> /\ Owner(k) = k[1] /\ Owner(k) \in Session
         /\ k[2] \in Sequence /\ k[2] \in Int /\ Owner(k) # None /\ k # None
<1>1. /\ k = <<k[1], k[2]>> /\ k[1] \in Session /\ k[2] \in Sequence
  BY DEF Key
<1>2. Sequence \subseteq Int /\ None \notin Session /\ None \notin Key
  BY TrackerAssumption
<1> QED BY <1>1, <1>2 DEF Owner

LEMMA HighWaterLemma == TrackerTypeOK => highWater \in Int
<1>1. Sequence \subseteq Int
  BY TrackerAssumption
<1> QED BY <1>1 DEF TrackerTypeOK

-----------------------------------------------------------------------------
(* The eviction rule *)

\* Retaining a history that exceeds the capacity by at most one receipt brings
\* it back within the capacity, keeps every retained receipt as it was, and
\* keeps the holder of the motion slot and the newest receipt.
LEMMA RetainLemma ==
  ASSUME NEW book, NEW holder, NEW newest \in DOMAIN book,
         IsFiniteSet(DOMAIN book),
         Cardinality(DOMAIN book) <= Capacity + 1,
         \A k \in DOMAIN book : book[k].stamp \in Nat,
         \A k \in DOMAIN book \ {newest} : book[k].stamp < book[newest].stamp,
         Retain(book, holder)
  PROVE  /\ DOMAIN receipts' \subseteq DOMAIN book
         /\ \A k \in DOMAIN receipts' : receipts'[k] = book[k]
         /\ IsFiniteSet(DOMAIN receipts')
         /\ Cardinality(DOMAIN receipts') <= Capacity
         /\ newest \in DOMAIN receipts'
         /\ holder \in DOMAIN book => holder \in DOMAIN receipts'
<1> USE TrackerAssumption
<1>0. Cardinality(DOMAIN book) \in Nat
  BY FS_CardinalityType
<1>1. CASE Cardinality(DOMAIN book) <= Capacity
  BY <1>1 DEF Retain
<1>2. CASE ~(Cardinality(DOMAIN book) <= Capacity)
  <2>1. PICK victim \in DOMAIN book \ {holder} :
          /\ \A k \in DOMAIN book \ {holder} : book[victim].stamp <= book[k].stamp
          /\ receipts' = [k \in DOMAIN book \ {victim} |-> book[k]]
    BY <1>2 DEF Retain
  <2>2. victim # newest
    <3> SUFFICES ASSUME victim = newest PROVE FALSE
      OBVIOUS
    <3>1. DOMAIN book \ {holder} \subseteq {newest}
      <4> SUFFICES ASSUME NEW k \in DOMAIN book \ {holder}, k # newest
                   PROVE  FALSE
        OBVIOUS
      <4>1. book[newest].stamp <= book[k].stamp
        BY <2>1
      <4>2. book[k].stamp < book[newest].stamp
        OBVIOUS
      <4>3. book[k].stamp \in Nat /\ book[newest].stamp \in Nat
        OBVIOUS
      <4> QED BY <4>1, <4>2, <4>3
    <3>2. DOMAIN book \subseteq {newest, holder}
      BY <3>1
    <3>3. IsFiniteSet({newest, holder}) /\ Cardinality({newest, holder}) <= 2
      <4>1. IsFiniteSet({newest}) /\ Cardinality({newest}) = 1
        BY FS_Singleton
      <4>2. /\ IsFiniteSet({newest} \cup {holder})
            /\ Cardinality({newest} \cup {holder})
                 = IF holder \in {newest} THEN Cardinality({newest})
                   ELSE Cardinality({newest}) + 1
        BY <4>1, FS_AddElement, Zenon
      <4>3. {newest, holder} = {newest} \cup {holder}
        OBVIOUS
      <4>4. IsFiniteSet({newest, holder})
        BY <4>2, <4>3
      <4>5. Cardinality({newest, holder}) <= 2
        BY <4>1, <4>2, <4>3
      <4> QED BY <4>4, <4>5
    <3>4. Cardinality(DOMAIN book) <= 2
      BY <3>2, <3>3, FS_Subset, FS_CardinalityType
    <3> QED BY <1>0, <1>2, <3>4
  <2>3. DOMAIN receipts' = DOMAIN book \ {victim}
    BY <2>1
  <2>4. /\ IsFiniteSet(DOMAIN book \ {victim})
        /\ Cardinality(DOMAIN book \ {victim}) = Cardinality(DOMAIN book) - 1
    BY FS_RemoveElement, <2>1
  <2>5. /\ IsFiniteSet(DOMAIN receipts')
        /\ Cardinality(DOMAIN receipts') <= Capacity
    BY <1>0, <2>3, <2>4
  <2> QED BY <2>1, <2>2, <2>3, <2>5
<1> QED BY <1>1, <1>2
-----------------------------------------------------------------------------
(* Each operation of the tracker preserves the invariant *)

LEMMA InitInv == TrackerInit => TrackerInv
<1> SUFFICES ASSUME TrackerInit PROVE TrackerInv
  OBVIOUS
<1> USE TrackerAssumption DEF TrackerInit
<1>1. DOMAIN receipts = {}
  OBVIOUS
<1>2. IsFiniteSet(DOMAIN receipts) /\ Cardinality(DOMAIN receipts) = 0
  BY <1>1, FS_EmptySet
<1>3. TrackerTypeOK
  BY <1>1 DEF TrackerTypeOK
<1>4. SlotReceiptRetained
  BY <1>2 DEF SlotReceiptRetained
<1>5. StampsBehind /\ SlotOwned /\ LedgerBehind /\ ConsumedOnce
  BY <1>1 DEF StampsBehind, SlotOwned, LedgerBehind, ConsumedOnce
<1> QED BY <1>2, <1>3, <1>4, <1>5 DEF TrackerInv

\* Acceptance, where the eviction happens.
LEMMA AcceptInv ==
  ASSUME TrackerInv, NEW e \in Envelope, Accept(e)
  PROVE  TrackerInv' /\ e.key \in DOMAIN receipts'
<1> USE TrackerAssumption
<1> DEFINE takesSlot == e.payload.op \in Motion /\ ~IsBusy(e)
           holder == IF takesSlot THEN e.key ELSE active
           receipt == [payload |-> e.payload,
                       status |-> IF IsBusy(e) THEN "rejected" ELSE "accepted",
                       stopConfirmed |-> FALSE,
                       stamp |-> arrivals]
           book == [k \in DOMAIN receipts \cup {e.key} |->
                      IF k = e.key THEN receipt ELSE receipts[k]]
           entry == [key |-> e.key, at |-> arrivals, dispatched |-> ~IsBusy(e)]
<1>1. /\ IsFresh(e)
      /\ session' = Owner(e.key)
      /\ highWater' = e.key[2]
      /\ arrivals' = arrivals + 1
      /\ active' = holder
      /\ overdue' = (overdue /\ ~takesSlot)
      /\ Retain(book, holder)
      /\ ledger' = ledger \cup {entry}
      /\ UNCHANGED <<boot, retired>>
  BY DEF Accept
<1>2. /\ e.key \in Key /\ e.payload \in Payload
      /\ Owner(e.key) \in Session /\ Owner(e.key) # None
      /\ e.key[2] \in Sequence /\ e.key[2] \in Int
  BY KeyLemma DEF Envelope
<1>3. /\ TrackerTypeOK /\ session \notin retired
      /\ IsFiniteSet(DOMAIN receipts) /\ SlotReceiptRetained
      /\ StampsBehind /\ SlotOwned /\ LedgerBehind /\ ConsumedOnce
  BY DEF TrackerInv
<1>4. /\ Owner(e.key) \notin retired
      /\ session = None \/ session = Owner(e.key)
      /\ e.key \notin DOMAIN receipts
      /\ e.key[2] > highWater
  BY <1>1, <1>3 DEF IsFresh, MayCommand
<1>5. arrivals \in Nat /\ receipt \in Receipt
  <2>1. arrivals \in Nat
    BY <1>3 DEF TrackerTypeOK
  <2> QED BY <2>1, <1>2 DEF Receipt, Status, Terminal
<1>6. DOMAIN book = DOMAIN receipts \cup {e.key}
  OBVIOUS
<1>7. \A k \in DOMAIN book : k \in Key /\ book[k] \in Receipt
  BY <1>2, <1>3, <1>5 DEF TrackerTypeOK
<1>8. \A k \in DOMAIN book : book[k].stamp \in Nat
  BY <1>7 DEF Receipt
<1>9. \A k \in DOMAIN book \ {e.key} : book[k].stamp < book[e.key].stamp
  BY <1>3 DEF StampsBehind
<1>10. IsFiniteSet(DOMAIN book) /\ Cardinality(DOMAIN book) <= Capacity + 1
  <2>1. /\ IsFiniteSet(DOMAIN receipts \cup {e.key})
        /\ Cardinality(DOMAIN receipts \cup {e.key})
             = IF e.key \in DOMAIN receipts THEN Cardinality(DOMAIN receipts)
               ELSE Cardinality(DOMAIN receipts) + 1
    BY <1>3, FS_AddElement, Zenon
  <2>2. Cardinality(DOMAIN receipts) \in Nat
    BY <1>3, FS_CardinalityType
  <2> QED BY <2>1, <2>2, <1>3, <1>6 DEF SlotReceiptRetained
<1> HIDE DEF book, receipt
<1>11. /\ DOMAIN receipts' \subseteq DOMAIN book
       /\ \A k \in DOMAIN receipts' : receipts'[k] = book[k]
       /\ IsFiniteSet(DOMAIN receipts')
       /\ Cardinality(DOMAIN receipts') <= Capacity
       /\ e.key \in DOMAIN receipts'
       /\ holder \in DOMAIN book => holder \in DOMAIN receipts'
  <2>1. e.key \in DOMAIN book
    BY <1>6
  <2> QED BY <1>1, <1>8, <1>9, <1>10, <2>1, RetainLemma
<1>12. SlotReceiptRetained'
  <2>1. active # None => active \in DOMAIN book
    BY <1>3, <1>6 DEF SlotReceiptRetained
  <2>2. e.key \in DOMAIN book
    BY <1>6
  <2> QED BY <1>1, <1>11, <2>1, <2>2 DEF SlotReceiptRetained
<1>13. TrackerTypeOK'
  <2>1. \A k \in DOMAIN receipts' : k \in Key /\ receipts'[k] \in Receipt
    BY <1>7, <1>11
  <2>2. entry \in Entry
    BY <1>2, <1>5 DEF Entry
  <2>3. active' \in Key \cup {None} /\ overdue' \in BOOLEAN
    BY <1>1, <1>2, <1>3 DEF TrackerTypeOK
  <2> QED BY <1>1, <1>2, <1>3, <1>5, <2>1, <2>2, <2>3 DEF TrackerTypeOK
<1>14. StampsBehind'
  <2>1. \A k \in DOMAIN book : book[k].stamp <= arrivals
    <3> SUFFICES ASSUME NEW k \in DOMAIN book PROVE book[k].stamp <= arrivals
      OBVIOUS
    <3>1. CASE k = e.key
      BY <3>1, <1>5, <1>6 DEF book, receipt
    <3>2. CASE k # e.key
      <4>1. k \in DOMAIN receipts /\ book[k] = receipts[k]
        BY <3>2, <1>6 DEF book
      <4> QED BY <4>1, <1>3, <1>5, <1>8 DEF StampsBehind
    <3> QED BY <3>1, <3>2
  <2> QED BY <1>1, <1>5, <1>8, <1>11, <2>1 DEF StampsBehind
<1>15. SlotOwned'
  <2>1. CASE takesSlot
    BY <2>1, <1>1 DEF SlotOwned
  <2>2. CASE ~takesSlot /\ active # None
    <3>1. Owner(active) = session /\ active \in Key
      BY <2>2, <1>3 DEF SlotOwned, TrackerTypeOK
    <3>2. session = Owner(e.key)
      BY <3>1, <1>4, KeyLemma
    <3> QED BY <2>2, <3>1, <3>2, <1>1 DEF SlotOwned
  <2>3. CASE ~takesSlot /\ active = None
    BY <2>3, <1>1 DEF SlotOwned
  <2> QED BY <2>1, <2>2, <2>3
<1>16. LedgerBehind'
  <2> SUFFICES ASSUME NEW l \in ledger'
               PROVE  \/ Owner(l.key) \in retired'
                      \/ Owner(l.key) = session' /\ l.key[2] <= highWater'
    BY DEF LedgerBehind
  <2>1. CASE l = entry
    <3>1. l.key = e.key
      BY <2>1
    <3> QED BY <3>1, <1>1, <1>2
  <2>2. CASE l \in ledger
    <3>1. CASE Owner(l.key) \in retired
      BY <3>1, <1>1
    <3>2. CASE Owner(l.key) = session /\ l.key[2] <= highWater
      <4>1. l.key \in Key
        BY <2>2, <1>3 DEF TrackerTypeOK, Entry
      <4>2. Owner(l.key) \in Session /\ l.key[2] \in Int
        BY <4>1, KeyLemma
      <4>3. session = Owner(e.key)
        BY <3>2, <4>2, <1>4
      <4>4. highWater \in Int /\ e.key[2] \in Int
        BY <1>2, <1>3, HighWaterLemma, KeyLemma
      <4> QED BY <3>2, <4>2, <4>3, <4>4, <1>1, <1>4
    <3> QED BY <2>2, <3>1, <3>2, <1>3 DEF LedgerBehind
  <2> QED BY <2>1, <2>2, <1>1
<1>17. ConsumedOnce'
  <2>1. \A l \in ledger : l.key # e.key
    <3> SUFFICES ASSUME NEW l \in ledger, l.key = e.key PROVE FALSE
      OBVIOUS
    <3>1. e.key[2] <= highWater
      BY <1>3, <1>4 DEF LedgerBehind
    <3>2. highWater \in Int /\ e.key[2] \in Int
      BY <1>2, <1>3, HighWaterLemma, KeyLemma
    <3> QED BY <3>1, <3>2, <1>4
  <2>2. entry.key = e.key
    OBVIOUS
  <2> HIDE DEF entry
  <2> QED BY <1>1, <1>3, <2>1, <2>2 DEF ConsumedOnce
<1>18. session' \notin retired'
  BY <1>1, <1>4
<1> QED
  BY <1>11, <1>12, <1>13, <1>14, <1>15, <1>16, <1>17, <1>18 DEF TrackerInv

\* Recording an outcome.
LEMMA TransitionInv ==
  ASSUME TrackerInv, NEW k \in DOMAIN receipts,
         NEW status \in Terminal \cup {"running"},
         NEW stopConfirmed \in BOOLEAN, NEW release \in BOOLEAN,
         Transition(k, status, stopConfirmed, release)
  PROVE  TrackerInv' /\ DOMAIN receipts' = DOMAIN receipts
<1> USE TrackerAssumption
<1>1. /\ UNCHANGED <<boot, arrivals, session, retired, highWater, overdue, ledger>>
      /\ active' \in {active, None}
      /\ DOMAIN receipts' = DOMAIN receipts
      /\ \A j \in DOMAIN receipts : /\ receipts'[j].stamp = receipts[j].stamp
                                    /\ receipts'[j] \in Receipt
  <2>1. \A j \in DOMAIN receipts : receipts[j] \in Receipt
    BY DEF TrackerInv, TrackerTypeOK
  <2>2. CASE receipts[k].status \in Terminal
    BY <2>1, <2>2 DEF Transition
  <2>3. CASE receipts[k].status \notin Terminal
    <3>1. receipts' = [receipts EXCEPT ![k].status = status,
                                       ![k].stopConfirmed = stopConfirmed]
      BY <2>3 DEF Transition
    <3>2. status \in Status
      BY DEF Status
    <3> QED BY <2>1, <2>3, <3>1, <3>2 DEF Transition, Receipt
  <2> QED BY <2>2, <2>3
<1>2. TrackerTypeOK'
  BY <1>1 DEF TrackerInv, TrackerTypeOK
<1>3. SlotReceiptRetained' /\ IsFiniteSet(DOMAIN receipts')
  BY <1>1 DEF TrackerInv, SlotReceiptRetained
<1>4. StampsBehind' /\ SlotOwned' /\ LedgerBehind' /\ ConsumedOnce'
  BY <1>1 DEF TrackerInv, StampsBehind, SlotOwned, LedgerBehind, ConsumedOnce
<1> QED BY <1>1, <1>2, <1>3, <1>4 DEF TrackerInv

\* Giving control back.
LEMMA ReleaseInv ==
  ASSUME TrackerInv, NEW s \in Session, ReleaseControl(s)
  PROVE  TrackerInv'
<1> USE TrackerAssumption
<1>1. /\ s = session /\ active = None
      /\ retired' = retired \cup {s} /\ session' = None /\ highWater' = -1
      /\ UNCHANGED <<boot, receipts, arrivals, active, overdue, ledger>>
  BY DEF ReleaseControl, CanRelease
<1>2. TrackerTypeOK' /\ session' \notin retired'
  BY <1>1 DEF TrackerInv, TrackerTypeOK
<1>3. LedgerBehind'
  BY <1>1 DEF TrackerInv, LedgerBehind
<1>4. /\ IsFiniteSet(DOMAIN receipts') /\ SlotReceiptRetained'
      /\ StampsBehind' /\ SlotOwned' /\ ConsumedOnce'
  BY <1>1 DEF TrackerInv, SlotReceiptRetained, StampsBehind, SlotOwned, ConsumedOnce
<1> QED BY <1>2, <1>3, <1>4 DEF TrackerInv

\* Expiry, and steps that leave the tracker alone.
LEMMA QuietInv ==
  ASSUME TrackerInv, Expire \/ UNCHANGED trackerVars
  PROVE  TrackerInv'
<1>1. /\ UNCHANGED <<boot, receipts, arrivals, session, retired, highWater, active, ledger>>
      /\ overdue' \in {overdue, TRUE}
  BY DEF Expire, trackerVars
<1>2. TrackerTypeOK'
  BY <1>1 DEF TrackerInv, TrackerTypeOK
<1> QED
  BY <1>1, <1>2 DEF TrackerInv, SlotReceiptRetained, StampsBehind, SlotOwned,
                    LedgerBehind, ConsumedOnce

LEMMA NextInv == TrackerInv /\ [TrackerNext]_trackerVars => TrackerInv'
<1> SUFFICES ASSUME TrackerInv, [TrackerNext]_trackerVars PROVE TrackerInv'
  OBVIOUS
<1>1. ASSUME NEW e \in Envelope, Accept(e) PROVE TrackerInv'
  BY <1>1, AcceptInv
<1>2. ASSUME NEW k \in DOMAIN receipts, NEW status \in Terminal \cup {"running"},
             NEW stopConfirmed \in BOOLEAN, NEW release \in BOOLEAN,
             Transition(k, status, stopConfirmed, release)
      PROVE  TrackerInv'
  BY <1>2, TransitionInv
<1>3. ASSUME NEW s \in Session, ReleaseControl(s) PROVE TrackerInv'
  BY <1>3, ReleaseInv
<1>4. CASE Expire \/ UNCHANGED trackerVars
  BY <1>4, QuietInv
<1> QED BY <1>1, <1>2, <1>3, <1>4 DEF TrackerNext

-----------------------------------------------------------------------------
(* Theorems *)

\* The tracker's state keeps its types under callers that use it in any order.
THEOREM TrackerTypes == TrackerSpec => []TrackerTypeOK
<1>1. TrackerInv => TrackerTypeOK
  BY DEF TrackerInv
<1> QED BY <1>1, InitInv, NextInv, PTL DEF TrackerSpec

\* No identity is dispatched, or turned away, more than once in a boot of the
\* server, whatever is evicted and however often control changes hands.
THEOREM AtMostOnce == TrackerSpec => []ConsumedOnce
<1>1. TrackerInv => ConsumedOnce
  BY DEF TrackerInv
<1> QED BY <1>1, InitInv, NextInv, PTL DEF TrackerSpec

\* The receipt of the command in the motion slot survives every eviction, and
\* the history stays within its capacity.
THEOREM SlotSurvivesEviction == TrackerSpec => []SlotReceiptRetained
<1>1. TrackerInv => SlotReceiptRetained
  BY DEF TrackerInv
<1> QED BY <1>1, InitInv, NextInv, PTL DEF TrackerSpec

\* A command is never the victim of the eviction that its own acceptance makes.
THEOREM AcceptedReceiptKept == TrackerSpec => NewReceiptRetained
<1>1. TrackerInv /\ [TrackerNext]_trackerVars
        => [\A l \in ledger' \ ledger : l.key \in DOMAIN receipts']_trackerVars
  <2> SUFFICES ASSUME TrackerInv, TrackerNext, NEW l \in ledger' \ ledger
               PROVE  l.key \in DOMAIN receipts'
    BY DEF trackerVars
  <2>1. ASSUME NEW e \in Envelope, Accept(e) PROVE l.key \in DOMAIN receipts'
    <3>1. l.key = e.key
      BY <2>1 DEF Accept
    <3> QED BY <2>1, <3>1, AcceptInv
  <2>2. ASSUME ledger' = ledger PROVE FALSE
    BY <2>2
  <2> QED BY <2>1, <2>2 DEF TrackerNext, Transition, ReleaseControl, Expire
<1> QED BY <1>1, InitInv, NextInv, PTL DEF TrackerSpec, NewReceiptRetained

\* The outcome in a retained receipt never changes.
THEOREM OutcomesStand == TrackerSpec => OutcomeImmutable
<1>1. [TrackerNext]_trackerVars
        => [\A k \in DOMAIN receipts \cap DOMAIN receipts' :
              receipts[k].status \in Terminal => receipts'[k] = receipts[k]]_trackerVars
  <2> SUFFICES ASSUME TrackerNext, NEW k \in DOMAIN receipts \cap DOMAIN receipts',
                      receipts[k].status \in Terminal
               PROVE  receipts'[k] = receipts[k]
    BY DEF trackerVars
  <2>1. ASSUME NEW e \in Envelope, Accept(e) PROVE receipts'[k] = receipts[k]
    <3>1. \E book, holder :
            /\ Retain(book, holder)
            /\ k \in DOMAIN book => book[k] = receipts[k]
            /\ DOMAIN book = DOMAIN receipts \cup {e.key}
      <4>1. k # e.key
        BY <2>1 DEF Accept, IsFresh
      <4> QED BY <2>1, <4>1 DEF Accept
    <3> QED BY <3>1 DEF Retain
  <2>2. ASSUME NEW j \in DOMAIN receipts, NEW status, NEW stopConfirmed, NEW release,
               Transition(j, status, stopConfirmed, release)
        PROVE  receipts'[k] = receipts[k]
    BY <2>2 DEF Transition
  <2> QED BY <2>1, <2>2 DEF TrackerNext, ReleaseControl, Expire
<1> QED BY <1>1, PTL DEF TrackerSpec, OutcomeImmutable

-----------------------------------------------------------------------------
(***************************************************************************)
(* Part two.  The command lifecycle keeps its types, has at most one goal  *)
(* in progress, lets the robot move only for a command of the session in   *)
(* control, and implements MotionAuthority.                                *)
(***************************************************************************)

-----------------------------------------------------------------------------
(* The inductive invariant *)

\* The receive thread has a command in flight exactly while it dispatches one,
\* and corrects only a goal that is still in progress.
LoopInv ==
  /\ inflight # None <=> pc \in {"adapter", "ack"}
  /\ verdict # None <=> pc = "ack"
  /\ pc = "correct" => current["navigation"] # None

\* The command in flight has its receipt, still open; it holds the motion slot
\* exactly if it is a motion, and then no other goal is in progress when the
\* adapter is called.
FlightInv ==
  inflight # None =>
    /\ inflight \in DOMAIN receipts
    /\ receipts[inflight].status = "accepted"
    /\ Request.op \in Motion <=> active = inflight
    /\ pc = "adapter" /\ Request.op \in Motion => \A kind \in Kind : current[kind] = None
    /\ pc = "ack" => (verdict = "running" <=> Request.op \in Motion)

RuntimeInv ==
  /\ TrackerInv
  /\ TypeOK
  /\ LoopInv
  /\ FlightInv
  /\ OneGoal

LEMMA RuntimeInitInv == Init => RuntimeInv
<1> SUFFICES ASSUME Init PROVE RuntimeInv
  OBVIOUS
<1>1. TrackerInv
  BY InitInv DEF Init
<1>2. TypeOK
  BY <1>1 DEF Init, TypeOK, TrackerInv, Kind
<1>3. LoopInv /\ FlightInv /\ OneGoal
  BY DEF Init, LoopInv, FlightInv, OneGoal, Kind
<1> QED BY <1>1, <1>2, <1>3 DEF RuntimeInv

-----------------------------------------------------------------------------
(* What the end of a goal does *)

\* Ending the goal in the motion slot frees the slot only with the robot at
\* rest, leaves every other receipt alone, and keeps or drops the goal together
\* with its slot.
LEMMA FinishLemma ==
  ASSUME TrackerInv, TypeOK, NEW kind \in Kind, NEW k \in DOMAIN receipts,
         k = active,
         \A other \in Kind \ {kind} : current[other] = None,
         NEW from \in {"idle", "moving", "arrived"},
         NEW status \in {"failed", "succeeded", "cancelled"},
         NEW stopped \in BOOLEAN,
         Finish(kind, k, from, status, stopped)
  PROVE  /\ TrackerInv'
         /\ UNCHANGED <<session, retired, ledger>>
         /\ DOMAIN receipts' = DOMAIN receipts
         /\ \A j \in DOMAIN receipts : j # k => receipts'[j] = receipts[j]
         /\ current' \in [Kind -> Key \cup {None}]
         /\ fault' \in [Kind -> BOOLEAN]
         /\ base' \in {"idle", "moving", "arrived"}
         /\ base' = "moving" => active' = active /\ from = "moving"
         /\ active' \in {active, None}
         /\ OneGoal'
<1>1. k \in Key /\ k # None
  BY KeyLemma DEF TrackerInv, TrackerTypeOK
<1>2. /\ base' \in {"idle", "moving", "arrived"}
      /\ stopped => base' # "moving"
      /\ ~stopped => base' = from
  BY DEF Finish, Stop
<1>3. fault' \in [Kind -> BOOLEAN]
  BY DEF Finish, TypeOK
<1>4. Final(status, stopped) \in Terminal
  BY DEF Final, Terminal
<1>5. current \in [Kind -> Key \cup {None}]
  BY DEF TypeOK
<1>6. CASE FinishRaises(k, status, stopped)
  <2>1. UNCHANGED trackerVars /\ current' = [current EXCEPT ![kind] = k]
    BY <1>6 DEF Finish
  <2>2. TrackerInv'
    BY <2>1, QuietInv
  <2>3. UNCHANGED <<session, retired, ledger, receipts, active>>
    BY <2>1 DEF trackerVars
  <2>4. OneGoal'
    <3>1. \A other \in Kind \ {kind} : current'[other] = None
      BY <2>1, <1>5
    <3>2. current'[kind] = k
      BY <2>1, <1>5
    <3>3. Kind \ {kind} # {}
      BY DEF Kind
    <3> QED BY <2>3, <3>1, <3>2, <3>3 DEF OneGoal
  <2> QED BY <1>1, <1>2, <1>3, <1>5, <2>1, <2>2, <2>3, <2>4
<1>7. CASE ~FinishRaises(k, status, stopped)
  <2>1. /\ Transition(k, Final(status, stopped), stopped, stopped)
        /\ current' = [current EXCEPT ![kind] = IF stopped THEN None ELSE k]
    BY <1>7 DEF Finish
  <2>2. TrackerInv' /\ DOMAIN receipts' = DOMAIN receipts
    BY <1>4, <2>1, TransitionInv
  <2>3. UNCHANGED <<session, retired, ledger>>
    BY <2>1 DEF Transition
  <2>4. \A j \in DOMAIN receipts : j # k => receipts'[j] = receipts[j]
    BY <2>1 DEF Transition
  <2>5. active' \in {active, None} /\ (~stopped => active' = active)
    BY <2>1 DEF Transition
  <2>6. OneGoal'
    <3>1. \A other \in Kind \ {kind} : current'[other] = None
      BY <2>1, <1>5
    <3>2. current'[kind] = IF stopped THEN None ELSE k
      BY <2>1, <1>5
    <3>3. Kind \ {kind} # {}
      BY DEF Kind
    <3> QED BY <2>5, <3>1, <3>2, <3>3 DEF OneGoal
  <2>7. current' \in [Kind -> Key \cup {None}]
    BY <1>1, <1>5, <2>1
  <2> QED BY <1>2, <1>3, <2>2, <2>3, <2>4, <2>5, <2>6, <2>7
<1> QED BY <1>6, <1>7
-----------------------------------------------------------------------------
(* Every action preserves the invariant *)

\* Steps that leave the tracker, the goals and the loop's command alone.
LEMMA LoopStepInv ==
  ASSUME RuntimeInv,
         UNCHANGED <<trackerVars, inflight, verdict, current, fault>>,
         pc \in {"poll", "correct", "recv"} /\ pc' \in {"poll", "correct", "recv"},
         pc' = "correct" => current["navigation"] # None,
         monitored' = monitored, cmdError' \in Refusal \cup {None},
         base' \in {"idle", "moving", "arrived"}
  PROVE  RuntimeInv'
<1>1. TrackerInv'
  BY QuietInv DEF RuntimeInv
<1>2. UNCHANGED <<receipts, active>>
  BY DEF trackerVars
<1>3. inflight = None /\ inflight' = None /\ verdict = None /\ verdict' = None
  BY DEF RuntimeInv, LoopInv
<1>4. TypeOK'
  BY <1>1 DEF RuntimeInv, TypeOK, TrackerInv
<1>5. LoopInv' /\ FlightInv' /\ OneGoal'
  BY <1>2, <1>3 DEF RuntimeInv, LoopInv, FlightInv, OneGoal
<1> QED BY <1>1, <1>4, <1>5 DEF RuntimeInv

LEMMA ReceiveInv ==
  ASSUME RuntimeInv, NEW e \in Envelope, Receive(e)
  PROVE  RuntimeInv'
<1>1. CASE RefuseCommand(e)
  <2>1. cmdError' \in Refusal
    BY <1>1 DEF RefuseCommand, Refusal, Envelope
  <2> QED BY <1>1, <2>1, LoopStepInv DEF RefuseCommand, RuntimeInv, TypeOK
<1>2. CASE RepeatCommand(e)
  BY <1>2, LoopStepInv DEF RepeatCommand, RuntimeInv, TypeOK
<1>3. CASE AcceptCommand(e)
  <2>1. /\ pc = "recv" /\ Accept(e)
        /\ UNCHANGED <<verdict, current, fault, monitored, cmdError, base>>
    BY <1>3 DEF AcceptCommand
  <2>2. TrackerInv' /\ e.key \in DOMAIN receipts'
    BY <2>1, AcceptInv DEF RuntimeInv
  <2>3. e.key \in Key /\ e.key # None
    BY KeyLemma DEF Envelope
  <2>4. inflight = None /\ verdict = None
    BY <2>1 DEF RuntimeInv, LoopInv
  <2>5. active # None => active' = active
    BY <2>1 DEF Accept, IsBusy, Motion, PassBusy
  <2>6. OneGoal'
    BY <2>1, <2>5 DEF RuntimeInv, OneGoal, TypeOK
  <2>7. CASE IsBusy(e)
    <3>1. pc' = "poll" /\ inflight' = None /\ verdict' = None
      BY <1>3, <2>1, <2>4, <2>7 DEF AcceptCommand
    <3>2. TypeOK'
      BY <2>1, <2>2, <3>1 DEF RuntimeInv, TypeOK, TrackerInv
    <3>3. LoopInv' /\ FlightInv'
      BY <3>1 DEF LoopInv, FlightInv
    <3> QED BY <2>2, <2>6, <3>2, <3>3 DEF RuntimeInv
  <2>8. CASE ~IsBusy(e)
    <3>1. pc' = "adapter" /\ inflight' = e.key /\ verdict' = None
      BY <1>3, <2>1, <2>4, <2>8 DEF AcceptCommand
    <3>2. TypeOK'
      BY <2>1, <2>2, <2>3, <3>1 DEF RuntimeInv, TypeOK, TrackerInv
    <3>3. LoopInv'
      BY <2>3, <3>1 DEF LoopInv
    <3>4. /\ receipts'[e.key].status = "accepted"
          /\ receipts'[e.key].payload = e.payload
      <4> DEFINE receipt == [payload |-> e.payload, status |-> "accepted",
                             stopConfirmed |-> FALSE, stamp |-> arrivals]
                 book == [k \in DOMAIN receipts \cup {e.key} |->
                            IF k = e.key THEN receipt ELSE receipts[k]]
                 holder == IF e.payload.op \in Motion THEN e.key ELSE active
      <4>1. Retain(book, holder)
        BY <2>1, <2>8 DEF Accept
      <4>2. receipts'[e.key] = book[e.key]
        BY <2>2, <4>1 DEF Retain
      <4> QED BY <4>2
    <3>5. e.payload.op \in Motion <=> active' = e.key
      <4>1. active' = IF e.payload.op \in Motion THEN e.key ELSE active
        BY <2>1, <2>8 DEF Accept
      <4>2. active # e.key
        BY <2>1, <2>3 DEF Accept, IsFresh, RuntimeInv, TrackerInv, SlotReceiptRetained
      <4> QED BY <4>1, <4>2
    <3>6. e.payload.op \in Motion => \A kind \in Kind : current'[kind] = None
      <4>1. e.payload.op \in Motion => active = None
        BY <2>8 DEF IsBusy, Motion, PassBusy
      <4> QED BY <2>1, <4>1 DEF RuntimeInv, OneGoal
    <3>7. FlightInv'
      BY <2>2, <3>1, <3>4, <3>5, <3>6 DEF FlightInv, Request
    <3> QED BY <2>2, <2>6, <3>2, <3>3, <3>7 DEF RuntimeInv
  <2> QED BY <2>7, <2>8
<1> QED BY <1>1, <1>2, <1>3 DEF Receive

\* A dispatch step that leaves the tracker alone and answers its caller.
LEMMA AnswerInv ==
  ASSUME RuntimeInv, pc = "adapter", Request.op \notin Motion,
         NEW outcome \in {"succeeded", "failed"}, Answer(outcome),
         TrackerInv', DOMAIN receipts' = DOMAIN receipts,
         receipts'[inflight] = receipts[inflight],
         active' \in {active, None},
         current' \in [Kind -> Key \cup {None}], fault' \in [Kind -> BOOLEAN],
         monitored' = monitored, cmdError' = cmdError,
         base' \in {"idle", "moving", "arrived"},
         OneGoal'
  PROVE  RuntimeInv'
<1>1. inflight # None /\ inflight' = inflight /\ pc' = "ack" /\ verdict' = outcome
  BY DEF RuntimeInv, LoopInv, Answer
<1>2. outcome # None
  BY RuntimeAssumption DEF Status, Terminal
<1>3. TypeOK'
  BY <1>1 DEF RuntimeInv, TypeOK, TrackerInv
<1>4. FlightInv'
  BY <1>1 DEF RuntimeInv, FlightInv, Request
<1>5. LoopInv'
  BY <1>1, <1>2 DEF RuntimeInv, LoopInv
<1> QED BY <1>3, <1>4, <1>5 DEF RuntimeInv

\* Starting a motion: its command is in flight, open and in the motion slot.
LEMMA StartInv ==
  ASSUME RuntimeInv, StartMotion
  PROVE  RuntimeInv'
<1> DEFINE kind == KindOf(Request.op)
<1>1. /\ pc = "adapter" /\ Request.op \in Motion /\ cmdError' = cmdError
      /\ kind \in Kind
  BY DEF StartMotion, Dispatching, KindOf, Kind
<1>2. /\ inflight \in DOMAIN receipts /\ active = inflight /\ inflight # None
      /\ verdict = None
      /\ \A k \in Kind : current[k] = None
  BY <1>1 DEF RuntimeInv, LoopInv, FlightInv
<1>3. current \in [Kind -> Key \cup {None}] /\ inflight \in Key
  BY <1>2 DEF RuntimeInv, TypeOK
<1>4. CASE /\ base' = "moving"
           /\ current' = [current EXCEPT ![kind] = inflight]
           /\ monitored' \in IF kind = "navigation" THEN {FALSE, HasPolicies} ELSE {monitored}
           /\ Answer("running")
           /\ UNCHANGED <<trackerVars, fault>>
  <2>1. TrackerInv' /\ UNCHANGED <<receipts, active, inflight>>
    BY <1>4, QuietInv DEF RuntimeInv, trackerVars, Answer
  <2>2. pc' = "ack" /\ verdict' = "running" /\ "running" # None
    BY <1>4, RuntimeAssumption DEF Answer, Status
  <2>3. /\ \A k \in Kind \ {kind} : current'[k] = None
        /\ current'[kind] = active
    <3> HIDE DEF kind
    <3> QED BY <1>1, <1>2, <1>3, <1>4
  <2>4. Kind \ {kind} # {}
    BY DEF Kind
  <2>5. OneGoal'
    BY <2>1, <2>3, <2>4 DEF OneGoal
  <2>6. TypeOK'
    <3>1. current' \in [Kind -> Key \cup {None}]
      BY <1>3, <1>4
    <3>2. monitored' \in BOOLEAN
      BY <1>4, RuntimeAssumption DEF RuntimeInv, TypeOK
    <3> QED BY <1>1, <1>4, <2>1, <2>2, <3>1, <3>2 DEF RuntimeInv, TypeOK, TrackerInv
  <2>7. LoopInv' /\ FlightInv'
    BY <1>1, <1>2, <2>1, <2>2 DEF RuntimeInv, LoopInv, FlightInv, Request
  <2> QED BY <2>1, <2>5, <2>6, <2>7 DEF RuntimeInv
<1>5. CASE /\ \E from \in {base, "moving"}, stopped \in BOOLEAN :
                Finish(kind, inflight, from, "failed", stopped)
           /\ monitored' \in {monitored, monitored /\ kind = "reactive"}
           /\ Return
  <2>1. PICK from \in {base, "moving"}, stopped \in BOOLEAN :
          Finish(kind, inflight, from, "failed", stopped)
    BY <1>5
  <2>2. from \in {"idle", "moving", "arrived"}
    BY DEF RuntimeInv, TypeOK
  <2>3. /\ TrackerInv' /\ OneGoal'
        /\ current' \in [Kind -> Key \cup {None}]
        /\ fault' \in [Kind -> BOOLEAN]
        /\ base' \in {"idle", "moving", "arrived"}
        /\ base' = "moving" => active' = active
    BY <1>1, <1>2, <2>1, <2>2, FinishLemma DEF RuntimeInv
  <2>4. pc' = "poll" /\ inflight' = None /\ verdict' = None
    BY <1>2, <1>5 DEF Return
  <2>5. TypeOK'
    BY <1>1, <1>5, <2>3, <2>4 DEF RuntimeInv, TypeOK, TrackerInv
  <2>6. LoopInv' /\ FlightInv'
    BY <1>2, <2>3, <2>4 DEF LoopInv, FlightInv
  <2> QED BY <2>3, <2>5, <2>6 DEF RuntimeInv
<1> QED BY <1>4, <1>5 DEF StartMotion

LEMMA CancelInv ==
  ASSUME RuntimeInv, CancelMotion
  PROVE  RuntimeInv'
<1> DEFINE kind == KindOf(Request.op)
           goal == current[kind]
<1>1. /\ pc = "adapter" /\ Request.op \notin Motion
      /\ monitored' = monitored /\ cmdError' = cmdError
      /\ kind \in Kind
  BY DEF CancelMotion, Dispatching, KindOf, Kind, Motion
<1>2. inflight # None /\ inflight \in DOMAIN receipts /\ active # inflight
  BY <1>1 DEF RuntimeInv, LoopInv, FlightInv
<1>3. CASE /\ \E outcome \in {"succeeded", "failed"} : Answer(outcome)
           /\ UNCHANGED <<trackerVars, current, fault, base>>
  <2>1. TrackerInv' /\ UNCHANGED <<receipts, active>>
    BY <1>3, QuietInv DEF RuntimeInv, trackerVars
  <2>2. OneGoal'
    BY <1>3, <2>1 DEF RuntimeInv, OneGoal
  <2> QED BY <1>1, <1>3, <2>1, <2>2, AnswerInv DEF RuntimeInv, TypeOK
<1>4. CASE /\ goal # None
           /\ \E stopped \in BOOLEAN, outcome \in {"succeeded", "failed"} :
                /\ Finish(kind, goal, base, "cancelled", stopped)
                /\ Answer(outcome)
  <2> HIDE DEF kind
  <2>1. PICK stopped \in BOOLEAN, outcome \in {"succeeded", "failed"} :
          /\ Finish(kind, goal, base, "cancelled", stopped)
          /\ Answer(outcome)
    BY <1>4
  <2>2. /\ goal = active /\ goal \in DOMAIN receipts
        /\ \A other \in Kind \ {kind} : current[other] = None
    BY <1>1, <1>4 DEF RuntimeInv, OneGoal, Kind, TrackerInv, SlotReceiptRetained
  <2>3. base \in {"idle", "moving", "arrived"}
    BY DEF RuntimeInv, TypeOK
  <2> HIDE DEF goal
  <2>4. /\ TrackerInv' /\ OneGoal'
        /\ DOMAIN receipts' = DOMAIN receipts
        /\ receipts'[inflight] = receipts[inflight]
        /\ current' \in [Kind -> Key \cup {None}]
        /\ fault' \in [Kind -> BOOLEAN]
        /\ base' \in {"idle", "moving", "arrived"}
        /\ base' = "moving" => active' = active
        /\ active' \in {active, None}
    BY <1>1, <1>2, <2>1, <2>2, <2>3, FinishLemma DEF RuntimeInv
  <2> QED BY <1>1, <2>1, <2>4, AnswerInv
<1> QED BY <1>3, <1>4 DEF CancelMotion

LEMMA UpdateInv ==
  ASSUME RuntimeInv, UpdateGoal
  PROVE  RuntimeInv'
<1> DEFINE goal == current["reactive"]
           addressed == goal # None /\ Request.target = goal /\ ~fault["reactive"]
<1>1. /\ pc = "adapter" /\ Request.op \notin Motion
      /\ monitored' = monitored /\ cmdError' = cmdError
      /\ "reactive" \in Kind
  BY DEF UpdateGoal, Dispatching, Kind, Motion
<1>2. inflight # None /\ inflight \in DOMAIN receipts /\ active # inflight
  BY <1>1 DEF RuntimeInv, LoopInv, FlightInv
<1>3. goal # None =>
        /\ goal = active /\ goal \in DOMAIN receipts
        /\ \A other \in Kind \ {"reactive"} : current[other] = None
  BY <1>1 DEF RuntimeInv, OneGoal, Kind, TrackerInv, SlotReceiptRetained
<1>4. CASE Answer("failed") /\ UNCHANGED <<trackerVars, current, fault, base>>
  <2>1. TrackerInv' /\ UNCHANGED <<receipts, active>>
    BY <1>4, QuietInv DEF RuntimeInv, trackerVars
  <2>2. OneGoal'
    BY <1>4, <2>1 DEF RuntimeInv, OneGoal
  <2> QED BY <1>1, <1>4, <2>1, <2>2, AnswerInv DEF RuntimeInv, TypeOK
<1>5. CASE /\ goal # None
           /\ \E from \in {base, "moving"}, stopped \in BOOLEAN :
                Finish("reactive", goal, from, "failed", stopped)
           /\ Answer("failed")
  <2>1. PICK from \in {base, "moving"}, stopped \in BOOLEAN :
          Finish("reactive", goal, from, "failed", stopped)
    BY <1>5
  <2>2. from \in {"idle", "moving", "arrived"}
    BY DEF RuntimeInv, TypeOK
  <2> HIDE DEF goal
  <2>3. /\ TrackerInv' /\ OneGoal'
        /\ DOMAIN receipts' = DOMAIN receipts
        /\ receipts'[inflight] = receipts[inflight]
        /\ current' \in [Kind -> Key \cup {None}]
        /\ fault' \in [Kind -> BOOLEAN]
        /\ base' \in {"idle", "moving", "arrived"}
        /\ base' = "moving" => active' = active
        /\ active' \in {active, None}
    BY <1>1, <1>2, <1>3, <1>5, <2>1, <2>2, FinishLemma DEF RuntimeInv
  <2> QED BY <1>1, <1>5, <2>3, AnswerInv
<1>6. CASE /\ goal # None
           /\ base' = "moving"
           /\ Transition(goal, "running", FALSE, TRUE)
           /\ Answer("succeeded")
           /\ UNCHANGED <<current, fault>>
  <2> HIDE DEF goal
  <2>1. TrackerInv' /\ DOMAIN receipts' = DOMAIN receipts
    BY <1>3, <1>6, TransitionInv DEF RuntimeInv
  <2>2. active' = active /\ receipts'[inflight] = receipts[inflight]
    BY <1>2, <1>3, <1>6 DEF Transition, Terminal
  <2>3. OneGoal'
    BY <1>3, <1>6, <2>2 DEF RuntimeInv, OneGoal
  <2> QED BY <1>1, <1>6, <2>1, <2>2, <2>3, AnswerInv DEF RuntimeInv, TypeOK
<1> QED BY <1>4, <1>5, <1>6 DEF UpdateGoal

LEMMA ReleaseHandleInv ==
  ASSUME RuntimeInv, Release \/ HandleAction
  PROVE  RuntimeInv'
<1>1. /\ pc = "adapter" /\ Request.op \notin Motion
      /\ UNCHANGED <<current, fault, monitored, cmdError, base>>
  BY DEF Release, HandleAction, Dispatching, Motion
<1>2. inflight # None /\ inflight \in Key
  BY <1>1 DEF RuntimeInv, LoopInv, TypeOK
<1>3. PICK outcome \in {"succeeded", "failed"} : Answer(outcome)
  BY DEF Release, HandleAction
<1>4. Owner(inflight) \in Session
  BY <1>2 DEF Owner, Key
<1>5. \/ UNCHANGED trackerVars
      \/ ReleaseControl(Owner(inflight))
  BY DEF Release, HandleAction
<1>6. TrackerInv'
  BY <1>4, <1>5, QuietInv, ReleaseInv DEF RuntimeInv
<1>7. UNCHANGED <<receipts, active>>
  BY <1>5 DEF trackerVars, ReleaseControl
<1>8. OneGoal'
  BY <1>1, <1>7 DEF RuntimeInv, OneGoal
<1> QED BY <1>1, <1>3, <1>6, <1>7, <1>8, AnswerInv DEF RuntimeInv, TypeOK

\* The record of a command's own outcome: a motion is running, and keeps its
\* slot; another command is over, and never held it.
LEMMA AcknowledgeInv ==
  ASSUME RuntimeInv, Acknowledge
  PROVE  RuntimeInv'
<1>1. /\ pc = "ack" /\ Transition(inflight, verdict, FALSE, TRUE)
      /\ pc' = "poll" /\ inflight' = None /\ verdict' = None
      /\ UNCHANGED <<current, fault, monitored, cmdError, base>>
  BY DEF Acknowledge
<1>2. /\ inflight # None /\ inflight \in DOMAIN receipts
      /\ verdict \in {"running", "succeeded", "failed"}
      /\ Request.op \in Motion <=> active = inflight
      /\ verdict = "running" <=> Request.op \in Motion
  BY <1>1 DEF RuntimeInv, LoopInv, FlightInv, TypeOK
<1>3. TrackerInv'
  BY <1>1, <1>2, TransitionInv DEF RuntimeInv, Terminal
<1>4. active' = active
  BY <1>1, <1>2 DEF Transition, Terminal
<1>5. TypeOK'
  BY <1>1, <1>3 DEF RuntimeInv, TypeOK, TrackerInv
<1>6. LoopInv' /\ FlightInv' /\ OneGoal'
  BY <1>1, <1>4 DEF RuntimeInv, LoopInv, FlightInv, OneGoal
<1> QED BY <1>3, <1>5, <1>6 DEF RuntimeInv

\* Polling ends a goal, records its success, or lets it go on.
LEMMA PollInv ==
  ASSUME RuntimeInv, Poll
  PROVE  RuntimeInv'
<1>1. base \in {"idle", "moving", "arrived"}
  BY DEF RuntimeInv, TypeOK
<1>2. "navigation" \in Kind
  BY DEF Kind
<1>3. ASSUME NEW kind \in Kind, current[kind] # None
      PROVE  /\ current[kind] = active /\ current[kind] \in DOMAIN receipts
             /\ \A other \in Kind \ {kind} : current[other] = None
  BY <1>3 DEF RuntimeInv, OneGoal, Kind, TrackerInv, SlotReceiptRetained
<1>4. CASE NoGoal
  BY <1>4, LoopStepInv DEF NoGoal, RuntimeInv, TypeOK
<1>5. ASSUME NEW kind \in Kind, GoalInProgress(kind) PROVE RuntimeInv'
  BY <1>5, LoopStepInv DEF GoalInProgress, Polled, RuntimeInv, TypeOK
<1>6. ASSUME NEW kind \in Kind, current[kind] # None, pc \in {"poll", "correct"},
             \E from \in {base, "moving"}, status \in {"failed", "succeeded"},
                stopped \in BOOLEAN :
               Finish(kind, current[kind], from, status, stopped),
             pc' \in {"dead", "recv"},
             UNCHANGED <<inflight, verdict, monitored, cmdError>>
      PROVE  RuntimeInv'
  <2>1. PICK from \in {base, "moving"}, status \in {"failed", "succeeded"},
             stopped \in BOOLEAN :
          Finish(kind, current[kind], from, status, stopped)
    BY <1>6
  <2>2. from \in {"idle", "moving", "arrived"}
    BY <1>1
  <2>3. /\ TrackerInv' /\ OneGoal'
        /\ current' \in [Kind -> Key \cup {None}]
        /\ fault' \in [Kind -> BOOLEAN]
        /\ base' \in {"idle", "moving", "arrived"}
        /\ base' = "moving" => active' = active
    BY <1>3, <1>6, <2>1, <2>2, FinishLemma DEF RuntimeInv
  <2>4. inflight' = None /\ verdict' = None
    BY <1>6 DEF RuntimeInv, LoopInv
  <2>5. TypeOK'
    BY <1>6, <2>3, <2>4 DEF RuntimeInv, TypeOK, TrackerInv
  <2>6. LoopInv' /\ FlightInv'
    BY <1>3, <1>6, <2>3, <2>4 DEF LoopInv, FlightInv
  <2> QED BY <2>3, <2>5, <2>6 DEF RuntimeInv
<1>7. ASSUME NEW kind \in Kind, GoalEnds(kind) PROVE RuntimeInv'
  <2>1. /\ \E from \in {base, "moving"}, status \in {"failed", "succeeded"},
              stopped \in BOOLEAN :
             Finish(kind, current[kind], from, status, stopped)
        /\ pc' \in {"dead", "recv"}
        /\ UNCHANGED <<inflight, verdict, monitored, cmdError>>
    BY <1>7 DEF GoalEnds
  <2>2. current[kind] # None /\ pc = "poll"
    BY <1>7 DEF GoalEnds, Polled
  <2> QED BY <1>6, <2>1, <2>2
<1>8. CASE NavigationSucceeds
  <2> DEFINE goal == current["navigation"]
  <2>1. /\ goal # None /\ pc = "poll" /\ base = "arrived"
        /\ UNCHANGED <<inflight, verdict, fault, monitored, cmdError, base>>
    BY <1>8 DEF NavigationSucceeds, Polled
  <2>2. /\ goal = active /\ goal \in DOMAIN receipts
        /\ \A other \in Kind \ {"navigation"} : current[other] = None
    BY <1>2, <1>3, <2>1
  <2>3. inflight' = None /\ verdict' = None
    BY <2>1 DEF RuntimeInv, LoopInv
  <2>4. CASE pc' = "dead" /\ UNCHANGED <<trackerVars, current>>
    <3>1. TrackerInv' /\ UNCHANGED <<receipts, active>>
      BY <2>4, QuietInv DEF RuntimeInv, trackerVars
    <3>2. TypeOK'
      BY <2>1, <2>4, <3>1 DEF RuntimeInv, TypeOK, TrackerInv
    <3>3. LoopInv' /\ FlightInv' /\ OneGoal'
      BY <2>1, <2>3, <2>4, <3>1 DEF RuntimeInv, LoopInv, FlightInv, OneGoal
    <3> QED BY <3>1, <3>2, <3>3 DEF RuntimeInv
  <2>5. CASE /\ Transition(goal, "succeeded", FALSE, TRUE)
             /\ current' = [current EXCEPT !["navigation"] = None]
             /\ pc' = "recv"
    <3>1. TrackerInv'
      BY <2>2, <2>5, TransitionInv DEF RuntimeInv, Terminal
    <3>2. /\ current' \in [Kind -> Key \cup {None}]
          /\ \A kind \in Kind : current'[kind] = None
      BY <2>2, <2>5 DEF RuntimeInv, TypeOK
    <3>3. TypeOK'
      BY <2>1, <2>5, <3>1, <3>2 DEF RuntimeInv, TypeOK, TrackerInv
    <3>4. LoopInv' /\ FlightInv' /\ OneGoal'
      BY <1>2, <2>1, <2>3, <2>5, <3>2 DEF LoopInv, FlightInv, OneGoal
    <3> QED BY <3>1, <3>3, <3>4 DEF RuntimeInv
  <2> QED BY <1>8, <2>4, <2>5 DEF NavigationSucceeds
<1>9. CASE CorrectionStops
  <2>1. base' \in {"idle", "moving", "arrived"} /\ base' # "moving"
    BY <1>1, <1>9 DEF CorrectionStops, Stop
  <2> QED BY <1>9, <2>1, LoopStepInv DEF CorrectionStops, Polled, RuntimeInv, TypeOK
<1>10. CASE CorrectionStarts
  <2>1. current["navigation"] # None
    BY <1>10 DEF CorrectionStarts, RuntimeInv, LoopInv
  <2>2. active # None
    BY <1>2, <1>3, <2>1
  <2>3. CASE base' = "moving" /\ pc' = "recv" /\ UNCHANGED <<trackerVars, current, fault>>
    BY <1>10, <2>2, <2>3, LoopStepInv DEF CorrectionStarts, RuntimeInv, TypeOK
  <2>4. CASE \E from \in {base, "moving"}, stopped \in BOOLEAN :
               /\ Finish("navigation", current["navigation"], from, "failed", stopped)
               /\ pc' = IF FinishRaises(current["navigation"], "failed", stopped)
                        THEN "dead" ELSE "recv"
    BY <1>2, <1>6, <1>10, <2>1, <2>4 DEF CorrectionStarts
  <2> QED BY <1>10, <2>3, <2>4 DEF CorrectionStarts
<1> QED BY <1>4, <1>5, <1>7, <1>8, <1>9, <1>10 DEF Poll

\* The robot stops by itself, the clock runs, or nothing happens.
LEMMA EnvironmentInv ==
  ASSUME RuntimeInv, Robot \/ Clock \/ UNCHANGED vars
  PROVE  RuntimeInv'
<1>1. /\ Expire \/ UNCHANGED trackerVars
      /\ UNCHANGED <<pc, inflight, verdict, current, fault, monitored, cmdError>>
      /\ base' \in {base, "idle", "arrived"}
  BY DEF Robot, BaseArrives, BaseHalts, Clock, runtimeVars, vars
<1>2. TrackerInv'
  BY <1>1, QuietInv DEF RuntimeInv
<1>3. UNCHANGED <<receipts, active>>
  BY <1>1 DEF Expire, trackerVars
<1>4. TypeOK'
  BY <1>1, <1>2 DEF RuntimeInv, TypeOK, TrackerInv
<1>5. LoopInv' /\ OneGoal'
  BY <1>1, <1>3 DEF RuntimeInv, LoopInv, OneGoal
<1>6. FlightInv'
  BY <1>1, <1>3 DEF RuntimeInv, FlightInv, Request
<1> QED BY <1>2, <1>4, <1>5, <1>6 DEF RuntimeInv

LEMMA RuntimeNextInv == RuntimeInv /\ [Next]_vars => RuntimeInv'
<1> SUFFICES ASSUME RuntimeInv, [Next]_vars PROVE RuntimeInv'
  OBVIOUS
<1>1. CASE NothingReceived
  BY <1>1, LoopStepInv DEF NothingReceived, RuntimeInv, TypeOK
<1>2. CASE Dispatch
  BY <1>2, StartInv, CancelInv, UpdateInv, ReleaseHandleInv, AcknowledgeInv DEF Dispatch
<1> QED BY <1>1, <1>2, ReceiveInv, PollInv, EnvironmentInv DEF Next, ReceiveLoop

LEMMA RuntimeAlways == Spec => []RuntimeInv
<1> QED BY RuntimeInitInv, RuntimeNextInv, PTL DEF Spec

-----------------------------------------------------------------------------
(* Theorems: invariants *)

\* The runtime's state keeps its types.
THEOREM RuntimeTypes == Spec => []TypeOK
<1>1. RuntimeInv => TypeOK
  BY DEF RuntimeInv
<1> QED BY <1>1, RuntimeAlways, PTL

\* At most one goal is in progress, and it holds the tracker's motion slot.
THEOREM SingleGoal == Spec => []OneGoal
<1>1. RuntimeInv => OneGoal
  BY DEF RuntimeInv
<1> QED BY <1>1, RuntimeAlways, PTL

\* The receipt of the command being dispatched is never evicted under it.
THEOREM DispatchFindsReceipt == Spec => []InflightRetained
<1>1. RuntimeInv => InflightRetained
  BY DEF RuntimeInv, InflightRetained, FlightInv
<1> QED BY <1>1, RuntimeAlways, PTL

-----------------------------------------------------------------------------
(* Theorems: the deadline *)

\* A step that sets a resting robot in motion for a running goal starts a
\* correction, or happens before the deadline.
THEOREM DeadlineKept == Spec => NoMotionPastDeadline
<1>1. RuntimeInv /\ [Next]_vars =>
        [(ExpiredNavigation /\ receipts[active].status = "running" /\ pc # "correct")
           => /\ base' = "moving" => base = "moving"
              /\ pc' # "correct"]_vars
  <2> SUFFICES ASSUME RuntimeInv, Next, ExpiredNavigation,
                      receipts[active].status = "running", pc # "correct",
                      (base' = "moving" /\ base # "moving") \/ pc' = "correct"
               PROVE  FALSE
    OBVIOUS
  <2>1. ASSUME NEW kind \in Kind, NEW k, NEW status, NEW stopped \in BOOLEAN,
               Finish(kind, k, base, status, stopped)
        PROVE  base' = "moving" => base = "moving"
    BY <2>1 DEF Finish, Stop
  <2>2. ~StartMotion
    BY DEF StartMotion, Dispatching, RuntimeInv, FlightInv, LoopInv
  <2>3. ~CancelMotion
    BY <2>1 DEF CancelMotion, KindOf, Kind, Answer
  <2>4. ~UpdateGoal
    BY <2>1 DEF UpdateGoal, Kind, InTime, Answer
  <2>5. ~Poll
    BY <2>1 DEF Poll, NoGoal, GoalInProgress, GoalEnds, NavigationSucceeds,
                CorrectionStops, CorrectionStarts, InTime
  <2> QED BY <2>2, <2>3, <2>4, <2>5
          DEF Next, ReceiveLoop, Dispatch, Receive, RefuseCommand, RepeatCommand,
              AcceptCommand, NothingReceived, Release, HandleAction, Acknowledge,
              Answer, Robot, BaseArrives, BaseHalts, Clock, runtimeVars
<1> QED BY <1>1, RuntimeAlways, PTL DEF Spec, NoMotionPastDeadline

-----------------------------------------------------------------------------
(* Theorems: the runtime as a caller of the tracker *)

LEMMA FinishTracks ==
  ASSUME NEW kind, NEW k \in DOMAIN receipts, NEW from,
         NEW status \in {"failed", "succeeded", "cancelled"}, NEW stopped \in BOOLEAN,
         Finish(kind, k, from, status, stopped)
  PROVE  [TrackerNext]_trackerVars
<1>1. Final(status, stopped) \in Terminal \cup {"running"}
  BY DEF Final, Terminal
<1> QED BY <1>1 DEF Finish, TrackerNext

LEMMA StepTracks == RuntimeInv /\ [Next]_vars => [TrackerNext]_trackerVars
<1> SUFFICES ASSUME RuntimeInv, Next, trackerVars' # trackerVars PROVE TrackerNext
  BY DEF vars
<1>1. ASSUME NEW kind \in Kind, current[kind] # None
      PROVE  current[kind] \in DOMAIN receipts
  BY <1>1 DEF RuntimeInv, OneGoal, TrackerInv, SlotReceiptRetained
<1>2. pc \in {"adapter", "ack"} => inflight \in DOMAIN receipts /\ inflight \in Key
  BY DEF RuntimeInv, LoopInv, FlightInv, TypeOK
<1>3. CASE \E e \in Envelope : Receive(e)
  BY <1>3 DEF Receive, RefuseCommand, RepeatCommand, AcceptCommand, TrackerNext
<1>4. CASE StartMotion
  BY <1>2, <1>4, FinishTracks DEF StartMotion, Dispatching
<1>5. CASE CancelMotion
  BY <1>1, <1>5, FinishTracks DEF CancelMotion, KindOf, Kind
<1>6. CASE UpdateGoal
  <2>1. "reactive" \in Kind
    BY DEF Kind
  <2>2. CASE \E from \in {base, "moving"}, stopped \in BOOLEAN :
               current["reactive"] # None
               /\ Finish("reactive", current["reactive"], from, "failed", stopped)
    BY <1>1, <2>1, <2>2, FinishTracks
  <2>3. CASE current["reactive"] # None
             /\ Transition(current["reactive"], "running", FALSE, TRUE)
    BY <1>1, <2>1, <2>3 DEF TrackerNext
  <2> QED BY <1>6, <2>2, <2>3 DEF UpdateGoal
<1>7. CASE Release \/ HandleAction
  <2>1. ReleaseControl(Owner(inflight))
    BY <1>7 DEF Release, HandleAction
  <2>2. Owner(inflight) \in Session
    BY <1>2, <1>7 DEF Release, HandleAction, Dispatching, Owner, Key
  <2> QED BY <2>1, <2>2 DEF TrackerNext
<1>8. CASE Acknowledge
  <2>1. Transition(inflight, verdict, FALSE, TRUE) /\ inflight \in DOMAIN receipts
    BY <1>2, <1>8 DEF Acknowledge
  <2>2. verdict \in Terminal \cup {"running"}
    BY <1>8 DEF Acknowledge, RuntimeInv, TypeOK, LoopInv, Terminal
  <2> QED BY <2>1, <2>2 DEF TrackerNext
<1>9. CASE Poll
  <2>1. ASSUME NEW kind \in Kind, GoalEnds(kind) PROVE TrackerNext
    <3>1. current[kind] # None
      BY <2>1 DEF GoalEnds, Polled
    <3>2. PICK status \in {"failed", "succeeded"}, stopped \in BOOLEAN :
            Finish(kind, current[kind], base, status, stopped)
      BY <2>1 DEF GoalEnds
    <3> QED BY <1>1, <3>1, <3>2, FinishTracks
  <2>2. CASE NavigationSucceeds
    <3>1. /\ Transition(current["navigation"], "succeeded", FALSE, TRUE)
          /\ current["navigation"] # None
      BY <2>2 DEF NavigationSucceeds, Polled
    <3>2. "navigation" \in Kind
      BY DEF Kind
    <3> QED BY <1>1, <3>1, <3>2 DEF TrackerNext, Terminal
  <2>3. CASE CorrectionStarts
    <3>1. /\ current["navigation"] # None /\ "navigation" \in Kind
          /\ \E from \in {base, "moving"}, stopped \in BOOLEAN :
               Finish("navigation", current["navigation"], from, "failed", stopped)
      BY <2>3 DEF CorrectionStarts, RuntimeInv, LoopInv, Kind
    <3> QED BY <1>1, <3>1, FinishTracks
  <2> QED BY <1>9, <2>1, <2>2, <2>3 DEF Poll, NoGoal, GoalInProgress, CorrectionStops
<1>10. CASE NothingReceived \/ Robot
  BY <1>10 DEF NothingReceived, Robot
<1>11. CASE Clock
  BY <1>11 DEF Clock, TrackerNext
<1> QED BY <1>3, <1>4, <1>5, <1>6, <1>7, <1>8, <1>9, <1>10, <1>11
        DEF Next, ReceiveLoop, Dispatch

\* The runtime uses the tracker as its specification allows, so whatever holds
\* of the tracker under any caller holds here.
THEOREM RuntimeUsesTracker == Spec => TrackerSpec
<1>1. Init => TrackerInit
  BY DEF Init
<1> QED BY <1>1, StepTracks, RuntimeAlways, PTL DEF Spec, TrackerSpec

-----------------------------------------------------------------------------
(* Theorems: refinement *)

\* What a step may do to the motion slot and to the robot, apart from an
\* acceptance and a hand-over: the abstract steps Start, Rest, Vacate, or none.
MotionStep ==
  /\ UNCHANGED <<session, retired, ledger>>
  /\ \/ active' = active /\ (base' = "moving" => base = "moving" \/ active # None)
     \/ active # None /\ active' = None /\ base' # "moving"

LEMMA MotionRefines ==
  ASSUME RuntimeInv, MotionStep
  PROVE  [Authority!Next]_(Authority!authorityVars)
<1> USE DEF MotionStep
<1>1. CASE active' = active /\ (base = "moving" <=> base' = "moving")
  BY <1>1 DEF Authority!authorityVars
<1>2. CASE active' = active /\ base = "moving" /\ base' # "moving"
  BY <1>2 DEF Authority!Next, Authority!Rest
<1>3. CASE active' = active /\ base # "moving" /\ base' = "moving"
  BY <1>3 DEF Authority!Next, Authority!Start
<1>4. CASE active # None /\ active' = None /\ base' # "moving"
  BY <1>4 DEF Authority!Next, Authority!Vacate
<1> QED BY <1>1, <1>2, <1>3, <1>4

LEMMA FinishMoves ==
  ASSUME RuntimeInv, NEW kind \in Kind, NEW k \in DOMAIN receipts, k = active,
         \A other \in Kind \ {kind} : current[other] = None,
         NEW from \in {base, "moving"},
         NEW status \in {"failed", "succeeded", "cancelled"},
         NEW stopped \in BOOLEAN,
         Finish(kind, k, from, status, stopped)
  PROVE  MotionStep
<1>1. from \in {"idle", "moving", "arrived"} /\ active # None
  BY KeyLemma DEF RuntimeInv, TypeOK, TrackerInv, TrackerTypeOK
<1>2. /\ UNCHANGED <<session, retired, ledger>>
      /\ base' = "moving" => active' = active
      /\ active' \in {active, None}
  BY <1>1, FinishLemma DEF RuntimeInv
<1> QED BY <1>1, <1>2 DEF MotionStep

LEMMA AcceptRefines ==
  ASSUME RuntimeInv, NEW e \in Envelope, Accept(e), base' = base
  PROVE  Authority!Next
<1> DEFINE spent == {l.key : l \in ledger}
<1>1. /\ e.key \in Key /\ e.key[1] = Owner(e.key) /\ Owner(e.key) # None
      /\ e.key[2] \in Int
  BY KeyLemma DEF Envelope
<1>2. /\ session \in {None, e.key[1]} /\ e.key[1] \notin retired
      /\ session' = e.key[1] /\ e.key[2] > highWater
  BY <1>1 DEF Accept, IsFresh, MayCommand
<1>3. \A l \in ledger : l.key[1] = e.key[1] => l.key[2] < e.key[2]
  <2> SUFFICES ASSUME NEW l \in ledger, l.key[1] = e.key[1]
               PROVE  l.key[2] < e.key[2]
    OBVIOUS
  <2>1. l.key \in Key
    BY DEF RuntimeInv, TrackerInv, TrackerTypeOK, Entry
  <2>2. l.key[2] <= highWater /\ highWater \in Int /\ l.key[2] \in Int
    BY <1>1, <1>2, <2>1, KeyLemma, HighWaterLemma DEF RuntimeInv, TrackerInv, LedgerBehind
  <2> QED BY <1>1, <1>2, <2>2
<1>4. {l.key : l \in ledger'} = spent \cup {e.key}
  <2>1. \E m : m.key = e.key /\ ledger' = ledger \cup {m}
    BY DEF Accept
  <2> QED BY <2>1
<1>5. active' \in {active, IF active = None THEN e.key ELSE active}
  BY DEF Accept, IsBusy, Motion, PassBusy
<1>6. Authority!Spend(e.key)
  BY <1>1, <1>2, <1>3, <1>4, <1>5 DEF Authority!Spend, Accept
<1> QED BY <1>1, <1>6 DEF Authority!Next, Authority!Key, Key

LEMMA StepRefines == RuntimeInv /\ [Next]_vars => [Authority!Next]_(Authority!authorityVars)
<1> SUFFICES ASSUME RuntimeInv, [Next]_vars
             PROVE  [Authority!Next]_(Authority!authorityVars)
  OBVIOUS
<1>1. ASSUME NEW kind \in Kind, current[kind] # None
      PROVE  /\ current[kind] = active /\ current[kind] \in DOMAIN receipts
             /\ active # None
             /\ \A other \in Kind \ {kind} : current[other] = None
  BY <1>1 DEF RuntimeInv, OneGoal, Kind, TrackerInv, SlotReceiptRetained
<1>2. pc \in {"adapter", "ack"} => inflight \in DOMAIN receipts /\ inflight # None
  BY DEF RuntimeInv, LoopInv, FlightInv
<1>3. "navigation" \in Kind /\ "reactive" \in Kind
  BY DEF Kind
<1>4. CASE /\ UNCHANGED <<session, retired, ledger, active>>
           /\ base' = "moving" => base = "moving"
  BY <1>4, MotionRefines DEF MotionStep
<1>5. ASSUME NEW e \in Envelope, Receive(e)
      PROVE  [Authority!Next]_(Authority!authorityVars)
  BY <1>4, <1>5, AcceptRefines
     DEF Receive, RefuseCommand, RepeatCommand, AcceptCommand, trackerVars
<1>6. CASE StartMotion
  <2>1. /\ active = inflight /\ inflight \in DOMAIN receipts /\ inflight # None
        /\ \A kind \in Kind : current[kind] = None
    BY <1>2, <1>6 DEF StartMotion, Dispatching, RuntimeInv, FlightInv
  <2>2. KindOf(Request.op) \in Kind
    BY <1>3 DEF KindOf
  <2>3. MotionStep
    BY <1>6, <2>1, <2>2, FinishMoves DEF StartMotion, MotionStep, trackerVars
  <2> QED BY <2>3, MotionRefines
<1>7. CASE CancelMotion
  <2>1. KindOf(Request.op) \in Kind
    BY <1>3 DEF KindOf
  <2>2. MotionStep
    BY <1>1, <1>7, <2>1, FinishMoves DEF CancelMotion, MotionStep, trackerVars
  <2> QED BY <2>2, MotionRefines
<1>8. CASE UpdateGoal
  <2> DEFINE goal == current["reactive"]
  <2>1. CASE /\ goal # None
             /\ \E from \in {base, "moving"}, stopped \in BOOLEAN :
                  Finish("reactive", goal, from, "failed", stopped)
    BY <1>1, <1>3, <2>1, FinishMoves, MotionRefines
  <2>2. CASE goal # None /\ Transition(goal, "running", FALSE, TRUE)
    <3>1. MotionStep
      BY <1>1, <1>3, <2>2 DEF MotionStep, Transition, Terminal
    <3> QED BY <3>1, MotionRefines
  <2> QED BY <1>4, <1>8, <2>1, <2>2 DEF UpdateGoal, trackerVars
<1>9. CASE Release
  <2>1. CASE ReleaseControl(Owner(inflight)) /\ base' = base
    <3>1. Owner(inflight) = session /\ session # None /\ active = None
      BY <1>2, <1>9, <2>1, KeyLemma
         DEF Release, Dispatching, ReleaseControl, CanRelease, RuntimeInv, TypeOK
    <3> QED BY <2>1, <3>1 DEF Authority!Next, Authority!HandOver, ReleaseControl
  <2> QED BY <1>4, <1>9, <2>1 DEF Release, trackerVars
<1>10. CASE Acknowledge
  <2>1. active' = active
    BY <1>2, <1>10 DEF Acknowledge, Transition, RuntimeInv, LoopInv, FlightInv, TypeOK,
                       Terminal
  <2> QED BY <1>4, <1>10, <2>1 DEF Acknowledge, Transition
<1>11. CASE Poll
  <2>1. ASSUME NEW kind \in Kind, GoalEnds(kind) PROVE MotionStep
    <3>1. current[kind] # None
      BY <2>1 DEF GoalEnds, Polled
    <3>2. PICK status \in {"failed", "succeeded"}, stopped \in BOOLEAN :
            Finish(kind, current[kind], base, status, stopped)
      BY <2>1 DEF GoalEnds
    <3> QED BY <1>1, <3>1, <3>2, FinishMoves
  <2>2. ASSUME NavigationSucceeds PROVE MotionStep
    <3>1. current["navigation"] # None /\ base' = base /\ base = "arrived"
      BY <2>2 DEF NavigationSucceeds, Polled
    <3>2. \/ UNCHANGED trackerVars
          \/ Transition(current["navigation"], "succeeded", FALSE, TRUE)
      BY <2>2 DEF NavigationSucceeds
    <3>3. active # None
      BY <1>1, <1>3, <3>1
    <3>4. UNCHANGED <<session, retired, ledger>> /\ active' \in {active, None}
      BY <3>2 DEF Transition, trackerVars
    <3> QED BY <3>1, <3>3, <3>4 DEF MotionStep
  <2>3. ASSUME CorrectionStarts PROVE MotionStep
    <3>1. current["navigation"] # None
      BY <2>3 DEF CorrectionStarts, RuntimeInv, LoopInv
    <3>2. CASE UNCHANGED trackerVars
      BY <1>1, <1>3, <3>1, <3>2 DEF MotionStep, trackerVars
    <3>3. CASE \E from \in {base, "moving"}, stopped \in BOOLEAN :
                 Finish("navigation", current["navigation"], from, "failed", stopped)
      BY <1>1, <1>3, <3>1, <3>3, FinishMoves
    <3> QED BY <2>3, <3>2, <3>3 DEF CorrectionStarts
  <2>4. CASE NoGoal \/ CorrectionStops \/ \E kind \in Kind : GoalInProgress(kind)
    BY <1>4, <2>4 DEF NoGoal, CorrectionStops, GoalInProgress, Stop, trackerVars
  <2> QED BY <1>11, <2>1, <2>2, <2>3, <2>4, MotionRefines DEF Poll
<1>12. CASE HandleAction \/ NothingReceived \/ Robot \/ Clock \/ UNCHANGED vars
  BY <1>4, <1>12 DEF HandleAction, NothingReceived, Robot, BaseArrives, BaseHalts, Clock,
                     Expire, vars, runtimeVars, trackerVars
<1> QED BY <1>5, <1>6, <1>7, <1>8, <1>9, <1>10, <1>11, <1>12
        DEF Next, ReceiveLoop, Dispatch

\* The command lifecycle implements the abstract motion authority: identities
\* are spent once and in order, the slot is vacated only at rest, control
\* changes hands only when it is free.
THEOREM ImplementsAuthority == Spec => AuthoritySpec
<1>1. Init => Authority!Init
  BY DEF Init, TrackerInit, Authority!Init
<1> QED BY <1>1, StepRefines, RuntimeAlways, PTL DEF Spec, AuthoritySpec, Authority!Spec

\* The robot moves only while the motion slot is taken.  The abstract steps keep
\* this, whatever detail they abstract.
SlotMoves == base = "moving" => active # None

\* The robot moves only for a command of the session in control.
THEOREM OwnedMotion == Spec => []MotionIsOwned
<1>1. Init => SlotMoves
  BY DEF Init, SlotMoves
<1>2. RuntimeInv /\ SlotMoves /\ [Next]_vars => SlotMoves'
  <2> SUFFICES ASSUME SlotMoves, [Authority!Next]_(Authority!authorityVars)
               PROVE  SlotMoves'
    BY StepRefines
  <2>1. CASE UNCHANGED Authority!authorityVars
    BY <2>1 DEF Authority!authorityVars, SlotMoves
  <2>2. ASSUME NEW k \in Key, Authority!Spend(k) PROVE SlotMoves'
    BY <2>2, KeyLemma DEF Authority!Spend, SlotMoves
  <2>3. CASE Authority!Start \/ Authority!Rest \/ Authority!Vacate \/ Authority!HandOver
    BY <2>3 DEF Authority!Start, Authority!Rest, Authority!Vacate, Authority!HandOver, SlotMoves
  <2> QED BY <2>1, <2>2, <2>3 DEF Authority!Next, Authority!Key, Key
<1>3. RuntimeInv /\ SlotMoves => MotionIsOwned
  BY DEF RuntimeInv, MotionIsOwned, SlotMoves, TrackerInv, SlotOwned
<1> QED BY <1>1, <1>2, <1>3, RuntimeAlways, PTL DEF Spec

-----------------------------------------------------------------------------
(***************************************************************************)
(* Part three.  What a receipt reports is true, in every history that a    *)
(* publisher can capture: a cancellation that reports success names a      *)
(* command that is over, a command that was not turned away was            *)
(* dispatched, and a release that has not failed frees the robot.  Each    *)
(* relates receipts, the ledger and the motion slot, which change at       *)
(* different times: what is settled stays settled.                         *)
(***************************************************************************)

-----------------------------------------------------------------------------
(* The inductive invariant *)

CancelOp == {"cancel_navigation", "cancel_reactive_goal"}

\* An identity is over for good: it cannot be accepted again, it does not hold
\* the motion slot, and its receipt, if it is still kept, is final.
Consumed(k) == \E l \in ledger : l.key = k
Settled(k)  ==
  /\ Consumed(k)
  /\ active # k
  /\ k \in DOMAIN receipts => receipts[k].status \in Terminal

\* A step after which whatever was settled still is.
SettledStays == \A t : Settled(t) => Settled(t)'

HistoryConsumed == \A k \in DOMAIN receipts : Consumed(k)

SlotIsMotion == active # None => receipts[active].payload.op \in Motion

\* A stop is confirmed only together with a final outcome.
StopIsFinal ==
  \A k \in DOMAIN receipts :
    receipts[k].stopConfirmed => receipts[k].status \in Terminal

\* A command that is over and still holds the slot is one whose stop was not
\* confirmed.
SlotFailed ==
  active # None /\ receipts[active].status \in Terminal
    => receipts[active].status = "failed" /\ ~receipts[active].stopConfirmed

BookInv == HistoryConsumed /\ SlotIsMotion /\ StopIsFinal /\ SlotFailed

\* The answer of a command is success, or is about to be recorded so.
Succeeded(k) ==
  receipts[k].status = "succeeded" \/ (k = inflight /\ verdict = "succeeded")

AnswersSettled ==
  \A k \in DOMAIN receipts :
    receipts[k].payload.op \in CancelOp /\ Succeeded(k)
      => Settled(receipts[k].payload.target)

TruthInv == RuntimeInv /\ BookInv /\ AnswersSettled

-----------------------------------------------------------------------------
(* What is settled stays settled *)

\* A step that leaves the history, the slot and the ledger alone.
LEMMA QuietBook ==
  ASSUME BookInv, UNCHANGED <<receipts, active, ledger>>
  PROVE  /\ BookInv'
         /\ SettledStays
<1>1. BookInv'
  BY DEF BookInv, HistoryConsumed, Consumed, SlotIsMotion, StopIsFinal, SlotFailed
<1>2. SettledStays
  BY DEF SettledStays, Settled, Consumed
<1> QED BY <1>1, <1>2

\* The record of an outcome, if a stop is confirmed only with a final outcome
\* and a final outcome that keeps the slot is a failure without one.
LEMMA TransitionBook ==
  ASSUME TrackerInv, BookInv, NEW k \in DOMAIN receipts,
         NEW status \in Terminal \cup {"running"},
         NEW stopConfirmed \in BOOLEAN, NEW release \in BOOLEAN,
         Transition(k, status, stopConfirmed, release),
         stopConfirmed => status \in Terminal,
         status \in Terminal /\ ~release => status = "failed" /\ ~stopConfirmed
  PROVE  /\ BookInv'
         /\ DOMAIN receipts' = DOMAIN receipts
         /\ \A j \in DOMAIN receipts : receipts'[j].payload = receipts[j].payload
         /\ \A j \in DOMAIN receipts : j # k => receipts'[j] = receipts[j]
         /\ SettledStays
<1>1. CASE receipts[k].status \in Terminal
  BY <1>1, QuietBook DEF Transition
<1>2. CASE receipts[k].status \notin Terminal
  <2>1. /\ receipts' = [receipts EXCEPT ![k].status = status,
                                        ![k].stopConfirmed = stopConfirmed]
        /\ active' = IF status \in Terminal /\ active = k /\ release
                     THEN None ELSE active
        /\ ledger' = ledger
    BY <1>2 DEF Transition
  <2>2. receipts[k] \in Receipt
    BY DEF TrackerInv, TrackerTypeOK
  <2>3. /\ DOMAIN receipts' = DOMAIN receipts
        /\ \A j \in DOMAIN receipts : j # k => receipts'[j] = receipts[j]
        /\ receipts'[k].payload = receipts[k].payload
        /\ receipts'[k].status = status
        /\ receipts'[k].stopConfirmed = stopConfirmed
    BY <2>1, <2>2 DEF Receipt
  <2>4. \A j \in DOMAIN receipts : receipts'[j].payload = receipts[j].payload
    BY <2>3
  <2>5. active # None => active \in DOMAIN receipts
    BY DEF TrackerInv, SlotReceiptRetained
  <2>6. HistoryConsumed' /\ StopIsFinal'
    BY <2>1, <2>3 DEF BookInv, HistoryConsumed, Consumed, StopIsFinal
  <2>7. SlotIsMotion'
    BY <2>1, <2>4, <2>5 DEF BookInv, SlotIsMotion
  <2>8. SlotFailed'
    BY <2>1, <2>3, <2>5 DEF BookInv, SlotFailed
  <2>9. ASSUME NEW t, Settled(t) PROVE Settled(t)'
    <3>1. t # k
      BY <1>2, <2>9 DEF Settled
    <3>2. active' # t
      <4>1. Consumed(t) => t # None
        BY KeyLemma DEF Consumed, TrackerInv, TrackerTypeOK, Entry
      <4> QED BY <2>1, <2>9, <4>1 DEF Settled
    <3> QED BY <2>1, <2>3, <2>9, <3>1, <3>2 DEF Settled, Consumed
  <2> QED BY <2>3, <2>4, <2>6, <2>7, <2>8, <2>9 DEF BookInv, SettledStays
<1> QED BY <1>1, <1>2

\* An acceptance takes an identity that was never consumed before.
LEMMA AcceptBook ==
  ASSUME TrackerInv, BookInv, NEW e \in Envelope, Accept(e)
  PROVE  /\ BookInv'
         /\ e.key \in DOMAIN receipts'
         /\ receipts'[e.key].status \in {"accepted", "rejected"}
         /\ \A k \in DOMAIN receipts' :
              k # e.key => k \in DOMAIN receipts /\ receipts'[k] = receipts[k]
         /\ SettledStays
<1> DEFINE takesSlot == e.payload.op \in Motion /\ ~IsBusy(e)
           holder == IF takesSlot THEN e.key ELSE active
           receipt == [payload |-> e.payload,
                       status |-> IF IsBusy(e) THEN "rejected" ELSE "accepted",
                       stopConfirmed |-> FALSE,
                       stamp |-> arrivals]
           book == [k \in DOMAIN receipts \cup {e.key} |->
                      IF k = e.key THEN receipt ELSE receipts[k]]
           entry == [key |-> e.key, at |-> arrivals, dispatched |-> ~IsBusy(e)]
<1>1. /\ IsFresh(e) /\ active' = holder /\ Retain(book, holder)
      /\ ledger' = ledger \cup {entry}
  BY DEF Accept
<1>2. TrackerInv' /\ e.key \in DOMAIN receipts'
  BY AcceptInv
<1>3. \A k \in DOMAIN receipts' :
        k \in DOMAIN receipts \cup {e.key} /\ receipts'[k] = book[k]
  <2> HIDE DEF receipt, entry
  <2> QED BY <1>1 DEF Retain
<1>4. /\ receipts'[e.key].payload = e.payload
      /\ receipts'[e.key].status = IF IsBusy(e) THEN "rejected" ELSE "accepted"
      /\ receipts'[e.key].stopConfirmed = FALSE
  <2>1. receipts'[e.key] = receipt
    <3> HIDE DEF receipt
    <3> QED BY <1>2, <1>3
  <2> QED BY <2>1
<1>5. \A k \in DOMAIN receipts' :
        k # e.key => k \in DOMAIN receipts /\ receipts'[k] = receipts[k]
  BY <1>3
<1>6. Consumed(e.key)' /\ \A t : Consumed(t) => Consumed(t)'
  <2>1. entry.key = e.key
    OBVIOUS
  <2> HIDE DEF entry
  <2> QED BY <1>1, <2>1 DEF Consumed
<1>7. ~Consumed(e.key)
  <2> SUFFICES ASSUME NEW l \in ledger, l.key = e.key PROVE FALSE
    BY DEF Consumed
  <2>1. e.key \in Key /\ Owner(e.key) # None /\ e.key[2] \in Int
    BY KeyLemma DEF Envelope
  <2>2. highWater \in Int
    BY HighWaterLemma DEF TrackerInv
  <2>3. e.key[2] <= highWater
    BY <1>1 DEF IsFresh, TrackerInv, LedgerBehind
  <2> QED BY <1>1, <2>1, <2>2, <2>3 DEF IsFresh
<1>8. active' # None => active' \in DOMAIN receipts'
  BY <1>2 DEF TrackerInv, SlotReceiptRetained
<1>9. active # e.key
  <2>1. e.key \in Key /\ e.key # None
    BY KeyLemma DEF Envelope
  <2> QED BY <1>1, <2>1 DEF IsFresh, TrackerInv, SlotReceiptRetained
<1> HIDE DEF book, receipt, entry
<1>10. HistoryConsumed'
  BY <1>5, <1>6 DEF BookInv, HistoryConsumed
<1>11. StopIsFinal'
  BY <1>4, <1>5 DEF BookInv, StopIsFinal
<1>12. SlotIsMotion' /\ SlotFailed'
  <2>1. CASE takesSlot
    BY <1>1, <1>4, <2>1 DEF SlotIsMotion, SlotFailed, Terminal
  <2>2. CASE ~takesSlot
    <3>1. active' = active
      BY <1>1, <2>2
    <3>2. active # None => receipts'[active] = receipts[active]
      BY <1>5, <1>8, <1>9, <3>1
    <3> QED BY <3>1, <3>2 DEF BookInv, SlotIsMotion, SlotFailed
  <2> QED BY <2>1, <2>2
<1>13. ASSUME NEW t, Settled(t) PROVE Settled(t)'
  <2>1. t # e.key
    BY <1>7, <1>13 DEF Settled
  <2>2. active' # t
    BY <1>1, <1>13, <2>1 DEF Settled
  <2>3. t \in DOMAIN receipts' => receipts'[t].status \in Terminal
    BY <1>5, <1>13, <2>1 DEF Settled
  <2> QED BY <1>6, <1>13, <2>2, <2>3 DEF Settled
<1> QED BY <1>2, <1>4, <1>5, <1>10, <1>11, <1>12, <1>13 DEF BookInv, SettledStays

\* The end of a goal is the record of an outcome, or nothing if the tracker
\* refuses it.
LEMMA FinishBook ==
  ASSUME TrackerInv, BookInv, NEW kind \in Kind, NEW k \in DOMAIN receipts,
         NEW from \in {"idle", "moving", "arrived"},
         NEW status \in {"failed", "succeeded", "cancelled"},
         NEW stopped \in BOOLEAN,
         Finish(kind, k, from, status, stopped)
  PROVE  /\ BookInv'
         /\ DOMAIN receipts' = DOMAIN receipts
         /\ \A j \in DOMAIN receipts : receipts'[j].payload = receipts[j].payload
         /\ \A j \in DOMAIN receipts : j # k => receipts'[j] = receipts[j]
         /\ SettledStays
<1>1. CASE FinishRaises(k, status, stopped)
  BY <1>1, QuietBook DEF Finish, trackerVars
<1>2. CASE ~FinishRaises(k, status, stopped)
  <2>1. Transition(k, Final(status, stopped), stopped, stopped)
    BY <1>2 DEF Finish
  <2>2. /\ Final(status, stopped) \in Terminal
        /\ ~stopped => Final(status, stopped) = "failed"
    BY DEF Final, Terminal
  <2> QED BY <2>1, <2>2, TransitionBook
<1> QED BY <1>1, <1>2

\* A confirmed cancellation that the tracker takes settles its goal.
LEMMA CancelSettles ==
  ASSUME TrackerInv, BookInv, NEW kind, NEW k \in DOMAIN receipts, k = active,
         NEW from, Finish(kind, k, from, "cancelled", TRUE),
         ~FinishRaises(k, "cancelled", TRUE)
  PROVE  Settled(k)'
<1>1. Transition(k, "cancelled", TRUE, TRUE) /\ ~Conflicts(k, "cancelled")
  BY DEF Finish, FinishRaises, Final
<1>2. k # None /\ receipts[k] \in Receipt
  BY KeyLemma DEF TrackerInv, TrackerTypeOK
<1>3. receipts[k].status \notin Terminal
  BY <1>1, <1>2 DEF Conflicts, BookInv, SlotFailed
<1>4. /\ receipts' = [receipts EXCEPT ![k].status = "cancelled",
                                      ![k].stopConfirmed = TRUE]
      /\ active' = None /\ ledger' = ledger
  BY <1>1, <1>3 DEF Transition, Terminal
<1>5. receipts'[k].status = "cancelled"
  BY <1>2, <1>4 DEF Receipt
<1>6. Consumed(k)'
  BY <1>4 DEF BookInv, HistoryConsumed, Consumed
<1> QED BY <1>2, <1>4, <1>5, <1>6 DEF Settled, Terminal

-----------------------------------------------------------------------------
(* Every action keeps the answers of cancellations truthful *)

\* A step that records an outcome of the goal in the slot at most, and answers
\* a cancellation with success only if its target is settled.
LEMMA AnswersKept ==
  ASSUME TrackerInv, BookInv, AnswersSettled,
         DOMAIN receipts' = DOMAIN receipts,
         \A j \in DOMAIN receipts : receipts'[j].payload = receipts[j].payload,
         \A j \in DOMAIN receipts : j # active => receipts'[j] = receipts[j],
         SettledStays,
         verdict' = "succeeded" =>
           /\ inflight' = inflight
           /\ \A t : t = Request.target /\ Request.op \in CancelOp =>
                verdict = "succeeded" \/ Settled(t)'
  PROVE  AnswersSettled'
<1> SUFFICES ASSUME NEW k \in DOMAIN receipts,
                    receipts[k].payload.op \in CancelOp,
                    receipts'[k].status = "succeeded"
                      \/ (k = inflight' /\ verdict' = "succeeded")
             PROVE  Settled(receipts[k].payload.target)'
  BY DEF AnswersSettled, Succeeded, Settled, Consumed
<1>1. receipts'[k] = receipts[k]
  <2>1. k # None
    BY KeyLemma DEF TrackerInv, TrackerTypeOK
  <2>2. k # active
    BY <2>1 DEF BookInv, SlotIsMotion, CancelOp, Motion
  <2> QED BY <2>2
<1>2. CASE receipts'[k].status = "succeeded"
  BY <1>1, <1>2 DEF AnswersSettled, Succeeded, SettledStays
<1>3. CASE k = inflight' /\ verdict' = "succeeded"
  <2>1. k = inflight
    BY <1>3
  <2>2. CASE verdict = "succeeded"
    BY <2>1, <2>2 DEF AnswersSettled, Succeeded, SettledStays
  <2> DEFINE target == receipts[k].payload.target
  <2>3. verdict = "succeeded" \/ \A t : t = target => Settled(t)'
    BY <1>3, <2>1 DEF Request
  <2>4. CASE \A t : t = target => Settled(t)'
    BY <2>4 DEF Settled, Consumed
  <2> QED BY <2>2, <2>3, <2>4
<1> QED BY <1>2, <1>3

\* Such a step that ends a goal, or leaves the tracker's history alone.
LEMMA GoalStep ==
  ASSUME TruthInv,
         \/ UNCHANGED <<receipts, active, ledger>>
         \/ \E kind \in Kind, k \in DOMAIN receipts,
               from \in {"idle", "moving", "arrived"},
               status \in {"failed", "succeeded", "cancelled"},
               stopped \in BOOLEAN :
              k = active /\ Finish(kind, k, from, status, stopped),
         verdict' = "succeeded" =>
           /\ inflight' = inflight
           /\ \A t : t = Request.target /\ Request.op \in CancelOp =>
                verdict = "succeeded" \/ Settled(t)'
  PROVE  BookInv' /\ AnswersSettled' /\ SettledStays
<1>1. TrackerInv /\ BookInv /\ AnswersSettled
  BY DEF TruthInv, RuntimeInv
<1>2. CASE UNCHANGED <<receipts, active, ledger>>
  <2>1. BookInv' /\ SettledStays
    BY <1>1, <1>2, QuietBook
  <2> QED BY <1>1, <1>2, <2>1, AnswersKept
<1>3. ASSUME NEW kind \in Kind, NEW k \in DOMAIN receipts,
             NEW from \in {"idle", "moving", "arrived"},
             NEW status \in {"failed", "succeeded", "cancelled"},
             NEW stopped \in BOOLEAN,
             k = active, Finish(kind, k, from, status, stopped)
      PROVE  BookInv' /\ AnswersSettled' /\ SettledStays
  <2>1. /\ BookInv' /\ DOMAIN receipts' = DOMAIN receipts
        /\ \A j \in DOMAIN receipts : receipts'[j].payload = receipts[j].payload
        /\ \A j \in DOMAIN receipts : j # k => receipts'[j] = receipts[j]
        /\ SettledStays
    BY <1>1, <1>3, FinishBook
  <2> QED BY <1>1, <1>3, <2>1, AnswersKept
<1> QED BY <1>2, <1>3

LEMMA AcceptTruth ==
  ASSUME TruthInv, NEW e \in Envelope, AcceptCommand(e)
  PROVE  BookInv' /\ AnswersSettled' /\ SettledStays
<1>1. /\ TrackerInv /\ BookInv /\ AnswersSettled /\ Accept(e)
      /\ verdict' = verdict /\ verdict = None
  BY DEF TruthInv, RuntimeInv, AcceptCommand, LoopInv
<1>2. None # "succeeded"
  BY RuntimeAssumption DEF Status, Terminal
<1>3. /\ BookInv'
      /\ receipts'[e.key].status \in {"accepted", "rejected"}
      /\ \A k \in DOMAIN receipts' :
           k # e.key => k \in DOMAIN receipts /\ receipts'[k] = receipts[k]
      /\ SettledStays
  BY <1>1, AcceptBook
<1>4. ASSUME NEW k \in DOMAIN receipts', receipts'[k].payload.op \in CancelOp,
             receipts'[k].status = "succeeded"
      PROVE  \A t : t = receipts'[k].payload.target => Settled(t)'
  <2>1. k # e.key
    BY <1>3, <1>4 DEF Terminal
  <2>2. k \in DOMAIN receipts /\ receipts'[k] = receipts[k]
    BY <1>3, <2>1
  <2>3. Settled(receipts[k].payload.target)
    BY <1>1, <1>4, <2>2 DEF AnswersSettled, Succeeded
  <2> QED BY <1>3, <2>2, <2>3 DEF SettledStays
<1>5. AnswersSettled'
  BY <1>1, <1>2, <1>4 DEF AnswersSettled, Succeeded, Settled, Consumed
<1> QED BY <1>3, <1>5

LEMMA CancelTruth ==
  ASSUME TruthInv, CancelMotion
  PROVE  BookInv' /\ AnswersSettled' /\ SettledStays
<1> DEFINE kind == KindOf(Request.op)
           target == Request.target
           goal == current[kind]
<1>1. TrackerInv /\ BookInv /\ OneGoal /\ kind \in Kind
  BY DEF TruthInv, RuntimeInv, KindOf, Kind
<1>2. goal # None => goal = active /\ goal \in DOMAIN receipts
  BY <1>1 DEF OneGoal, TrackerInv, SlotReceiptRetained
<1>3. CASE /\ goal = None
           /\ Answer(IF KnownStopped(kind, target) /\ ~fault[kind]
                     THEN "succeeded" ELSE "failed")
           /\ UNCHANGED <<trackerVars, current, fault, base>>
  <2>1. UNCHANGED <<receipts, active, ledger>> /\ inflight' = inflight
    BY <1>3 DEF trackerVars, Answer
  <2>2. KnownStopped(kind, target) => Settled(target)
    <3> SUFFICES ASSUME KnownStopped(kind, target) PROVE Settled(target)
      OBVIOUS
    <3>1. target \in DOMAIN receipts /\ target # None
      BY <1>1, KeyLemma DEF KnownStopped, TrackerInv, TrackerTypeOK
    <3>2. receipts[target].status \in Terminal
      BY <1>1, <3>1 DEF KnownStopped, BookInv, StopIsFinal, Terminal
    <3>3. active # target
      BY <1>1, <3>1, <3>2 DEF KnownStopped, BookInv, SlotFailed
    <3> QED BY <1>1, <3>1, <3>2, <3>3 DEF Settled, BookInv, HistoryConsumed
  <2>3. ASSUME verdict' = "succeeded", NEW t, t = target PROVE Settled(t)'
    <3>1. Settled(t)
      BY <1>3, <2>2, <2>3 DEF Answer
    <3> QED BY <2>1, <3>1 DEF Settled, Consumed
  <2> QED BY <2>1, <2>3, GoalStep
<1>4. CASE Answer("failed") /\ UNCHANGED <<trackerVars, current, fault, base>>
  BY <1>4, GoalStep DEF Answer, trackerVars
<1>5. ASSUME goal # None, target = goal, NEW stopped \in BOOLEAN,
             Finish(kind, goal, base, "cancelled", stopped),
             Answer(IF CancelSucceeds(goal, stopped) THEN "succeeded" ELSE "failed")
      PROVE  BookInv' /\ AnswersSettled' /\ SettledStays
  <2>1. verdict' = "succeeded" => CancelSucceeds(goal, stopped)
    BY <1>5 DEF Answer
  <2>2. PICK t : t = goal
    OBVIOUS
  <2>3. CancelSucceeds(goal, stopped) => Settled(t)'
    <3> HIDE DEF goal, kind
    <3> QED BY <1>1, <1>2, <1>5, <2>2, CancelSettles DEF CancelSucceeds
  <2>4. inflight' = inflight
    BY <1>5 DEF Answer
  <2> HIDE DEF goal, kind, target
  <2>5. \A u : u = target /\ verdict' = "succeeded" => Settled(u)'
    <3>1. verdict' = "succeeded" => Settled(t)'
      BY <2>1, <2>3
    <3>2. t = target
      BY <1>5, <2>2
    <3> QED BY <3>1, <3>2
  <2>6. goal = active /\ goal \in DOMAIN receipts
    BY <1>2, <1>5
  <2>7. base \in {"idle", "moving", "arrived"}
    BY DEF TruthInv, RuntimeInv, TypeOK
  <2>8. \E k \in Kind, j \in DOMAIN receipts,
           from \in {"idle", "moving", "arrived"},
           status \in {"failed", "succeeded", "cancelled"}, s \in BOOLEAN :
          j = active /\ Finish(k, j, from, status, s)
    BY <1>1, <1>5, <2>6, <2>7
  <2> USE DEF target
  <2> QED BY <2>4, <2>5, <2>8, GoalStep
<1> QED BY <1>3, <1>4, <1>5 DEF CancelMotion

LEMMA StartTruth ==
  ASSUME TruthInv, StartMotion
  PROVE  BookInv' /\ AnswersSettled' /\ SettledStays
<1> DEFINE kind == KindOf(Request.op)
<1>1. /\ pc = "adapter" /\ Request.op \in Motion /\ kind \in Kind
  BY DEF StartMotion, Dispatching, KindOf, Kind
<1>2. /\ inflight \in DOMAIN receipts /\ active = inflight
      /\ verdict = None /\ None # "succeeded"
      /\ base \in {"idle", "moving", "arrived"}
  BY <1>1, RuntimeAssumption
     DEF TruthInv, RuntimeInv, TypeOK, LoopInv, FlightInv, Status, Terminal
<1>3. CASE Answer("running") /\ UNCHANGED trackerVars
  BY <1>3, GoalStep DEF Answer, trackerVars
<1>4. ASSUME NEW from \in {base, "moving"}, NEW stopped \in BOOLEAN,
             Finish(kind, inflight, from, "failed", stopped), Return
      PROVE  BookInv' /\ AnswersSettled' /\ SettledStays
  <2>1. from \in {"idle", "moving", "arrived"} /\ verdict' # "succeeded"
    BY <1>2, <1>4 DEF Return
  <2> HIDE DEF kind
  <2> QED BY <1>1, <1>2, <1>4, <2>1, GoalStep
<1> QED BY <1>3, <1>4 DEF StartMotion

LEMMA UpdateTruth ==
  ASSUME TruthInv, UpdateGoal
  PROVE  BookInv' /\ AnswersSettled' /\ SettledStays
<1> DEFINE goal == current["reactive"]
<1>1. /\ Request.op \notin CancelOp /\ "reactive" \in Kind
      /\ TrackerInv /\ BookInv /\ AnswersSettled
      /\ base \in {"idle", "moving", "arrived"}
  BY DEF UpdateGoal, Dispatching, CancelOp, Kind, TruthInv, RuntimeInv, TypeOK
<1>2. goal # None => goal = active /\ goal \in DOMAIN receipts
  BY <1>1 DEF TruthInv, RuntimeInv, OneGoal, TrackerInv, SlotReceiptRetained
<1>3. inflight' = inflight
  BY DEF UpdateGoal, Answer
<1> HIDE DEF goal
<1>4. CASE UNCHANGED trackerVars
  BY <1>1, <1>3, <1>4, GoalStep DEF trackerVars
<1>5. ASSUME goal # None, NEW from \in {base, "moving"}, NEW stopped \in BOOLEAN,
             Finish("reactive", goal, from, "failed", stopped)
      PROVE  BookInv' /\ AnswersSettled' /\ SettledStays
  <2>1. from \in {"idle", "moving", "arrived"}
    BY <1>1
  <2> QED BY <1>1, <1>2, <1>3, <1>5, <2>1, GoalStep
<1>6. CASE goal # None /\ Transition(goal, "running", FALSE, TRUE)
  <2>1. /\ BookInv' /\ DOMAIN receipts' = DOMAIN receipts
        /\ \A j \in DOMAIN receipts : receipts'[j].payload = receipts[j].payload
        /\ \A j \in DOMAIN receipts : j # goal => receipts'[j] = receipts[j]
        /\ SettledStays
    BY <1>1, <1>2, <1>6, TransitionBook DEF Terminal
  <2> QED BY <1>1, <1>2, <1>3, <1>6, <2>1, AnswersKept
<1> QED BY <1>4, <1>5, <1>6 DEF UpdateGoal, goal

\* The answer is recorded: it was truthful before.
LEMMA AcknowledgeTruth ==
  ASSUME TruthInv, Acknowledge
  PROVE  BookInv' /\ AnswersSettled' /\ SettledStays
<1>1. /\ TrackerInv /\ BookInv /\ AnswersSettled
      /\ Transition(inflight, verdict, FALSE, TRUE)
      /\ verdict' = None /\ None # "succeeded"
  BY RuntimeAssumption DEF Acknowledge, TruthInv, RuntimeInv, Status, Terminal
<1>2. /\ inflight \in DOMAIN receipts
      /\ receipts[inflight].status = "accepted"
      /\ verdict \in Terminal \cup {"running"}
  BY DEF Acknowledge, TruthInv, RuntimeInv, LoopInv, FlightInv, TypeOK, Terminal
<1>3. /\ BookInv' /\ DOMAIN receipts' = DOMAIN receipts
      /\ \A j \in DOMAIN receipts : receipts'[j].payload = receipts[j].payload
      /\ \A j \in DOMAIN receipts : j # inflight => receipts'[j] = receipts[j]
      /\ SettledStays
  BY <1>1, <1>2, TransitionBook
<1>4. receipts'[inflight].status = verdict
  <2>1. receipts[inflight] \in Receipt
    BY <1>1, <1>2 DEF TrackerInv, TrackerTypeOK
  <2> QED BY <1>1, <1>2, <2>1 DEF Transition, Receipt, Terminal
<1>5. ASSUME NEW k \in DOMAIN receipts, receipts[k].payload.op \in CancelOp,
             receipts'[k].status = "succeeded"
      PROVE  \A t : t = receipts[k].payload.target => Settled(t)'
  <2>1. Succeeded(k)
    BY <1>3, <1>4, <1>5 DEF Succeeded
  <2>2. Settled(receipts[k].payload.target)
    BY <1>1, <1>5, <2>1 DEF AnswersSettled
  <2> QED BY <1>3, <2>2 DEF SettledStays
<1>6. AnswersSettled'
  BY <1>1, <1>3, <1>5 DEF AnswersSettled, Succeeded, Settled, Consumed
<1> QED BY <1>3, <1>6

LEMMA PollTruth ==
  ASSUME TruthInv, Poll
  PROVE  BookInv' /\ AnswersSettled' /\ SettledStays
<1>1. /\ TrackerInv /\ BookInv /\ AnswersSettled
      /\ base \in {"idle", "moving", "arrived"} /\ "navigation" \in Kind
      /\ verdict' = None /\ None # "succeeded"
  BY RuntimeAssumption
     DEF TruthInv, RuntimeInv, TypeOK, LoopInv, Kind, Status, Terminal, Poll, NoGoal,
         GoalInProgress, GoalEnds, NavigationSucceeds, CorrectionStops, CorrectionStarts,
         Polled
<1>2. ASSUME NEW kind \in Kind, current[kind] # None
      PROVE  current[kind] = active /\ current[kind] \in DOMAIN receipts
  BY <1>2 DEF TruthInv, RuntimeInv, OneGoal, TrackerInv, SlotReceiptRetained
<1>3. CASE UNCHANGED trackerVars
  BY <1>1, <1>3, GoalStep DEF trackerVars
<1>4. ASSUME NEW kind \in Kind, current[kind] # None, NEW from \in {base, "moving"},
             NEW status \in {"failed", "succeeded"}, NEW stopped \in BOOLEAN,
             Finish(kind, current[kind], from, status, stopped)
      PROVE  BookInv' /\ AnswersSettled' /\ SettledStays
  <2>1. /\ from \in {"idle", "moving", "arrived"}
        /\ status \in {"failed", "succeeded", "cancelled"}
    BY <1>1
  <2> QED BY <1>1, <1>2, <1>4, <2>1, GoalStep
<1>5. ASSUME NEW kind \in Kind, GoalEnds(kind) PROVE BookInv' /\ AnswersSettled' /\ SettledStays
  <2>1. current[kind] # None
    BY <1>5 DEF GoalEnds, Polled
  <2>2. PICK status \in {"failed", "succeeded"}, stopped \in BOOLEAN :
          Finish(kind, current[kind], base, status, stopped)
    BY <1>5 DEF GoalEnds
  <2> QED BY <1>4, <2>1, <2>2
<1>6. CASE NavigationSucceeds
  <2> DEFINE goal == current["navigation"]
  <2>1. goal # None /\ goal = active /\ goal \in DOMAIN receipts
    BY <1>1, <1>2, <1>6 DEF NavigationSucceeds, Polled
  <2>2. CASE Transition(goal, "succeeded", FALSE, TRUE)
    <3> HIDE DEF goal
    <3>1. /\ BookInv' /\ DOMAIN receipts' = DOMAIN receipts
          /\ \A j \in DOMAIN receipts : receipts'[j].payload = receipts[j].payload
          /\ \A j \in DOMAIN receipts : j # goal => receipts'[j] = receipts[j]
          /\ SettledStays
      BY <1>1, <2>1, <2>2, TransitionBook DEF Terminal
    <3> QED BY <1>1, <2>1, <3>1, AnswersKept
  <2> QED BY <1>3, <1>6, <2>2 DEF NavigationSucceeds
<1>7. CASE CorrectionStarts
  <2>1. current["navigation"] # None
    BY <1>7 DEF CorrectionStarts, TruthInv, RuntimeInv, LoopInv
  <2> QED BY <1>1, <1>3, <1>4, <1>7, <2>1 DEF CorrectionStarts
<1> QED BY <1>3, <1>5, <1>6, <1>7 DEF Poll, NoGoal, GoalInProgress, CorrectionStops

LEMMA TruthInitInv == Init => TruthInv
<1> SUFFICES ASSUME Init PROVE TruthInv
  OBVIOUS
<1>1. DOMAIN receipts = {} /\ active = None
  BY DEF Init, TrackerInit
<1>2. BookInv
  BY <1>1 DEF BookInv, HistoryConsumed, SlotIsMotion, StopIsFinal, SlotFailed
<1> QED BY <1>1, <1>2, RuntimeInitInv DEF TruthInv, AnswersSettled

LEMMA TruthNextInv == TruthInv /\ [Next]_vars => TruthInv' /\ SettledStays
<1> SUFFICES ASSUME TruthInv, [Next]_vars
             PROVE  BookInv' /\ AnswersSettled' /\ SettledStays
  BY RuntimeNextInv DEF TruthInv
\* The steps that are neither an acceptance nor the record of an outcome.
<1>1. CASE /\ UNCHANGED <<receipts, active, ledger, inflight>>
           /\ verdict' = "succeeded" => verdict = "succeeded" \/ Request.op \notin CancelOp
  BY <1>1, GoalStep
<1>2. ASSUME NEW e \in Envelope, Receive(e) PROVE BookInv' /\ AnswersSettled' /\ SettledStays
  BY <1>1, <1>2, AcceptTruth DEF Receive, RefuseCommand, RepeatCommand, trackerVars
<1>3. CASE Release \/ HandleAction
  <2>1. UNCHANGED <<receipts, active, ledger, inflight>>
    BY <1>3 DEF Release, HandleAction, ReleaseControl, Answer, trackerVars
  <2>2. Request.op \notin CancelOp
    BY <1>3 DEF Release, HandleAction, Dispatching, CancelOp
  <2> QED BY <1>1, <2>1, <2>2
<1>4. CASE NothingReceived \/ Robot \/ Clock \/ UNCHANGED vars
  BY <1>1, <1>4 DEF NothingReceived, Robot, Clock, Expire, vars, runtimeVars, trackerVars
<1> QED BY <1>2, <1>3, <1>4, StartTruth, CancelTruth, UpdateTruth, AcknowledgeTruth, PollTruth
        DEF Next, ReceiveLoop, Dispatch

-----------------------------------------------------------------------------
(* Receipts, the ledger and releases *)

Dispatched(k) == \E l \in ledger : l.key = k /\ l.dispatched

HistoryDispatched ==
  \A k \in DOMAIN receipts : receipts[k].status # "rejected" => Dispatched(k)

\* Control has been given back, or its release is in dispatch and cannot fail.
Released(k) ==
  \/ Owner(k) \in retired
  \/ /\ inflight = k /\ pc = "adapter" /\ Request.op = "release_control"
     /\ active = None /\ session = Owner(k)

NotDenied == {"accepted", "running", "succeeded"}

HistoryReleased ==
  \A k \in DOMAIN receipts :
    receipts[k].payload.op = "release_control" /\ receipts[k].status \in NotDenied
      => Released(k)

\* What an acceptance adds to the history.
LEMMA AcceptedReceipt ==
  ASSUME NEW e \in Envelope, Accept(e), NEW k \in DOMAIN receipts'
  PROVE  IF k = e.key
         THEN /\ receipts'[k].payload = e.payload
              /\ receipts'[k].status = IF IsBusy(e) THEN "rejected" ELSE "accepted"
         ELSE k \in DOMAIN receipts /\ receipts'[k] = receipts[k]
<1> DEFINE receipt == [payload |-> e.payload,
                       status |-> IF IsBusy(e) THEN "rejected" ELSE "accepted",
                       stopConfirmed |-> FALSE,
                       stamp |-> arrivals]
           book == [j \in DOMAIN receipts \cup {e.key} |->
                      IF j = e.key THEN receipt ELSE receipts[j]]
<1>1. \E holder : Retain(book, holder)
  BY DEF Accept
<1>2. /\ receipts'[k] = IF k = e.key THEN receipt ELSE receipts[k]
      /\ k \in DOMAIN receipts \cup {e.key}
  <2> HIDE DEF receipt
  <2>1. PICK holder : Retain(book, holder)
    BY <1>1
  <2>2. k \in DOMAIN book /\ receipts'[k] = book[k]
    <3> HIDE DEF book
    <3> QED BY <2>1 DEF Retain
  <2> QED BY <2>2
<1>3. /\ receipt.payload = e.payload
      /\ receipt.status = IF IsBusy(e) THEN "rejected" ELSE "accepted"
  OBVIOUS
<1> HIDE DEF receipt, book
<1>4. CASE k = e.key
  BY <1>2, <1>3, <1>4
<1>5. CASE k # e.key
  BY <1>2, <1>5
<1> QED BY <1>4, <1>5

\* A step of the tracker keeps the payload of a receipt and a final outcome; a
\* receipt that is new is that of the command accepted.
LEMMA KeptReceipts ==
  ASSUME TrackerInv, [TrackerNext]_trackerVars, NEW k \in DOMAIN receipts'
  PROVE  \/ /\ k \in DOMAIN receipts
            /\ receipts'[k].payload = receipts[k].payload
            /\ receipts[k].status \in Terminal => receipts'[k] = receipts[k]
         \/ \E e \in Envelope :
              /\ Accept(e) /\ k = e.key
              /\ receipts'[k].payload = e.payload
              /\ receipts'[k].status = IF IsBusy(e) THEN "rejected" ELSE "accepted"
<1>1. ASSUME NEW e \in Envelope, Accept(e)
      PROVE  IF k = e.key
             THEN /\ receipts'[k].payload = e.payload
                  /\ receipts'[k].status = IF IsBusy(e) THEN "rejected" ELSE "accepted"
             ELSE k \in DOMAIN receipts /\ receipts'[k] = receipts[k]
  BY <1>1, AcceptedReceipt
<1>2. ASSUME NEW j \in DOMAIN receipts, NEW status, NEW stopConfirmed, NEW release,
             Transition(j, status, stopConfirmed, release)
      PROVE  /\ k \in DOMAIN receipts
             /\ receipts'[k].payload = receipts[k].payload
             /\ receipts[k].status \in Terminal => receipts'[k] = receipts[k]
  <2>1. CASE receipts[j].status \in Terminal
    BY <1>2, <2>1 DEF Transition
  <2>2. CASE receipts[j].status \notin Terminal
    <3>1. receipts' = [receipts EXCEPT ![j].status = status,
                                       ![j].stopConfirmed = stopConfirmed]
      BY <1>2, <2>2 DEF Transition
    <3>2. receipts[j] \in Receipt
      BY DEF TrackerInv, TrackerTypeOK
    <3>3. receipts'[j].payload = receipts[j].payload
      BY <3>1, <3>2 DEF Receipt
    <3> QED BY <2>2, <3>1, <3>3
  <2> QED BY <2>1, <2>2
<1>3. ASSUME UNCHANGED receipts
      PROVE  k \in DOMAIN receipts /\ receipts'[k] = receipts[k]
  BY <1>3
<1> QED BY <1>1, <1>2, <1>3 DEF TrackerNext, ReleaseControl, Expire, trackerVars

\* The ledger and the retired sessions only grow within a boot.
LEMMA LedgerGrows ==
  ASSUME [TrackerNext]_trackerVars
  PROVE  ledger \subseteq ledger' /\ retired \subseteq retired' /\ boot' = boot
BY DEF TrackerNext, Accept, Transition, ReleaseControl, Expire, trackerVars

LEMMA DispatchedStep ==
  ASSUME TrackerInv, HistoryDispatched, [TrackerNext]_trackerVars
  PROVE  HistoryDispatched'
<1>1. ledger \subseteq ledger'
  BY LedgerGrows
<1> SUFFICES ASSUME NEW k \in DOMAIN receipts', receipts'[k].status # "rejected"
             PROVE  \E l \in ledger' : l.key = k /\ l.dispatched
  BY DEF HistoryDispatched, Dispatched
<1>2. CASE /\ k \in DOMAIN receipts
           /\ receipts[k].status \in Terminal => receipts'[k] = receipts[k]
  <2>1. receipts[k].status # "rejected"
    BY <1>2 DEF Terminal
  <2> QED BY <1>1, <1>2, <2>1 DEF HistoryDispatched, Dispatched
<1>3. ASSUME NEW e \in Envelope, Accept(e), k = e.key,
             receipts'[k].status = IF IsBusy(e) THEN "rejected" ELSE "accepted"
      PROVE  \E l \in ledger' : l.key = k /\ l.dispatched
  <2>1. ~IsBusy(e)
    BY <1>3
  <2> DEFINE entry == [key |-> e.key, at |-> arrivals, dispatched |-> ~IsBusy(e)]
  <2>2. entry \in ledger'
    BY <1>3 DEF Accept
  <2>3. entry.key = k /\ entry.dispatched
    BY <1>3, <2>1
  <2> QED BY <2>2, <2>3
<1> QED BY <1>2, <1>3, KeptReceipts

\* The receive thread adds to the history only what it receives.
LEMMA LoopAddsNothing ==
  ASSUME ReceiveLoop \/ Robot \/ Clock
  PROVE  arrivals' = arrivals
<1> SUFFICES ASSUME arrivals' # arrivals PROVE FALSE
  OBVIOUS
<1>1. \A kind, k, from, status, stopped : ~Finish(kind, k, from, status, stopped)
  BY DEF Finish, Transition, trackerVars
<1>2. \A k, status, stopped, release : ~Transition(k, status, stopped, release)
  BY DEF Transition
<1>3. ~Poll
  BY <1>1, <1>2 DEF Poll, NoGoal, GoalInProgress, GoalEnds, NavigationSucceeds,
                    CorrectionStops, CorrectionStarts, trackerVars
<1>4. ~Dispatch
  BY <1>1, <1>2 DEF Dispatch, StartMotion, CancelMotion, UpdateGoal, Release, HandleAction,
                    Acknowledge, ReleaseControl, trackerVars
<1> QED BY <1>3, <1>4 DEF ReceiveLoop, NothingReceived, Robot, Clock, Expire, trackerVars

LEMMA OnlyAcceptance ==
  ASSUME [Next]_vars, arrivals' # arrivals
  PROVE  \E f \in Envelope : AcceptCommand(f)
BY LoopAddsNothing DEF Next, Receive, RefuseCommand, RepeatCommand, vars, trackerVars

\* A release in dispatch stays so until it has taken place.
LEMMA ReleasedStep ==
  ASSUME RuntimeInv, HistoryReleased, [Next]_vars
  PROVE  /\ HistoryReleased'
         /\ \A t : Released(t) => Released(t)'
<1>1. TrackerInv /\ [TrackerNext]_trackerVars
  BY StepTracks DEF RuntimeInv
<1>2. retired \subseteq retired'
  BY <1>1, LedgerGrows
<1>3. ASSUME NEW t, Released(t) PROVE Released(t)'
  <2>1. CASE Owner(t) \in retired
    BY <1>2, <2>1 DEF Released, Owner
  <2>2. CASE /\ inflight = t /\ pc = "adapter" /\ Request.op = "release_control"
             /\ active = None /\ session = Owner(t)
    <3>1. CASE Release
      <4>1. ReleaseControl(Owner(inflight))
        BY <2>2, <3>1 DEF Release, CanRelease
      <4> QED BY <2>2, <4>1 DEF ReleaseControl, Released, Owner
    <3>2. CASE UNCHANGED <<trackerVars, pc, inflight>>
      BY <2>2, <3>2 DEF Released, Request, trackerVars, Owner
    <3>3. CASE Robot \/ Clock \/ UNCHANGED vars
      BY <2>2, <3>2, <3>3 DEF Robot, Clock, Expire, vars, runtimeVars
    <3>4. /\ ~NothingReceived /\ ~Poll /\ ~Acknowledge
          /\ \A e \in Envelope : ~Receive(e)
      BY <2>2 DEF NothingReceived, Poll, NoGoal, GoalInProgress, GoalEnds, NavigationSucceeds,
                  CorrectionStops, CorrectionStarts, Polled, Acknowledge, Receive,
                  RefuseCommand, RepeatCommand, AcceptCommand
    <3>5. ~StartMotion /\ ~CancelMotion /\ ~UpdateGoal /\ ~HandleAction
      BY <2>2 DEF StartMotion, CancelMotion, UpdateGoal, HandleAction, Dispatching, Motion
    <3> QED BY <3>1, <3>3, <3>4, <3>5 DEF Next, ReceiveLoop, Dispatch
  <2> QED BY <1>3, <2>1, <2>2 DEF Released
<1>4. ASSUME NEW k \in DOMAIN receipts', receipts'[k].payload.op = "release_control",
             receipts'[k].status \in NotDenied
      PROVE  Released(k)'
  <2>1. CASE /\ k \in DOMAIN receipts
             /\ receipts'[k].payload = receipts[k].payload
             /\ receipts[k].status \in Terminal => receipts'[k] = receipts[k]
    <3>1. receipts[k].status \in NotDenied
      <4>1. receipts[k].status \in Status
        BY <1>1, <2>1 DEF TrackerInv, TrackerTypeOK, Receipt
      <4> QED BY <1>4, <2>1, <4>1 DEF Status, Terminal, NotDenied
    <3> QED BY <1>3, <1>4, <2>1, <3>1 DEF HistoryReleased
  <2>2. ASSUME NEW e \in Envelope, AcceptCommand(e), k = e.key
        PROVE  Released(k)'
    <3>1. /\ Accept(e)
          /\ receipts'[k].payload = e.payload
          /\ receipts'[k].status = IF IsBusy(e) THEN "rejected" ELSE "accepted"
      BY <2>2, AcceptedReceipt DEF AcceptCommand
    <3>2. ~IsBusy(e) /\ e.payload.op = "release_control"
      BY <1>4, <3>1 DEF NotDenied
    <3>3. active' = None /\ session' = Owner(k)
      BY <2>2, <3>1, <3>2 DEF Accept, IsBusy, PassBusy, Motion
    <3>4. pc' = "adapter" /\ inflight' = k
      BY <2>2, <3>2 DEF AcceptCommand
    <3> QED BY <1>4, <3>3, <3>4 DEF Released, Request, Owner
  <2>3. ASSUME NEW e \in Envelope, Accept(e), k = e.key
        PROVE  \E f \in Envelope : AcceptCommand(f) /\ k = f.key
    <3>1. arrivals' # arrivals
      BY <1>1, <2>3 DEF Accept, TrackerInv, TrackerTypeOK
    <3>2. PICK f \in Envelope : AcceptCommand(f)
      BY <3>1, OnlyAcceptance
    <3>3. k \notin DOMAIN receipts
      BY <2>3 DEF Accept, IsFresh
    <3> QED BY <3>2, <3>3, AcceptedReceipt DEF AcceptCommand
  <2> QED BY <1>1, <2>1, <2>2, <2>3, KeptReceipts
<1> QED BY <1>3, <1>4 DEF HistoryReleased

\* Together: whatever a receipt reports is true, and stays true.
HonestInv == TruthInv /\ HistoryDispatched /\ HistoryReleased

LEMMA HonestInitInv == Init => HonestInv
BY TruthInitInv DEF HonestInv, HistoryDispatched, HistoryReleased, Init, TrackerInit

LEMMA HonestNextInv ==
  ASSUME HonestInv, [Next]_vars
  PROVE  /\ HonestInv'
         /\ SettledStays
         /\ \A t : Dispatched(t) => Dispatched(t)'
         /\ \A t : Consumed(t) => Consumed(t)'
         /\ \A t : Released(t) => Released(t)'
<1>1. RuntimeInv /\ TrackerInv /\ [TrackerNext]_trackerVars
  BY StepTracks DEF HonestInv, TruthInv, RuntimeInv
<1>2. ledger \subseteq ledger'
  BY <1>1, LedgerGrows
<1>3. /\ \A t : Dispatched(t) => Dispatched(t)'
      /\ \A t : Consumed(t) => Consumed(t)'
  BY <1>2 DEF Dispatched, Consumed
<1> QED BY <1>1, <1>3, TruthNextInv, DispatchedStep, ReleasedStep DEF HonestInv

-----------------------------------------------------------------------------
(* Theorems *)

\* In every receipt history that a publisher can capture, a cancellation that
\* reports success names a command that is over and is not in the motion slot.
THEOREM CancellationsAreTruthful == Spec => []CancelIsTruthful
<1>1. TruthInv => CancelIsTruthful
  BY DEF TruthInv, AnswersSettled, Succeeded, Settled, CancelOp, CancelIsTruthful
<1> QED BY <1>1, TruthInitInv, TruthNextInv, PTL DEF Spec

=============================================================================
