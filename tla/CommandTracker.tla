--------------------------- MODULE CommandTracker ---------------------------
(***************************************************************************)
(* The receipt book of one robot server: which client session owns the     *)
(* robot, which command identities have been consumed, the bounded history *)
(* of receipts and the single motion slot.  Every operation runs under the *)
(* tracker's lock and is one step here.                                    *)
(*                                                                         *)
(* A payload is an operation name and, for the commands that address       *)
(* another command, its identity; two payloads have the same digest        *)
(* exactly when they are equal.  Time is abstracted to `overdue': whether  *)
(* the deadline of the command in the motion slot has passed.  A receipt's *)
(* revision is abstracted to its status, which it orders.                  *)
(***************************************************************************)
EXTENDS Integers, FiniteSets

CONSTANTS
  Session,    \* client session ids (uuid4 of each client)
  Sequence,   \* sequence numbers that clients put in envelopes
  Boot,       \* server boot ids
  Payload,    \* the payloads that clients send
  Capacity,   \* receipts kept, and sessions that may be retired
  None        \* no session, no command

Terminal == {"succeeded", "failed", "cancelled", "rejected"}
Status   == Terminal \cup {"accepted", "running"}

Motion   == {"xyt", "reactive_goal"}
PassBusy == {"cancel_navigation", "cancel_reactive_goal",
             "update_reactive_goal", "say"}
\* Payloads that do not validate: a navigation goal, or anything else.
Invalid  == {"malformed_goal", "malformed"}
Op       == Motion \cup PassBusy \cup Invalid \cup {"release_control", "handle_action"}

Key      == Session \X Sequence
Envelope == [boot : Boot, key : Key, payload : Payload]
Receipt  == [payload : Payload, status : Status, stopConfirmed : BOOLEAN, stamp : Nat]
Entry    == [key : Key, at : Nat, dispatched : BOOLEAN]

ASSUME TrackerAssumption ==
  /\ Sequence \subseteq Nat
  /\ Payload \subseteq [op : Op, target : Key \cup {None}]
  /\ Capacity \in Nat /\ Capacity >= 2
  /\ None \notin Session /\ None \notin Key
  /\ Boot \subseteq Nat /\ 0 \in Boot

VARIABLES
  boot,       \* boot id of this server process
  receipts,   \* retained receipts, a function on identities
  arrivals,   \* commands accepted so far: the insertion order of receipts
  session,    \* the session that owns the robot, or None
  retired,    \* sessions that handed control back
  highWater,  \* greatest sequence accepted from the owner
  active,     \* identity in the motion slot, or None
  overdue,    \* the deadline of `active' has passed
  ledger      \* history: every identity consumed, and whether it was dispatched

trackerVars == <<boot, receipts, arrivals, session, retired, highWater,
                 active, overdue, ledger>>

TrackerTypeOK ==
  /\ boot \in Boot
  /\ DOMAIN receipts \subseteq Key
  /\ \A k \in DOMAIN receipts : receipts[k] \in Receipt
  /\ arrivals \in Nat
  /\ session \in Session \cup {None}
  /\ retired \subseteq Session
  /\ highWater \in Sequence \cup {-1}
  /\ active \in Key \cup {None}
  /\ overdue \in BOOLEAN
  /\ ledger \subseteq Entry

TrackerInit ==
  /\ boot = 0
  /\ receipts = [k \in {} |-> None]
  /\ arrivals = 0
  /\ session = None
  /\ retired = {}
  /\ highWater = -1
  /\ active = None
  /\ overdue = FALSE
  /\ ledger = {}

-----------------------------------------------------------------------------
(* Acceptance *)

Owner(k) == k[1]

\* The lease is free and may still be taken, or the session already has it.
MayCommand(s) ==
  IF session = None THEN Cardinality(retired) < Capacity ELSE s = session

\* The same identity with the same payload: answered from the history.
IsRetry(e) ==
  /\ e.boot = boot /\ e.payload.op \notin Invalid
  /\ Owner(e.key) \in retired \/ MayCommand(Owner(e.key))
  /\ e.key \in DOMAIN receipts
  /\ receipts[e.key].payload = e.payload

\* Fault: the sequence is not compared with the high-water mark.
IsFreshUnordered(e) ==
  /\ e.boot = boot /\ e.payload.op \notin Invalid
  /\ Owner(e.key) \notin retired
  /\ MayCommand(Owner(e.key))
  /\ e.key \notin DOMAIN receipts

\* Fault: the boot id of the envelope is not compared.
IsFreshAnyBoot(e) ==
  /\ e.payload.op \notin Invalid
  /\ Owner(e.key) \notin retired
  /\ MayCommand(Owner(e.key))
  /\ e.key \notin DOMAIN receipts
  /\ e.key[2] > highWater

\* A new identity, in order, from the owner or from the first to ask.
IsFresh(e) ==
  /\ e.boot = boot /\ e.payload.op \notin Invalid
  /\ Owner(e.key) \notin retired
  /\ MayCommand(Owner(e.key))
  /\ e.key \notin DOMAIN receipts
  /\ e.key[2] > highWater

\* Everything else raises, and consumes nothing.
IsRefused(e) == ~IsRetry(e) /\ ~IsFresh(e)

\* Fault: a new goal takes the motion slot from the goal in progress.
IsBusyPreempted(e) == active # None /\ e.payload.op \notin PassBusy \cup Motion

IsBusy(e) == active # None /\ e.payload.op \notin PassBusy

\* Fault: the oldest receipt is dropped whatever it holds.
RetainNewer(book, holder) ==
  IF Cardinality(DOMAIN book) <= Capacity
  THEN receipts' = book
  ELSE \E victim \in DOMAIN book :
         /\ \A k \in DOMAIN book : book[victim].stamp <= book[k].stamp
         /\ receipts' = [k \in DOMAIN book \ {victim} |-> book[k]]

\* Fault: the history is trimmed from its newer end.
RetainOlder(book, holder) ==
  IF Cardinality(DOMAIN book) <= Capacity
  THEN receipts' = book
  ELSE \E victim \in DOMAIN book \ {holder} :
         /\ \A k \in DOMAIN book \ {holder} : book[victim].stamp >= book[k].stamp
         /\ receipts' = [k \in DOMAIN book \ {victim} |-> book[k]]

\* Drop the oldest receipt that does not hold the motion slot.  The bound held
\* before this acceptance, so the code's loop runs at most once.
Retain(book, holder) ==
  IF Cardinality(DOMAIN book) <= Capacity
  THEN receipts' = book
  ELSE \E victim \in DOMAIN book \ {holder} :
         /\ \A k \in DOMAIN book \ {holder} : book[victim].stamp <= book[k].stamp
         /\ receipts' = [k \in DOMAIN book \ {victim} |-> book[k]]

Accept(e) ==
  LET receipt == [payload |-> e.payload,
                  status |-> IF IsBusy(e) THEN "rejected" ELSE "accepted",
                  stopConfirmed |-> FALSE,
                  stamp |-> arrivals]
      takesSlot == e.payload.op \in Motion /\ ~IsBusy(e)
      holder == IF takesSlot THEN e.key ELSE active
  IN /\ IsFresh(e)
     /\ session' = Owner(e.key)
     /\ highWater' = e.key[2]
     /\ arrivals' = arrivals + 1
     /\ active' = holder
     /\ overdue' = (overdue /\ ~takesSlot)
     /\ Retain([k \in DOMAIN receipts \cup {e.key} |->
                  IF k = e.key THEN receipt ELSE receipts[k]], holder)
     /\ ledger' = ledger \cup
          {[key |-> e.key, at |-> arrivals, dispatched |-> ~IsBusy(e)]}
     /\ UNCHANGED <<boot, retired>>

-----------------------------------------------------------------------------
(* Outcomes, hand-over and expiry *)

\* "terminal command outcome is immutable"
Conflicts(k, status) ==
  receipts[k].status \in Terminal /\ receipts[k].status # status

\* Fault: a terminal receipt is updated like any other.
TransitionAgain(k, status, stopConfirmed, release) ==
  /\ receipts' = [receipts EXCEPT ![k].status = status,
                                  ![k].stopConfirmed = stopConfirmed]
  /\ active' = IF status \in Terminal /\ active = k /\ release
               THEN None ELSE active
  /\ UNCHANGED <<boot, arrivals, session, retired, highWater, overdue, ledger>>

Transition(k, status, stopConfirmed, release) ==
  /\ ~Conflicts(k, status)
  /\ IF receipts[k].status \in Terminal
     THEN UNCHANGED <<receipts, active>>
     ELSE /\ receipts' = [receipts EXCEPT ![k].status = status,
                                          ![k].stopConfirmed = stopConfirmed]
          /\ active' = IF status \in Terminal /\ active = k /\ release
                       THEN None ELSE active
  /\ UNCHANGED <<boot, arrivals, session, retired, highWater, overdue, ledger>>

CanRelease(s) == s = session /\ active = None

\* Fault: the session is cleared before it is retired.
ReleaseControlCleared(s) ==
  /\ CanRelease(s)
  /\ retired' = retired \cup {None}
  /\ session' = None
  /\ highWater' = -1
  /\ UNCHANGED <<boot, receipts, arrivals, active, overdue, ledger>>

ReleaseControl(s) ==
  /\ CanRelease(s)
  /\ retired' = retired \cup {s}
  /\ session' = None
  /\ highWater' = -1
  /\ UNCHANGED <<boot, receipts, arrivals, active, overdue, ledger>>

\* The clock passes the deadline of the command in the motion slot.
Expire ==
  /\ active # None /\ ~overdue
  /\ overdue' = TRUE
  /\ UNCHANGED <<boot, receipts, arrivals, session, retired, highWater, active, ledger>>

ExpiredNavigation == active # None /\ overdue

\* Fault: the deadline is never looked at.
InTimeAlways == TRUE

InTime == ~ExpiredNavigation

-----------------------------------------------------------------------------
(* The tracker under callers that use it in any order. *)

TrackerNext ==
  \/ \E e \in Envelope : Accept(e)
  \/ \E k \in DOMAIN receipts, status \in Terminal \cup {"running"},
        stopConfirmed, release \in BOOLEAN :
        Transition(k, status, stopConfirmed, release)
  \/ \E s \in Session : ReleaseControl(s)
  \/ Expire

TrackerSpec == TrackerInit /\ [][TrackerNext]_trackerVars

-----------------------------------------------------------------------------
(* Properties *)

\* No identity is consumed twice: neither an eviction of its receipt nor a
\* change of owner lets a repeated envelope be dispatched again, or lets a
\* command that was turned away as busy run later (command_tracker.accept).
ConsumedOnce ==
  \A l, m \in ledger : l.key = m.key => l = m

\* The history stays within its capacity without ever losing the receipt of
\* the command that holds the motion slot (the eviction loop of accept).
SlotReceiptRetained ==
  /\ Cardinality(DOMAIN receipts) <= Capacity
  /\ active # None => active \in DOMAIN receipts

\* Accepting a command never evicts the receipt it has just written, on which
\* the caller's next transition depends; it needs two receipts of capacity.
NewReceiptRetained ==
  [][\A l \in ledger' \ ledger : l.key \in DOMAIN receipts']_trackerVars

\* The outcome a client has read stays the outcome while the receipt is kept
\* (transition: "terminal command outcome is immutable").
OutcomeImmutable ==
  [][\A k \in DOMAIN receipts \cap DOMAIN receipts' :
       receipts[k].status \in Terminal => receipts'[k] = receipts[k]]_trackerVars
=============================================================================
