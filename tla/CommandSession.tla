--------------------------- MODULE CommandSession ---------------------------
(***************************************************************************)
(* Clients of one robot server, and the sockets between them.  A client    *)
(* sends a command, reads the receipt histories that the server publishes, *)
(* and sends the same envelope again until it finds an answer there or     *)
(* gives up.  Every socket keeps the latest message only and may lose it;  *)
(* the server may restart under a new boot id at any time.                 *)
(*                                                                         *)
(* A client is one thread that makes one library call at a time; the calls *)
(* are those that navigate.  Timeouts are choices: a client that has no    *)
(* answer may give up or ask again.                                        *)
(***************************************************************************)
EXTENDS CommandRuntime, Sequences

CONSTANT Stream   \* the streams that carry receipts: state, observations, servo

VARIABLES
  client,    \* the clients, by session id
  wire,      \* per client, the message that the server has not read, or None
  draft,     \* per publisher, what its next message holds so far
  view,      \* per client and stream, the latest message received, or None
  archive    \* history: identities dispatched by earlier boots

clientVars  == <<client, wire, draft, view, archive>>
sessionVars == <<vars, clientVars>>

\* Where a client is, and what a command that it sends is for.
Place   == {"idle", "sending", "waiting", "closed"}
Purpose == {"command", "cancel", "expire", "close", "release"}

SessionTypeOK ==
  /\ TypeOK
  /\ \A s \in Session :
       /\ client[s].at \in Place
       /\ client[s].purpose \in Purpose
       /\ client[s].action \in Envelope \cup {None}
       /\ client[s].boot \in Boot \cup {None}
       /\ {client[s].goal, client[s].before} \subseteq Key \cup {None}
       /\ client[s].answered \cup client[s].over \subseteq Key
       /\ wire[s] \in Envelope \cup {None}
  /\ \A p \in Stream : Len(draft[p]) <= 2
  /\ archive \subseteq Key

\* Of a client, `boot' is _command_boot, `next' _command_sequence, `goal'
\* _last_navigation_command and `before' its previous value, `receipt'
\* _command_receipt.  The last three record what its calls have told the caller:
\* the commands acknowledged, the goals over, and whether control was released.
SessionInit ==
  /\ Init
  /\ client = [s \in Session |->
       [at |-> "idle", purpose |-> "command", action |-> None, boot |-> None,
        next |-> 0, goal |-> None, before |-> None, receipt |-> None,
        answered |-> {}, over |-> {}, release |-> FALSE]]
  /\ wire = [s \in Session |-> None]
  /\ draft = [p \in Stream |-> <<>>]
  /\ view = [s \in Session |-> [p \in Stream |-> None]]
  /\ archive = {}

-----------------------------------------------------------------------------
(* Reading receipts *)

Messages(s) == {view[s][p] : p \in Stream} \ {None}

\* Every stream that has spoken speaks for the same boot, the expected one.
PeerIs(s, b) == Messages(s) # {} /\ \A m \in Messages(s) : m.boot = b

Revision(r) == IF r.status \in Terminal THEN 2 ELSE IF r.status = "running" THEN 1 ELSE 0

Refused(s, k) ==
  \E m \in Messages(s) : m.error # None /\ m.error.boot = client[s].boot /\ m.error.key = k

\* The receipts for k in the latest message of each stream, and the one that
\* the client found last, when it is for k as well.
Found(s, k) ==
  {m.receipts[k] : m \in {n \in Messages(s) : k \in DOMAIN n.receipts}}
    \cup {c.receipt : c \in {r \in {client[s].receipt} \ {None} : r.key = k}}

\* command_receipt raises if the peer is another or has refused k.
CanLookUp(s, k) == PeerIs(s, client[s].boot) /\ ~Refused(s, k)

\* Fault: an older receipt is preferred to a newer one.
LatestOldest(s, k) ==
  IF Found(s, k) = {} THEN None
  ELSE CHOOSE r \in Found(s, k) : \A q \in Found(s, k) : Revision(r) <= Revision(q)

Latest(s, k) ==
  IF Found(s, k) = {} THEN None
  ELSE CHOOSE r \in Found(s, k) : \A q \in Found(s, k) : Revision(q) <= Revision(r)

\* A lookup leaves the client with the receipt that it found.
Remember(c, k, r) ==
  IF r = None THEN c ELSE [c EXCEPT !.receipt = [key |-> k, receipt |-> r]]

\* Fault: any terminal receipt is taken for a confirmed stop.
ConfirmsAnyEnd(r) == r # None /\ r.status \in Terminal

ConfirmsStop(r) ==
  r # None /\ (r.status \in {"succeeded", "cancelled"} \/ r.stopConfirmed)

\* Fault: a rejection is taken for an acknowledgement.
NegativeLess == {"failed", "cancelled"}

\* The outcomes with which send_command raises.
Negative == {"failed", "rejected", "cancelled"}

IsOver(r) == r # None /\ r.status \in Terminal

-----------------------------------------------------------------------------
(* Sending *)

\* The sequence numbers of the instance are not used up.
CanSend(s) == client[s].next \in Sequence

\* The payloads with a goal for the base, which the client does not validate.
NavigationGoal == {"xyt", "malformed_goal"}

\* send_command up to its first transmission, for client state c of s.
Begin(s, c, payload, purpose) ==
  \E b \in Boot :
    LET envelope == [boot |-> b, key |-> <<s, c.next>>, payload |-> payload]
        known == [c EXCEPT !.boot = b, !.next = @ + 1, !.action = envelope,
                           !.before = c.goal, !.at = "sending", !.purpose = purpose]
    IN /\ PeerIs(s, b) /\ c.boot \in {b, None}
       /\ client' = [client EXCEPT ![s] =
            IF payload.op \in NavigationGoal THEN [known EXCEPT !.goal = envelope.key]
            ELSE known]
       /\ wire' = [wire EXCEPT ![s] = envelope]

Simply(op) == [op |-> op, target |-> None]
CancelOf(k) == [op |-> "cancel_navigation", target |-> k]

\* The payloads include those that the library builds by itself.
ASSUME SessionAssumption ==
  /\ None \notin Boot \cup Envelope
  /\ Simply("release_control") \in Payload
  /\ \A k \in Key : CancelOf(k) \in Payload

\* The call raises or returns, and its locals go; a wait keeps its goal.
End(s, c, place) ==
  client' = [client EXCEPT ![s] =
    [c EXCEPT !.at = place, !.purpose = "command", !.before = None,
              !.action = IF place = "waiting" THEN @ ELSE None]]

\* A purpose whose command raised: closing swallows the exception.
After(purpose) == IF purpose \in {"close", "release"} THEN "closed" ELSE "idle"

SendCommand(s) ==
  /\ client[s].at = "idle" /\ CanSend(s)
  /\ \E payload \in Payload :
       /\ payload.op \notin {"cancel_navigation", "release_control"}
       /\ Begin(s, client[s], payload, "command")

\* cancel_navigation without an argument, for the goal sent last.
CancelGoal(s) ==
  /\ client[s].at = "idle" /\ CanSend(s) /\ client[s].goal # None
  /\ Begin(s, client[s], CancelOf(client[s].goal), "cancel")

\* The retransmission loop of send_command has no answer yet.
Unanswered(s) ==
  /\ client[s].at = "sending"
  /\ CanLookUp(s, client[s].action.key)
  /\ Latest(s, client[s].action.key) = None

Resend(s) ==
  /\ Unanswered(s)
  /\ wire' = [wire EXCEPT ![s] = client[s].action]
  /\ UNCHANGED client

\* "acknowledgement timed out; outcome unknown", or command_receipt raises.
GiveUp(s) ==
  /\ client[s].at = "sending"
  /\ Unanswered(s) \/ ~CanLookUp(s, client[s].action.key)
  /\ End(s, client[s], After(client[s].purpose))
  /\ UNCHANGED wire

\* The command failed or was rejected.  A goal that was rejected is no longer
\* the one to cancel.
Denied(s) ==
  LET key == client[s].action.key
      r == Latest(s, key)
      c == Remember(client[s], key, r)
  IN /\ client[s].at = "sending" /\ CanLookUp(s, key) /\ r # None
     /\ r.status \in Negative
     /\ End(s, IF client[s].action.payload.op \in NavigationGoal /\ r.status = "rejected"
               THEN [c EXCEPT !.goal = c.before] ELSE c,
            After(client[s].purpose))
     /\ UNCHANGED wire

\* The command was taken.  What follows depends on the call that sent it; a
\* cancellation looks up its goal and reports a stop only if it finds one.
Taken(s) ==
  LET key == client[s].action.key
      r == Latest(s, key)
      told == [Remember(client[s], key, r) EXCEPT !.answered = @ \cup {key}]
      target == client[s].action.payload.target
      \* the client after the lookup of the goal that it has cancelled
      c == Remember(told, target, Latest(s, target))
      done == [c EXCEPT !.over = @ \cup {target}]
  IN /\ client[s].at = "sending" /\ CanLookUp(s, key) /\ r # None
     /\ r.status \notin Negative
     /\ \/ /\ client[s].purpose = "command"
           /\ \E place \in {"idle"} \cup
                 (IF client[s].action.payload.op \in NavigationGoal THEN {"waiting"} ELSE {}) :
                End(s, told, place)
           /\ UNCHANGED wire
        \/ /\ client[s].purpose \in {"cancel", "expire", "close"}
           /\ ~CanLookUp(s, target)
           /\ End(s, told, After(client[s].purpose))
           /\ UNCHANGED wire
        \/ /\ client[s].purpose \in {"cancel", "expire"}
           /\ CanLookUp(s, target)
           /\ End(s, IF ConfirmsStop(Latest(s, target)) THEN done ELSE c, "idle")
           /\ UNCHANGED wire
        \/ /\ client[s].purpose = "close"
           /\ CanLookUp(s, target)
           /\ IF ConfirmsStop(Latest(s, target))
              THEN CanSend(s) /\ Begin(s, done, Simply("release_control"), "release")
              ELSE End(s, c, "closed") /\ UNCHANGED wire
        \/ /\ client[s].purpose = "release"
           /\ End(s, [told EXCEPT !.release = TRUE], "closed")
           /\ UNCHANGED wire

-----------------------------------------------------------------------------
(* Waiting and closing *)

\* wait_navigation: the goal has a receipt, and is not over.
Watches(s) ==
  LET r == Latest(s, client[s].action.key)
  IN /\ client[s].at = "waiting" /\ CanLookUp(s, client[s].action.key)
     /\ r # None /\ ~IsOver(r)
     /\ client' = [client EXCEPT ![s] = Remember(@, client[s].action.key, r)]
     /\ UNCHANGED wire

\* The goal is over, or its lookup raises.
Awaited(s) ==
  LET key == client[s].action.key
      r == Latest(s, key)
      c == Remember(client[s], key, r)
  IN /\ client[s].at = "waiting"
     /\ \/ /\ ~CanLookUp(s, key)
           /\ End(s, client[s], "idle")
        \/ /\ CanLookUp(s, key) /\ IsOver(r)
           /\ End(s, IF r.status = "succeeded" THEN [c EXCEPT !.over = @ \cup {key}] ELSE c,
                  "idle")
     /\ UNCHANGED wire

\* The wait has lasted too long: the goal is cancelled.
Expired(s) ==
  /\ client[s].at = "waiting" /\ CanSend(s)
  /\ Begin(s, client[s], CancelOf(client[s].action.key), "expire")

\* close_command_session: unless the goal sent last is known to be over, it is
\* cancelled first.
Close(s) ==
  LET goal == client[s].goal
      r == Latest(s, goal)
      c == Remember(client[s], goal, r)
  IN /\ client[s].at = "idle" /\ client[s].next > 0
     /\ \/ /\ goal # None /\ ~CanLookUp(s, goal)
           /\ End(s, client[s], "closed")
           /\ UNCHANGED wire
        \/ /\ goal # None /\ CanLookUp(s, goal) /\ ~IsOver(r) /\ CanSend(s)
           /\ Begin(s, c, CancelOf(goal), "close")
        \/ /\ goal # None => CanLookUp(s, goal) /\ IsOver(r)
           /\ CanSend(s)
           /\ Begin(s, IF goal = None THEN client[s] ELSE c,
                    Simply("release_control"), "release")

ClientStep(s) ==
  \/ SendCommand(s) \/ CancelGoal(s)
  \/ Resend(s) \/ GiveUp(s) \/ Denied(s) \/ Taken(s)
  \/ Watches(s) \/ Awaited(s) \/ Expired(s) \/ Close(s)

-----------------------------------------------------------------------------
(* Sockets, publishers and restarts *)

Deliver(s) ==
  /\ wire[s] # None
  /\ Receive(wire[s])
  /\ wire' = [wire EXCEPT ![s] = None]
  /\ UNCHANGED <<client, draft, view, archive>>

Lose(s) ==
  /\ wire[s] # None
  /\ wire' = [wire EXCEPT ![s] = None]
  /\ UNCHANGED <<vars, client, draft, view, archive>>

\* A publisher reads the boot id and the error under the dispatch lock, ...
ReadError(p) ==
  /\ pc \in {"poll", "recv", "dead"} /\ draft[p] = <<>>
  /\ draft' = [draft EXCEPT ![p] = <<[boot |-> boot, error |-> cmdError]>>]
  /\ UNCHANGED <<vars, client, wire, view, archive>>

\* ... the receipts later, without it, ...
CopyReceipts(p) ==
  /\ Len(draft[p]) = 1
  /\ draft' = [draft EXCEPT ![p] = Append(@, receipts)]
  /\ UNCHANGED <<vars, client, wire, view, archive>>

\* ... and the message reaches some of the clients, later still.
Publish(p) ==
  /\ Len(draft[p]) = 2
  /\ \E listeners \in SUBSET Session :
       view' = [s \in Session |->
         IF s \in listeners
         THEN [view[s] EXCEPT ![p] = [boot |-> draft[p][1].boot, error |-> draft[p][1].error,
                                      receipts |-> draft[p][2]]]
         ELSE view[s]]
  /\ draft' = [draft EXCEPT ![p] = <<>>]
  /\ UNCHANGED <<vars, client, wire, archive>>

\* The server process ends, and another starts: it knows nothing of commands,
\* and the robot does whatever it does.  A finished message is still on its way.
Restart ==
  /\ boot + 1 \in Boot
  /\ boot' = boot + 1
  /\ archive' = archive \cup {l.key : l \in {m \in ledger : m.dispatched}}
  /\ receipts' = [k \in {} |-> None]
  /\ arrivals' = 0
  /\ session' = None /\ retired' = {} /\ highWater' = -1
  /\ active' = None /\ overdue' = FALSE
  /\ ledger' = {}
  /\ pc' = "poll" /\ inflight' = None /\ verdict' = None
  /\ current' = [kind \in Kind |-> None]
  /\ fault' = [kind \in Kind |-> FALSE]
  /\ monitored' = FALSE /\ cmdError' = None
  /\ draft' = [p \in Stream |-> IF Len(draft[p]) = 2 THEN draft[p] ELSE <<>>]
  /\ UNCHANGED <<base, client, wire, view>>

SessionNext ==
  \/ \E s \in Session : ClientStep(s) /\ UNCHANGED <<vars, draft, view, archive>>
  \/ \E s \in Session : Deliver(s) \/ Lose(s)
  \/ \E p \in Stream : ReadError(p) \/ CopyReceipts(p) \/ Publish(p)
  \/ Restart
  \/ (ReceiveLoop \/ Robot \/ Clock) /\ UNCHANGED clientVars

SessionSpec == SessionInit /\ [][SessionNext]_sessionVars

-----------------------------------------------------------------------------
(* Properties *)

SameBoot(s) == client[s].boot = boot

\* A goal that a call has reported as reached or as stopped is over: it does
\* not hold the motion slot, and nothing moves the robot on its behalf
\* (cancel_navigation, wait_navigation).
OverIsOver ==
  \A s \in Session : SameBoot(s) =>
    active \notin client[s].over

\* A client never goes back to an older receipt of the command it looked up
\* last, whatever its streams still show (command_receipt: "never regress the
\* receipt").
ReceiptNeverRegresses ==
  [][\A s \in Session :
       LET old == client[s].receipt
           new == client'[s].receipt
       IN old # None /\ new.key = old.key
            => Revision(old.receipt) <= Revision(new.receipt)]_sessionVars

\* A command that was acknowledged was handed to the robot by this boot, once,
\* and not merely refused or turned away (send_command).
AnsweredIsDispatched ==
  \A s \in Session : SameBoot(s) =>
    \A k \in client[s].answered : \E l \in ledger : l.key = k /\ l.dispatched

\* No envelope, however late it arrives, is dispatched by two boots.
NoReplay ==
  \A l \in ledger : l.dispatched => l.key \notin archive

\* A client that has closed with its release acknowledged commands nothing any
\* more: its session is retired, or is just being retired, and no motion is
\* left in its name (close_command_session).
ReleasedIsRetired ==
  \A s \in Session : SameBoot(s) /\ client[s].release =>
    /\ s \in retired \/ (inflight # None /\ Owner(inflight) = s)
    /\ active # None => Owner(active) # s

=============================================================================
