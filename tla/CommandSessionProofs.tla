------------------------ MODULE CommandSessionProofs ------------------------
(***************************************************************************)
(* What the calls of a client tell their caller is true of the server, for *)
(* any number of clients, streams and commands, however messages are lost, *)
(* delayed or repeated and however often the server restarts: an envelope  *)
(* is dispatched by one boot, an acknowledged command was dispatched, a    *)
(* goal reported over is over, a released session is retired.              *)
(*                                                                         *)
(* The argument: every receipt in a message of the present boot, or in the *)
(* hands of a client of that boot, was once in the server's own history,   *)
(* where it was true; and what it reports does not become false.           *)
(***************************************************************************)
EXTENDS CommandSession, CommandRuntimeProofs, SequenceTheorems

-----------------------------------------------------------------------------
(* The inductive invariant: types *)

ClientState ==
  [at : Place, purpose : Purpose, action : Envelope \cup {None},
   boot : Boot \cup {None}, next : Nat, goal : Key \cup {None}, before : Key \cup {None},
   receipt : [key : Key, receipt : Receipt] \cup {None},
   answered : SUBSET Key, over : SUBSET Key, release : BOOLEAN]

IsHistory(h) == DOMAIN h \subseteq Key /\ \A k \in DOMAIN h : h[k] \in Receipt

\* No boot id is ahead of the server's.
KnownBoot(b) == b \in Boot /\ b <= boot

\* What a publisher has of its next message: nothing, its header, or all of it.
IsDraft(d) ==
  \/ d = <<>>
  \/ d = <<d[1]>> /\ KnownBoot(d[1].boot)
  \/ d = <<d[1], d[2]>> /\ KnownBoot(d[1].boot) /\ IsHistory(d[2])

Typed ==
  /\ client \in [Session -> ClientState]
  /\ wire \in [Session -> Envelope \cup {None}]
  /\ draft = [p \in Stream |-> draft[p]]
  /\ \A p \in Stream : IsDraft(draft[p])
  /\ view = [s \in Session |-> [p \in Stream |-> view[s][p]]]
  /\ \A s \in Session, p \in Stream :
       view[s][p] # None => KnownBoot(view[s][p].boot) /\ IsHistory(view[s][p].receipts)
  /\ archive \subseteq Key

-----------------------------------------------------------------------------
(* The inductive invariant: identities *)

\* An envelope that s has built for its boot.
BuiltBy(s, e) ==
  e.key[1] = s /\ e.key[2] < client[s].next /\ e.boot = client[s].boot

\* A client that has never sent anything knows nothing.
Unborn(s) ==
  /\ client[s].action = None /\ wire[s] = None /\ client[s].receipt = None
  /\ client[s].answered = {} /\ client[s].over = {} /\ ~client[s].release

ClientInv(s) ==
  /\ client[s].boot = None => Unborn(s)
  /\ client[s].boot # None => client[s].boot <= boot
  /\ client[s].action # None =>
       BuiltBy(s, client[s].action) /\ wire[s] \in {None, client[s].action}
  /\ wire[s] # None => BuiltBy(s, wire[s])
  /\ client[s].at \in {"sending", "waiting"} => client[s].action # None
  /\ client[s].at = "sending" /\ client[s].purpose = "release" =>
       client[s].action.payload.op = "release_control"

\* An identity is used for one boot only.
LedgerInv ==
  /\ \A l \in ledger :
       /\ client[Owner(l.key)].boot = boot
       /\ l.key[2] < client[Owner(l.key)].next
  /\ \A k \in archive : client[Owner(k)].boot # None /\ client[Owner(k)].boot < boot

-----------------------------------------------------------------------------
(* The inductive invariant: reports *)

\* What a receipt reports of the command k is true, and it is that of the
\* envelope that its client is working on.
TrueReceipt(k, r) ==
  /\ Consumed(k)
  /\ r.status # "rejected" => Dispatched(k)
  /\ ConfirmsStop(r) => Settled(k)
  /\ r.payload.op = "release_control" /\ r.status \in NotDenied => Released(k)
  /\ client[Owner(k)].action # None /\ client[Owner(k)].action.key = k
       => client[Owner(k)].action.payload = r.payload

\* The receipts of this boot: in the server, in messages, and with clients.
Reported(k, r) ==
  \/ k \in DOMAIN receipts /\ r = receipts[k]
  \/ \E p \in Stream :
       /\ draft[p] = <<draft[p][1], draft[p][2]>> /\ draft[p][1].boot = boot
       /\ k \in DOMAIN draft[p][2] /\ r = draft[p][2][k]
  \/ \E s \in Session, p \in Stream :
       /\ view[s][p] # None /\ view[s][p].boot = boot
       /\ k \in DOMAIN view[s][p].receipts /\ r = view[s][p].receipts[k]
  \/ \E s \in Session :
       /\ SameBoot(s) /\ client[s].receipt # None
       /\ client[s].receipt.key = k /\ r = client[s].receipt.receipt

ReportsInv == \A k, r : Reported(k, r) => TrueReceipt(k, r)

\* What a client of this boot has told its caller.
CallsInv ==
  \A s \in Session : SameBoot(s) =>
    /\ \A k \in client[s].answered : Dispatched(k)
    /\ \A k \in client[s].over : Settled(k)
    /\ client[s].release => \E k \in Key : Owner(k) = s /\ Released(k)

SessionInv ==
  /\ HonestInv
  /\ Typed
  /\ \A s \in Session : ClientInv(s)
  /\ LedgerInv
  /\ ReportsInv
  /\ CallsInv

-----------------------------------------------------------------------------
(* Looking up a receipt *)

LEMMA RevisionType == \A r : Revision(r) \in {0, 1, 2}
BY DEF Revision

\* A lookup finds the most advanced of the receipts at hand.
LEMMA LatestFound ==
  ASSUME NEW s, NEW k, Latest(s, k) # None
  PROVE  /\ Latest(s, k) \in Found(s, k)
         /\ \A q \in Found(s, k) : Revision(q) <= Revision(Latest(s, k))
<1> DEFINE F == Found(s, k)
<1>1. F # {}
  BY DEF Latest
<1>2. \E r \in F : \A q \in F : Revision(q) <= Revision(r)
  <2> HIDE DEF F
  <2>1. CASE \E r \in F : Revision(r) = 2
    BY <2>1, RevisionType
  <2>2. CASE (\A r \in F : Revision(r) # 2) /\ \E r \in F : Revision(r) = 1
    BY <2>2, RevisionType
  <2>3. CASE \A r \in F : Revision(r) \notin {1, 2}
    BY <1>1, <2>3, RevisionType
  <2> QED BY <2>1, <2>2, <2>3
<1>3. Latest(s, k) = CHOOSE r \in F : \A q \in F : Revision(q) <= Revision(r)
  BY <1>1 DEF Latest
<1> HIDE DEF F
<1>4. Latest(s, k) \in F /\ \A q \in F : Revision(q) <= Revision(Latest(s, k))
  BY <1>2, <1>3
<1> QED BY <1>4 DEF F

\* What a client of this boot finds is reported, and well typed.
LEMMA LatestReported ==
  ASSUME Typed, NEW s \in Session, NEW k, CanLookUp(s, k), Latest(s, k) # None
  PROVE  /\ k \in Key /\ Latest(s, k) \in Receipt
         /\ SameBoot(s) => Reported(k, Latest(s, k))
<1>1. Latest(s, k) \in Found(s, k)
  BY LatestFound
<1>2. CASE \E m \in Messages(s) : k \in DOMAIN m.receipts /\ Latest(s, k) = m.receipts[k]
  <2>1. PICK m \in Messages(s) : k \in DOMAIN m.receipts /\ Latest(s, k) = m.receipts[k]
    BY <1>2
  <2>2. m.boot = client[s].boot
    BY <2>1 DEF CanLookUp, PeerIs
  <2>3. PICK p \in Stream : m = view[s][p] /\ view[s][p] # None
    BY DEF Messages
  <2>4. IsHistory(m.receipts)
    BY <2>3 DEF Typed
  <2> QED BY <2>1, <2>2, <2>3, <2>4 DEF IsHistory, Reported, SameBoot
<1>3. CASE /\ client[s].receipt # None /\ client[s].receipt.key = k
           /\ Latest(s, k) = client[s].receipt.receipt
  <2>1. client[s].receipt \in [key : Key, receipt : Receipt]
    BY <1>3 DEF Typed, ClientState
  <2> QED BY <1>3, <2>1 DEF Reported
<1> QED BY <1>1, <1>2, <1>3 DEF Found

-----------------------------------------------------------------------------
(* A step of one client *)

\* A client's receipt r after a step is its old one, or the latest that it finds.
Follows(s, r) ==
  r = client[s].receipt \/ (Latest(s, r.key) # None /\ r.receipt = Latest(s, r.key))

\* No client goes back to an older receipt.
Advances ==
  \A s \in Session :
    client[s].receipt # None /\ client'[s].receipt.key = client[s].receipt.key
      => Revision(client[s].receipt.receipt) <= Revision(client'[s].receipt.receipt)

LEMMA FollowsAdvances ==
  ASSUME NEW s, NEW r, Follows(s, r),
         client[s].receipt # None, r.key = client[s].receipt.key
  PROVE  Revision(client[s].receipt.receipt) <= Revision(r.receipt)
<1>1. CASE r = client[s].receipt
  BY <1>1, RevisionType
<1>2. CASE Latest(s, r.key) # None /\ r.receipt = Latest(s, r.key)
  <2>1. client[s].receipt.receipt \in Found(s, r.key)
    BY DEF Found
  <2> QED BY <1>2, <2>1, LatestFound
<1> QED BY <1>1, <1>2 DEF Follows

LEMMA BootLemma == Boot \subseteq Nat /\ None \notin Boot /\ None \notin Envelope
BY TrackerAssumption, SessionAssumption

\* The state of one client and its socket change; nothing that it now knows is
\* false, and a new envelope has a new identity.
LEMMA ClientUpdate ==
  ASSUME SessionInv, NEW s \in Session, NEW c \in ClientState,
         NEW e \in Envelope \cup {None},
         client' = [client EXCEPT ![s] = c], wire' = [wire EXCEPT ![s] = e],
         UNCHANGED <<vars, draft, view, archive>>,
         ClientInv(s)',
         client[s].boot # None => c.boot = client[s].boot,
         c.next >= client[s].next,
         c.action \in {None, client[s].action} \/ c.action.key = <<s, client[s].next>>,
         Follows(s, c.receipt),
         c.boot = boot /\ c.receipt # None => Reported(c.receipt.key, c.receipt.receipt),
         c.boot = boot => /\ \A k \in c.answered : Dispatched(k)
                          /\ \A k \in c.over : Settled(k)
                          /\ c.release => \E k \in Key : Owner(k) = s /\ Released(k)
  PROVE  SessionInv' /\ Advances
<1>1. /\ HonestInv' /\ \A t : Settled(t) => Settled(t)'
      /\ \A t : Dispatched(t) => Dispatched(t)'
      /\ \A t : Consumed(t) => Consumed(t)'
      /\ \A t : Released(t) => Released(t)'
  BY HonestNextInv DEF SessionInv, SettledStays
<1>2. UNCHANGED <<boot, receipts, ledger>>
  BY DEF vars, trackerVars
<1>3. client \in [Session -> ClientState] /\ wire \in [Session -> Envelope \cup {None}]
  BY DEF SessionInv, Typed
<1>4. /\ client'[s] = c /\ wire'[s] = e
      /\ \A u \in Session \ {s} : client'[u] = client[u] /\ wire'[u] = wire[u]
  BY <1>3
<1>5. Typed'
  <2>1. client' \in [Session -> ClientState] /\ wire' \in [Session -> Envelope \cup {None}]
    BY <1>3
  <2> QED BY <1>2, <2>1 DEF SessionInv, Typed, IsDraft, KnownBoot, IsHistory
<1>6. \A u \in Session : ClientInv(u)'
  BY <1>2, <1>4 DEF SessionInv, ClientInv, Unborn, BuiltBy
<1>7. /\ \A l \in ledger : l.key \in Key
      /\ boot # None
  BY BootLemma DEF SessionInv, HonestInv, TruthInv, RuntimeInv, TrackerInv, TrackerTypeOK, Entry
<1>8. LedgerInv'
  <2>1. ASSUME NEW l \in ledger
        PROVE  /\ client'[Owner(l.key)].boot = boot
               /\ l.key[2] < client'[Owner(l.key)].next
    <3>1. /\ Owner(l.key) \in Session /\ l.key[2] \in Int
          /\ client[Owner(l.key)].boot = boot
          /\ l.key[2] < client[Owner(l.key)].next
      BY <1>7, KeyLemma DEF SessionInv, LedgerInv
    <3>2. client[s].next \in Int /\ c.next \in Int
      BY <1>3 DEF ClientState
    <3> QED BY <1>4, <1>7, <3>1, <3>2
  <2>2. ASSUME NEW k \in archive
        PROVE  client'[Owner(k)].boot # None /\ client'[Owner(k)].boot < boot
    <3>1. Owner(k) \in Session /\ client[Owner(k)].boot # None /\ client[Owner(k)].boot < boot
      BY KeyLemma DEF SessionInv, LedgerInv, Typed
    <3> QED BY <1>4, <3>1
  <2> QED BY <1>2, <2>1, <2>2 DEF LedgerInv, Owner
<1>9. ReportsInv'
  <2> SUFFICES ASSUME NEW k, NEW r, Reported(k, r)' PROVE TrueReceipt(k, r)'
    BY DEF ReportsInv
  <2>1. Reported(k, r)
    BY <1>2, <1>4 DEF Reported, SameBoot
  <2>2. TrueReceipt(k, r)
    BY <2>1 DEF SessionInv, ReportsInv
  <2>3. /\ Consumed(k)'
        /\ r.status # "rejected" => Dispatched(k)'
        /\ ConfirmsStop(r) => Settled(k)'
        /\ r.payload.op = "release_control" /\ r.status \in NotDenied => Released(k)'
    BY <1>1, <2>2 DEF TrueReceipt
  <2>4. Owner(k) \in Session /\ k[2] \in Int /\ k[2] < client[Owner(k)].next /\ k[1] = Owner(k)
    <3>1. PICK l \in ledger : l.key = k
      BY <2>2 DEF TrueReceipt, Consumed
    <3> QED BY <1>7, <3>1, KeyLemma DEF SessionInv, LedgerInv
  <2>5. ASSUME client'[Owner(k)].action # None, client'[Owner(k)].action.key = k
        PROVE  client'[Owner(k)].action.payload = r.payload
    <3>1. CASE client'[Owner(k)].action = client[Owner(k)].action
      BY <2>2, <2>5, <3>1 DEF TrueReceipt
    <3>2. CASE Owner(k) = s /\ c.action.key = <<s, client[s].next>>
      <4>1. k[2] = client[s].next
        BY <1>4, <2>5, <3>2
      <4>2. client[s].next \in Int
        BY <1>3 DEF ClientState
      <4> QED BY <2>4, <3>2, <4>1, <4>2
    <3> QED BY <1>4, <2>4, <2>5, <3>1, <3>2
  <2> QED BY <2>3, <2>5 DEF TrueReceipt, Owner, ConfirmsStop
<1>10. CallsInv'
  <2> SUFFICES ASSUME NEW u \in Session, client'[u].boot = boot
               PROVE  /\ \A k \in client'[u].answered : Dispatched(k)'
                      /\ \A k \in client'[u].over : Settled(k)'
                      /\ client'[u].release => \E k \in Key : Owner(k) = u /\ Released(k)'
    BY <1>2 DEF CallsInv, SameBoot, Owner
  <2> QED BY <1>1, <1>4 DEF SessionInv, CallsInv, SameBoot
<1>11. Advances
  <2> SUFFICES ASSUME NEW u \in Session, client[u].receipt # None,
                      client'[u].receipt.key = client[u].receipt.key
               PROVE  Revision(client[u].receipt.receipt)
                        <= Revision(client'[u].receipt.receipt)
    BY DEF Advances
  <2>1. Follows(u, client'[u].receipt)
    BY <1>4 DEF Follows
  <2> QED BY <2>1, FollowsAdvances
<1> QED BY <1>1, <1>5, <1>6, <1>8, <1>9, <1>10, <1>11 DEF SessionInv

\* c is what client s may know: it differs from the client's state only in its
\* goal and in facts learned, all of them true.
Learned(s, c) ==
  /\ c \in ClientState
  /\ c.boot = client[s].boot /\ c.next = client[s].next /\ c.action = client[s].action
  /\ c.at = client[s].at /\ c.purpose = client[s].purpose
  /\ Follows(s, c.receipt)
  /\ c.boot = None =>
       c.receipt = None /\ c.answered = {} /\ c.over = {} /\ ~c.release
  /\ c.boot = boot =>
       /\ c.receipt # None => Reported(c.receipt.key, c.receipt.receipt)
       /\ \A k \in c.answered : Dispatched(k)
       /\ \A k \in c.over : Settled(k)
       /\ c.release => \E k \in Key : Owner(k) = s /\ Released(k)

LEMMA LearnedSelf ==
  ASSUME SessionInv, NEW s \in Session
  PROVE  Learned(s, client[s])
<1>1. /\ client[s] \in ClientState
      /\ client[s].boot = None => Unborn(s)
  BY DEF SessionInv, Typed, ClientInv
<1> QED BY <1>1 DEF SessionInv, Learned, Follows, Unborn, CallsInv, SameBoot, Reported

\* A lookup is possible only for a client that has spoken to its server.
LEMMA LookUpBoot ==
  ASSUME Typed, NEW s \in Session, NEW k, CanLookUp(s, k)
  PROVE  client[s].boot # None
<1>1. PICK m \in Messages(s) : m.boot = client[s].boot
  BY DEF CanLookUp, PeerIs
<1>2. m.boot \in Boot
  BY DEF Messages, Typed, KnownBoot
<1> QED BY <1>1, <1>2, BootLemma

LEMMA LearnedReceipt ==
  ASSUME SessionInv, NEW s \in Session, NEW c, Learned(s, c), NEW k, CanLookUp(s, k)
  PROVE  Learned(s, Remember(c, k, Latest(s, k)))
<1> DEFINE r == Latest(s, k)
           d == [c EXCEPT !.receipt = [key |-> k, receipt |-> r]]
<1>1. CASE r = None
  BY <1>1 DEF Remember
<1>2. CASE r # None
  <2>1. /\ k \in Key /\ r \in Receipt /\ client[s].boot # None
        /\ SameBoot(s) => Reported(k, r)
    BY <1>2, LatestReported, LookUpBoot DEF SessionInv
  <2>2. Remember(c, k, r) = d
    BY <1>2 DEF Remember
  <2> HIDE DEF r
  <2>3. c \in ClientState
    BY DEF Learned
  <2>4. /\ d.at = c.at /\ d.purpose = c.purpose /\ d.action = c.action /\ d.boot = c.boot
        /\ d.next = c.next /\ d.answered = c.answered /\ d.over = c.over
        /\ d.release = c.release /\ d.receipt = [key |-> k, receipt |-> r]
        /\ d \in ClientState
    BY <2>1, <2>3 DEF ClientState
  <2> HIDE DEF d
  <2>5. Learned(s, d)
    <3>1. Follows(s, d.receipt)
      BY <1>2, <2>4 DEF Follows, r
    <3> QED BY <2>1, <2>4, <3>1 DEF Learned, SameBoot
  <2> QED BY <2>2, <2>5 DEF r
<1> QED BY <1>1, <1>2

LEMMA LearnedAnswer ==
  ASSUME SessionInv, NEW s \in Session, NEW c, Learned(s, c), NEW k \in Key,
         client[s].boot # None, SameBoot(s) => Dispatched(k)
  PROVE  Learned(s, [c EXCEPT !.answered = @ \cup {k}])
<1> DEFINE d == [c EXCEPT !.answered = @ \cup {k}]
<1>1. c \in ClientState
  BY DEF Learned
<1>2. /\ d.at = c.at /\ d.purpose = c.purpose /\ d.action = c.action /\ d.boot = c.boot
      /\ d.next = c.next /\ d.receipt = c.receipt /\ d.over = c.over
      /\ d.release = c.release /\ d.answered = c.answered \cup {k}
      /\ d \in ClientState
  BY <1>1 DEF ClientState
<1> HIDE DEF d
<1>3. Learned(s, d)
  BY <1>2 DEF Learned, SameBoot
<1> QED BY <1>3 DEF d

LEMMA LearnedOver ==
  ASSUME SessionInv, NEW s \in Session, NEW c, Learned(s, c), NEW k \in Key,
         client[s].boot # None, SameBoot(s) => Settled(k)
  PROVE  Learned(s, [c EXCEPT !.over = @ \cup {k}])
<1> DEFINE d == [c EXCEPT !.over = @ \cup {k}]
<1>1. c \in ClientState
  BY DEF Learned
<1>2. /\ d.at = c.at /\ d.purpose = c.purpose /\ d.action = c.action /\ d.boot = c.boot
      /\ d.next = c.next /\ d.receipt = c.receipt /\ d.answered = c.answered
      /\ d.release = c.release /\ d.over = c.over \cup {k}
      /\ d \in ClientState
  BY <1>1 DEF ClientState
<1> HIDE DEF d
<1>3. Learned(s, d)
  BY <1>2 DEF Learned, SameBoot
<1> QED BY <1>3 DEF d

LEMMA LearnedRelease ==
  ASSUME SessionInv, NEW s \in Session, NEW c, Learned(s, c),
         client[s].boot # None,
         SameBoot(s) => \E k \in Key : Owner(k) = s /\ Released(k)
  PROVE  Learned(s, [c EXCEPT !.release = TRUE])
<1> DEFINE d == [c EXCEPT !.release = TRUE]
<1>1. c \in ClientState
  BY DEF Learned
<1>2. /\ d.at = c.at /\ d.purpose = c.purpose /\ d.action = c.action /\ d.boot = c.boot
      /\ d.next = c.next /\ d.receipt = c.receipt /\ d.answered = c.answered
      /\ d.over = c.over /\ d \in ClientState
  BY <1>1 DEF ClientState
<1> HIDE DEF d
<1>3. Learned(s, d)
  BY <1>2 DEF Learned, SameBoot
<1> QED BY <1>3 DEF d

LEMMA LearnedGoal ==
  ASSUME SessionInv, NEW s \in Session, NEW c, Learned(s, c), NEW g \in Key \cup {None}
  PROVE  Learned(s, [c EXCEPT !.goal = g])
<1> DEFINE d == [c EXCEPT !.goal = g]
<1>1. c \in ClientState
  BY DEF Learned
<1>2. /\ d.at = c.at /\ d.purpose = c.purpose /\ d.action = c.action /\ d.boot = c.boot
      /\ d.next = c.next /\ d.receipt = c.receipt /\ d.answered = c.answered
      /\ d.over = c.over /\ d.release = c.release
      /\ d \in ClientState
  BY <1>1 DEF ClientState
<1> HIDE DEF d
<1>3. Learned(s, d)
  BY <1>2 DEF Learned
<1> QED BY <1>3 DEF d

\* A call or a step of it ends with what it has learned.
LEMMA EndKeeps ==
  ASSUME SessionInv, NEW s \in Session, NEW c, Learned(s, c),
         NEW place \in {"idle", "waiting", "closed"},
         place = "waiting" => client[s].action # None,
         End(s, c, place), UNCHANGED <<wire, vars, draft, view, archive>>
  PROVE  SessionInv' /\ Advances
<1> DEFINE d == [c EXCEPT !.at = place, !.purpose = "command", !.before = None,
                          !.action = IF place = "waiting" THEN @ ELSE None]
<1>1. c \in ClientState /\ client \in [Session -> ClientState]
      /\ wire \in [Session -> Envelope \cup {None}]
  BY DEF Learned, SessionInv, Typed
<1>2. client' = [client EXCEPT ![s] = d]
  BY DEF End
<1>3. /\ d.at = place /\ d.purpose = "command" /\ d.boot = c.boot /\ d.next = c.next
      /\ d.action = (IF place = "waiting" THEN c.action ELSE None)
      /\ d.receipt = c.receipt /\ d.answered = c.answered /\ d.over = c.over
      /\ d.release = c.release
      /\ d \in ClientState
  BY <1>1 DEF ClientState, Place, Purpose
<1> HIDE DEF d
<1>4. client'[s] = d /\ wire'[s] = wire[s] /\ wire' = [wire EXCEPT ![s] = wire[s]]
  BY <1>1, <1>2
<1>5. boot' = boot
  BY DEF vars, trackerVars
<1>6. ClientInv(s)
  BY DEF SessionInv
<1>7. ClientInv(s)'
  BY <1>3, <1>4, <1>5, <1>6 DEF Learned, ClientInv, Unborn, BuiltBy
<1>8. d.next >= client[s].next
  BY <1>1, <1>3 DEF Learned, ClientState
<1>9. /\ Follows(s, d.receipt)
      /\ d.boot = client[s].boot /\ d.action \in {None, client[s].action}
      /\ d.boot = boot /\ d.receipt # None => Reported(d.receipt.key, d.receipt.receipt)
      /\ d.boot = boot => /\ \A k \in d.answered : Dispatched(k)
                          /\ \A k \in d.over : Settled(k)
                          /\ d.release => \E k \in Key : Owner(k) = s /\ Released(k)
  BY <1>3 DEF Learned
<1>10. wire[s] \in Envelope \cup {None} /\ UNCHANGED <<vars, draft, view, archive>>
  BY <1>1
<1> QED BY <1>2, <1>3, <1>4, <1>7, <1>8, <1>9, <1>10, ClientUpdate

\* A new envelope has the client's next identity and the boot that all of its
\* streams speak for.
LEMMA BeginKeeps ==
  ASSUME SessionInv, NEW s \in Session, NEW c, Learned(s, c), CanSend(s),
         NEW payload \in Payload, NEW purpose \in Purpose,
         purpose = "release" => payload.op = "release_control",
         Begin(s, c, payload, purpose), UNCHANGED <<vars, draft, view, archive>>
  PROVE  SessionInv' /\ Advances
<1>1. PICK b \in Boot :
        /\ PeerIs(s, b) /\ c.boot \in {b, None}
        /\ LET envelope == [boot |-> b, key |-> <<s, c.next>>, payload |-> payload]
               known == [c EXCEPT !.boot = b, !.next = @ + 1, !.action = envelope,
                                  !.before = c.goal, !.at = "sending", !.purpose = purpose]
           IN /\ client' = [client EXCEPT ![s] =
                   IF payload.op \in NavigationGoal THEN [known EXCEPT !.goal = envelope.key]
                   ELSE known]
              /\ wire' = [wire EXCEPT ![s] = envelope]
  BY DEF Begin
<1> DEFINE envelope == [boot |-> b, key |-> <<s, c.next>>, payload |-> payload]
           known == [c EXCEPT !.boot = b, !.next = @ + 1, !.action = envelope,
                              !.before = c.goal, !.at = "sending", !.purpose = purpose]
           d == IF payload.op \in NavigationGoal THEN [known EXCEPT !.goal = envelope.key]
                ELSE known
<1>2. /\ c \in ClientState /\ client \in [Session -> ClientState]
      /\ wire \in [Session -> Envelope \cup {None}]
      /\ c.next = client[s].next /\ c.next \in Sequence /\ c.next \in Nat
  BY DEF Learned, SessionInv, Typed, CanSend, ClientState
<1>3. /\ envelope \in Envelope /\ envelope.key = <<s, client[s].next>>
      /\ envelope.key[1] = s /\ envelope.key[2] = client[s].next
      /\ envelope.boot = b /\ envelope.payload = payload /\ envelope # None
  BY <1>2, BootLemma DEF Envelope, Key
<1>4. b \in Boot /\ b # None /\ b <= boot /\ (client[s].boot # None => client[s].boot = b)
  <2>1. PICK p \in Stream : view[s][p] # None /\ view[s][p].boot = b
    BY <1>1 DEF PeerIs, Messages
  <2>2. b <= boot
    BY <2>1 DEF SessionInv, Typed, KnownBoot
  <2> QED BY <1>1, <2>2, BootLemma DEF Learned
<1>5. client' = [client EXCEPT ![s] = d] /\ wire' = [wire EXCEPT ![s] = envelope]
  BY <1>1
<1> HIDE DEF envelope
<1>6. /\ d.at = "sending" /\ d.purpose = purpose /\ d.boot = b
      /\ d.next = client[s].next + 1 /\ d.action = envelope
      /\ d.receipt = c.receipt /\ d.answered = c.answered /\ d.over = c.over
      /\ d.release = c.release
      /\ d \in ClientState
  <2>1. /\ envelope.key \in Key /\ "sending" \in Place /\ c.next + 1 \in Nat
        /\ c.goal \in Key \cup {None}
    BY <1>2, <1>3 DEF Envelope, ClientState, Place
  <2>2. /\ known.at = "sending" /\ known.purpose = purpose /\ known.boot = b
        /\ known.next = client[s].next + 1 /\ known.action = envelope
        /\ known.receipt = c.receipt /\ known.answered = c.answered
        /\ known.over = c.over /\ known.release = c.release
        /\ known \in ClientState
    BY <1>2, <1>3, <1>4, <2>1 DEF ClientState
  <2> HIDE DEF known
  <2>3. CASE payload.op \notin NavigationGoal
    BY <2>2, <2>3
  <2>4. CASE payload.op \in NavigationGoal
    <3>1. d = [known EXCEPT !.goal = envelope.key]
      BY <2>4
    <3> QED BY <2>1, <2>2, <3>1 DEF ClientState
  <2> QED BY <2>3, <2>4
<1> HIDE DEF d, known
<1>7. client'[s] = d /\ wire'[s] = envelope
  BY <1>2, <1>5
<1>8. boot' = boot
  BY DEF vars, trackerVars
<1>9. ClientInv(s)'
  BY <1>2, <1>3, <1>4, <1>6, <1>7, <1>8 DEF ClientInv, BuiltBy
<1>10. /\ d.next >= client[s].next
       /\ client[s].boot # None => d.boot = client[s].boot
       /\ d.action.key = <<s, client[s].next>>
  BY <1>2, <1>3, <1>4, <1>6
<1>11. /\ Follows(s, d.receipt)
       /\ d.boot = boot /\ d.receipt # None => Reported(d.receipt.key, d.receipt.receipt)
       /\ d.boot = boot => /\ \A k \in d.answered : Dispatched(k)
                           /\ \A k \in d.over : Settled(k)
                           /\ d.release => \E k \in Key : Owner(k) = s /\ Released(k)
  BY <1>4, <1>6 DEF Learned
<1> QED BY <1>3, <1>5, <1>6, <1>9, <1>10, <1>11, ClientUpdate

-----------------------------------------------------------------------------
(* The calls of a client *)

\* A client that is in a call has an envelope, for a boot that it knows.
LEMMA CallFacts ==
  ASSUME SessionInv, NEW s \in Session, client[s].at \in {"sending", "waiting"}
  PROVE  /\ client[s].action \in Envelope /\ client[s].action # None
         /\ client[s].action.key \in Key /\ Owner(client[s].action.key) = s
         /\ client[s].action.payload \in Payload
         /\ client[s].boot # None
<1>1. /\ client[s].action \in Envelope /\ client[s].action # None
      /\ client[s].action.key[1] = s /\ client[s].boot # None
  BY DEF SessionInv, Typed, ClientState, ClientInv, BuiltBy, Unborn
<1> QED BY <1>1 DEF Envelope, Owner

\* What a client finds is true, if the server is still the same.
LEMMA FoundIsTrue ==
  ASSUME SessionInv, NEW s \in Session, NEW k, CanLookUp(s, k), Latest(s, k) # None
  PROVE  /\ k \in Key /\ Latest(s, k) \in Receipt /\ client[s].boot # None
         /\ SameBoot(s) => TrueReceipt(k, Latest(s, k))
<1>1. Typed
  BY DEF SessionInv
<1> QED BY <1>1, LatestReported, LookUpBoot DEF SessionInv, ReportsInv

\* A client learns something, or puts its envelope on the wire again.
LEMMA StayKeeps ==
  ASSUME SessionInv, NEW s \in Session, NEW c, Learned(s, c),
         NEW e \in {wire[s], client[s].action}, e # None => client[s].action # None,
         client' = [client EXCEPT ![s] = c], wire' = [wire EXCEPT ![s] = e],
         UNCHANGED <<vars, draft, view, archive>>
  PROVE  SessionInv' /\ Advances
<1>1. /\ c \in ClientState /\ client \in [Session -> ClientState]
      /\ wire \in [Session -> Envelope \cup {None}]
  BY DEF Learned, SessionInv, Typed
<1>2. client'[s] = c /\ wire'[s] = e /\ e \in Envelope \cup {None}
  BY <1>1 DEF ClientState
<1>3. boot' = boot
  BY DEF vars, trackerVars
<1>4. ClientInv(s)
  BY DEF SessionInv
<1>5. ClientInv(s)'
  BY <1>2, <1>3, <1>4 DEF Learned, ClientInv, Unborn, BuiltBy
<1>6. /\ Follows(s, c.receipt)
      /\ c.boot = client[s].boot /\ c.action = client[s].action /\ c.next >= client[s].next
      /\ c.boot = boot /\ c.receipt # None => Reported(c.receipt.key, c.receipt.receipt)
      /\ c.boot = boot => /\ \A k \in c.answered : Dispatched(k)
                          /\ \A k \in c.over : Settled(k)
                          /\ c.release => \E k \in Key : Owner(k) = s /\ Released(k)
  BY <1>1 DEF Learned, ClientState
<1> QED BY <1>1, <1>2, <1>5, <1>6, ClientUpdate

LEMMA SendKeeps ==
  ASSUME SessionInv, NEW s \in Session, UNCHANGED <<vars, draft, view, archive>>,
         SendCommand(s) \/ CancelGoal(s) \/ Expired(s)
  PROVE  SessionInv' /\ Advances
<1>1. Learned(s, client[s])
  BY LearnedSelf
<1>2. CASE SendCommand(s)
  BY <1>1, <1>2, BeginKeeps DEF SendCommand, Purpose
<1>3. CASE CancelGoal(s)
  <2>1. client[s].goal \in Key
    BY <1>3 DEF CancelGoal, SessionInv, Typed, ClientState
  <2>2. CancelOf(client[s].goal) \in Payload
    BY <2>1, SessionAssumption
  <2> QED BY <1>1, <1>3, <2>2, BeginKeeps DEF CancelGoal, Purpose
<1>4. CASE Expired(s)
  <2>1. CancelOf(client[s].action.key) \in Payload
    BY <1>4, CallFacts, SessionAssumption DEF Expired
  <2> QED BY <1>1, <1>4, <2>1, BeginKeeps DEF Expired, Purpose
<1> QED BY <1>2, <1>3, <1>4

LEMMA ResendKeeps ==
  ASSUME SessionInv, NEW s \in Session, UNCHANGED <<vars, draft, view, archive>>,
         Resend(s)
  PROVE  SessionInv' /\ Advances
<1>1. client[s].action # None
  BY CallFacts DEF Resend, Unanswered
<1>2. client' = [client EXCEPT ![s] = client[s]]
  BY DEF Resend, SessionInv, Typed
<1>3. wire' = [wire EXCEPT ![s] = client[s].action]
  BY DEF Resend
<1> QED BY <1>1, <1>2, <1>3, LearnedSelf, StayKeeps

LEMMA GiveUpKeeps ==
  ASSUME SessionInv, NEW s \in Session, UNCHANGED <<vars, draft, view, archive>>,
         GiveUp(s)
  PROVE  SessionInv' /\ Advances
<1>1. End(s, client[s], After(client[s].purpose)) /\ UNCHANGED wire
  BY DEF GiveUp
<1>2. After(client[s].purpose) \in {"idle", "closed"}
  BY DEF After
<1> QED BY <1>1, <1>2, LearnedSelf, EndKeeps

LEMMA DeniedKeeps ==
  ASSUME SessionInv, NEW s \in Session, UNCHANGED <<vars, draft, view, archive>>,
         Denied(s)
  PROVE  SessionInv' /\ Advances
<1> DEFINE key == client[s].action.key
           c == Remember(client[s], key, Latest(s, key))
<1>1. CanLookUp(s, key) /\ UNCHANGED wire
  BY DEF Denied
<1>2. Learned(s, c)
  BY <1>1, LearnedSelf, LearnedReceipt
<1>3. After(client[s].purpose) \in {"idle", "closed"}
  BY DEF After
<1>4. \/ End(s, [c EXCEPT !.goal = c.before], After(client[s].purpose))
      \/ End(s, c, After(client[s].purpose))
  BY DEF Denied
<1> HIDE DEF c, key
<1>5. Learned(s, [c EXCEPT !.goal = c.before])
  <2>1. c.before \in Key \cup {None}
    BY <1>2 DEF Learned, ClientState
  <2> QED BY <1>2, <2>1, LearnedGoal
<1> QED BY <1>1, <1>2, <1>3, <1>4, <1>5, EndKeeps

\* An envelope that was taken was dispatched; if it asked for a release, then
\* control has been released.
LEMMA TakenIsTrue ==
  ASSUME SessionInv, NEW s \in Session, client[s].at = "sending", SameBoot(s),
         CanLookUp(s, client[s].action.key),
         Latest(s, client[s].action.key) # None,
         Latest(s, client[s].action.key).status \notin Negative
  PROVE  /\ Dispatched(client[s].action.key)
         /\ client[s].purpose = "release" => Released(client[s].action.key)
<1> DEFINE key == client[s].action.key
           r == Latest(s, key)
<1>1. /\ client[s].action # None /\ Owner(key) = s
  BY CallFacts
<1>2. r \in Receipt /\ TrueReceipt(key, r)
  BY FoundIsTrue
<1>3. r.status \in NotDenied
  <2>1. r.status \in Status
    BY <1>2 DEF Receipt
  <2> QED BY <2>1 DEF Status, Terminal, Negative, NotDenied
<1> HIDE DEF r
<1>4. client[s].action.payload = r.payload
  BY <1>1, <1>2 DEF TrueReceipt
<1>5. client[s].purpose = "release" => client[s].action.payload.op = "release_control"
  BY DEF SessionInv, ClientInv
<1> QED BY <1>2, <1>3, <1>4, <1>5 DEF TrueReceipt, NotDenied

LEMMA TakenKeeps ==
  ASSUME SessionInv, NEW s \in Session, UNCHANGED <<vars, draft, view, archive>>,
         Taken(s)
  PROVE  SessionInv' /\ Advances
<1> DEFINE key == client[s].action.key
           r == Latest(s, key)
           told == [Remember(client[s], key, r) EXCEPT !.answered = @ \cup {key}]
           target == client[s].action.payload.target
           c == Remember(told, target, Latest(s, target))
           done == [c EXCEPT !.over = @ \cup {target}]
<1>1. /\ client[s].at = "sending" /\ CanLookUp(s, key) /\ r # None
      /\ r.status \notin Negative
  BY DEF Taken
<1>2. key \in Key /\ Owner(key) = s /\ client[s].boot # None /\ client[s].action # None
  BY <1>1, CallFacts
<1>3. SameBoot(s) => /\ Dispatched(key)
                     /\ client[s].purpose = "release" => Released(key)
  BY <1>1, TakenIsTrue
<1>4. Learned(s, told)
  BY <1>1, <1>2, <1>3, LearnedSelf, LearnedReceipt, LearnedAnswer
<1>5. CanLookUp(s, target) => Learned(s, c)
  <2> HIDE DEF told, target
  <2> QED BY <1>4, LearnedReceipt
<1>6. CanLookUp(s, target) /\ ConfirmsStop(Latest(s, target)) => Learned(s, done)
  <2> SUFFICES ASSUME CanLookUp(s, target), ConfirmsStop(Latest(s, target))
               PROVE  Learned(s, done)
    OBVIOUS
  <2> HIDE DEF target
  <2>1. Latest(s, target) # None
    BY DEF ConfirmsStop
  <2>2. target \in Key /\ (SameBoot(s) => Settled(target))
    BY <2>1, FoundIsTrue DEF TrueReceipt
  <2> HIDE DEF c
  <2> QED BY <1>2, <1>5, <2>2, LearnedOver
<1>7. client[s].purpose = "release" => Learned(s, [told EXCEPT !.release = TRUE])
  <2> HIDE DEF told, key
  <2> QED BY <1>2, <1>3, <1>4, LearnedRelease
<1>8. After(client[s].purpose) \in {"idle", "closed"}
  BY DEF After
<1>9. \/ \E place \in {"idle", "waiting"} : End(s, told, place) /\ UNCHANGED wire
      \/ End(s, told, After(client[s].purpose)) /\ UNCHANGED wire
      \/ /\ CanLookUp(s, target)
         /\ \/ ConfirmsStop(Latest(s, target)) /\ End(s, done, "idle")
            \/ End(s, c, "idle") \/ End(s, c, "closed")
         /\ UNCHANGED wire
      \/ /\ CanLookUp(s, target) /\ ConfirmsStop(Latest(s, target))
         /\ CanSend(s) /\ Begin(s, done, Simply("release_control"), "release")
      \/ /\ client[s].purpose = "release"
         /\ End(s, [told EXCEPT !.release = TRUE], "closed") /\ UNCHANGED wire
  <2> HIDE DEF told, c, done, target
  <2> QED BY DEF Taken, told, c, done, target
<1> HIDE DEF told, c, done, target, key, r
<1>10. CASE \E place \in {"idle", "waiting"} : End(s, told, place) /\ UNCHANGED wire
  BY <1>2, <1>4, <1>10, EndKeeps
<1>11. CASE End(s, told, After(client[s].purpose)) /\ UNCHANGED wire
  BY <1>2, <1>4, <1>8, <1>11, EndKeeps
<1>12. CASE /\ CanLookUp(s, target)
            /\ \/ ConfirmsStop(Latest(s, target)) /\ End(s, done, "idle")
               \/ End(s, c, "idle") \/ End(s, c, "closed")
            /\ UNCHANGED wire
  BY <1>5, <1>6, <1>12, EndKeeps
<1>13. CASE /\ CanLookUp(s, target) /\ ConfirmsStop(Latest(s, target))
            /\ CanSend(s) /\ Begin(s, done, Simply("release_control"), "release")
  BY <1>6, <1>13, SessionAssumption, BeginKeeps DEF Simply, Purpose
<1>14. CASE /\ client[s].purpose = "release"
            /\ End(s, [told EXCEPT !.release = TRUE], "closed") /\ UNCHANGED wire
  BY <1>7, <1>14, EndKeeps
<1> QED BY <1>9, <1>10, <1>11, <1>12, <1>13, <1>14

LEMMA WatchesKeeps ==
  ASSUME SessionInv, NEW s \in Session, UNCHANGED <<vars, draft, view, archive>>,
         Watches(s)
  PROVE  SessionInv' /\ Advances
<1> DEFINE k == client[s].action.key
           c == Remember(client[s], k, Latest(s, k))
<1>1. CanLookUp(s, k)
  BY DEF Watches
<1>2. Learned(s, c)
  BY <1>1, LearnedSelf, LearnedReceipt
<1>3. client' = [client EXCEPT ![s] = c] /\ wire' = [wire EXCEPT ![s] = wire[s]]
  BY DEF Watches, SessionInv, Typed
<1>4. client[s].action # None
  BY CallFacts DEF Watches
<1> HIDE DEF c
<1> QED BY <1>2, <1>3, <1>4, StayKeeps

LEMMA AwaitedKeeps ==
  ASSUME SessionInv, NEW s \in Session, UNCHANGED <<vars, draft, view, archive>>,
         Awaited(s)
  PROVE  SessionInv' /\ Advances
<1> DEFINE key == client[s].action.key
           r == Latest(s, key)
           c == Remember(client[s], key, r)
           d == [c EXCEPT !.over = @ \cup {key}]
<1>1. CASE ~CanLookUp(s, key)
  <2>1. End(s, client[s], "idle") /\ UNCHANGED wire
    BY <1>1 DEF Awaited
  <2> QED BY <2>1, LearnedSelf, EndKeeps
<1>2. CASE CanLookUp(s, key)
  <2>1. /\ r # None /\ UNCHANGED wire
        /\ End(s, c, "idle") \/ (r.status = "succeeded" /\ End(s, d, "idle"))
    BY <1>2 DEF Awaited, IsOver
  <2>2. Learned(s, c)
    BY <1>2, LearnedSelf, LearnedReceipt
  <2>3. /\ key \in Key /\ client[s].boot # None
        /\ SameBoot(s) => TrueReceipt(key, r)
    BY <1>2, <2>1, FoundIsTrue
  <2> HIDE DEF c, r, key
  <2>4. CASE End(s, c, "idle")
    BY <2>1, <2>2, <2>4, EndKeeps
  <2>5. CASE r.status = "succeeded" /\ End(s, d, "idle")
    <3>1. SameBoot(s) => Settled(key)
      BY <2>1, <2>3, <2>5 DEF TrueReceipt, ConfirmsStop
    <3>2. Learned(s, d)
      BY <2>2, <2>3, <3>1, LearnedOver
    <3> HIDE DEF d
    <3> QED BY <2>1, <2>5, <3>2, EndKeeps
  <2> QED BY <2>1, <2>4, <2>5
<1> QED BY <1>1, <1>2

LEMMA CloseKeeps ==
  ASSUME SessionInv, NEW s \in Session, UNCHANGED <<vars, draft, view, archive>>,
         Close(s)
  PROVE  SessionInv' /\ Advances
<1> DEFINE goal == client[s].goal
           c == Remember(client[s], goal, Latest(s, goal))
<1>1. Learned(s, client[s])
  BY LearnedSelf
<1>2. CanLookUp(s, goal) => Learned(s, c)
  BY <1>1, LearnedReceipt
<1>3. goal \in Key \cup {None}
  BY DEF SessionInv, Typed, ClientState
<1>4. \/ End(s, client[s], "closed") /\ UNCHANGED wire
      \/ /\ goal # None /\ CanLookUp(s, goal) /\ CanSend(s)
         /\ Begin(s, c, CancelOf(goal), "close")
      \/ CanSend(s) /\ Begin(s, client[s], Simply("release_control"), "release")
      \/ /\ CanLookUp(s, goal) /\ CanSend(s)
         /\ Begin(s, c, Simply("release_control"), "release")
  <2> HIDE DEF c, goal
  <2> QED BY DEF Close, c, goal
<1>5. "close" \in Purpose /\ "release" \in Purpose /\ "close" # "release"
  BY DEF Purpose
<1>6. /\ Simply("release_control") \in Payload
      /\ Simply("release_control").op = "release_control"
  BY SessionAssumption DEF Simply
<1>7. goal # None => CancelOf(goal) \in Payload
  BY <1>3, SessionAssumption
<1> HIDE DEF c, goal
<1>8. CASE End(s, client[s], "closed") /\ UNCHANGED wire
  BY <1>1, <1>8, EndKeeps
<1>9. CASE /\ goal # None /\ CanLookUp(s, goal) /\ CanSend(s)
           /\ Begin(s, c, CancelOf(goal), "close")
  BY <1>2, <1>5, <1>7, <1>9, BeginKeeps
<1>10. CASE CanSend(s) /\ Begin(s, client[s], Simply("release_control"), "release")
  BY <1>1, <1>5, <1>6, <1>10, BeginKeeps
<1>11. CASE /\ CanLookUp(s, goal) /\ CanSend(s)
            /\ Begin(s, c, Simply("release_control"), "release")
  BY <1>2, <1>5, <1>6, <1>11, BeginKeeps
<1> QED BY <1>4, <1>8, <1>9, <1>10, <1>11

LEMMA ClientKeeps ==
  ASSUME SessionInv, NEW s \in Session, UNCHANGED <<vars, draft, view, archive>>,
         ClientStep(s)
  PROVE  SessionInv' /\ Advances
BY SendKeeps, ResendKeeps, GiveUpKeeps, DeniedKeeps, TakenKeeps, WatchesKeeps,
   AwaitedKeeps, CloseKeeps DEF ClientStep

-----------------------------------------------------------------------------
(* A step of the server *)

\* The envelope that s has sent is e, as far as the history can tell.
Sent(s, e) ==
  /\ wire[s] # None /\ wire[s].key = e.key /\ wire[s].boot = e.boot
  /\ e.key \in DOMAIN receipts' => wire[s].payload = e.payload

\* The envelope that the server accepts has an identity that no boot has seen.
\* What is reported of this boot is about identities consumed before.
LEMMA ServerKeeps ==
  ASSUME SessionInv, [Next]_vars, UNCHANGED <<client, draft, view, archive>>,
         wire' \in [Session -> Envelope \cup {None}],
         \A s \in Session : wire'[s] \in {None, wire[s]},
         \A e \in Envelope : Accept(e) => \E s \in Session : Sent(s, e)
  PROVE  SessionInv'
<1>1. /\ HonestInv' /\ \A t : Settled(t) => Settled(t)'
      /\ \A t : Dispatched(t) => Dispatched(t)'
      /\ \A t : Consumed(t) => Consumed(t)'
      /\ \A t : Released(t) => Released(t)'
  BY HonestNextInv DEF SessionInv, SettledStays
<1>2. /\ TrackerInv /\ [TrackerNext]_trackerVars
      /\ HistoryDispatched' /\ HistoryReleased' /\ TruthInv'
  BY <1>1, StepTracks DEF SessionInv, HonestInv, TruthInv, RuntimeInv
<1>3. boot' = boot
  BY <1>2, LedgerGrows
\* The envelope accepted is one that its client has built for this boot.
<1>4. ASSUME NEW e \in Envelope, Accept(e)
      PROVE  /\ client[Owner(e.key)].boot = boot
             /\ e.key[2] < client[Owner(e.key)].next
             /\ client[Owner(e.key)].action # None /\ e.key \in DOMAIN receipts' =>
                  client[Owner(e.key)].action.payload = e.payload
  <2>1. PICK s \in Session : Sent(s, e)
    BY <1>4
  <2>2. e.key[1] = s /\ e.key[2] < client[s].next /\ e.boot = client[s].boot
    BY <2>1 DEF Sent, SessionInv, ClientInv, BuiltBy
  <2>3. e.boot = boot
    BY <1>4 DEF Accept, IsFresh
  <2> QED BY <2>1, <2>2, <2>3 DEF Sent, SessionInv, ClientInv, Owner
<1>5. Typed'
  BY <1>3 DEF SessionInv, Typed, IsDraft, KnownBoot, IsHistory
<1>6. \A s \in Session : ClientInv(s)'
  BY <1>3 DEF SessionInv, ClientInv, Unborn, BuiltBy
<1>7. LedgerInv'
  <2>1. ASSUME NEW l \in ledger'
        PROVE  /\ client[Owner(l.key)].boot = boot
               /\ l.key[2] < client[Owner(l.key)].next
    <3>1. CASE l \in ledger
      BY <3>1 DEF SessionInv, LedgerInv
    <3>2. ASSUME NEW e \in Envelope, Accept(e), l.key = e.key
          PROVE  /\ client[Owner(l.key)].boot = boot
                 /\ l.key[2] < client[Owner(l.key)].next
      BY <1>4, <3>2
    <3>3. \/ l \in ledger
          \/ \E e \in Envelope : Accept(e) /\ l.key = e.key
      <4>1. ASSUME NEW e \in Envelope, Accept(e) PROVE l \in ledger \/ l.key = e.key
        BY <4>1 DEF Accept
      <4> QED BY <1>2, <4>1 DEF TrackerNext, Transition, ReleaseControl, Expire, trackerVars
    <3> QED BY <3>1, <3>2, <3>3
  <2> QED BY <1>3, <2>1 DEF SessionInv, LedgerInv, Owner
\* A receipt of the history is true ...
<1>8. ASSUME NEW k \in DOMAIN receipts', NEW r, r = receipts'[k]
      PROVE  TrueReceipt(k, r)'
  <2>1. /\ Consumed(k)'
        /\ r.status # "rejected" => Dispatched(k)'
        /\ r.payload.op = "release_control" /\ r.status \in NotDenied
             => Released(k)'
    BY <1>2, <1>8 DEF HistoryDispatched, HistoryReleased, TruthInv, BookInv, HistoryConsumed
  <2>2. ConfirmsStop(r) => Settled(k)'
    <3>1. ConfirmsStop(r) =>
            /\ r.status \in Terminal
            /\ r.status = "failed" => r.stopConfirmed
      BY <1>2, <1>8 DEF ConfirmsStop, TruthInv, BookInv, StopIsFinal, Terminal
    <3>2. k # None
      BY <1>2, TrackerAssumption DEF TruthInv, RuntimeInv, TrackerInv, TrackerTypeOK
    <3>3. SlotFailed'
      BY <1>2 DEF TruthInv, BookInv
    <3>4. ConfirmsStop(r) => active' # k
      BY <1>8, <3>1, <3>2, <3>3 DEF ConfirmsStop, SlotFailed
    <3> QED BY <1>8, <2>1, <3>1, <3>4 DEF Settled
  <2>3. ASSUME client[Owner(k)].action # None, client[Owner(k)].action.key = k
        PROVE  client[Owner(k)].action.payload = r.payload
    <3>1. CASE k \in DOMAIN receipts /\ r.payload = receipts[k].payload
      <4>1. Reported(k, receipts[k])
        BY <3>1 DEF Reported
      <4> QED BY <2>3, <3>1, <4>1 DEF SessionInv, ReportsInv, TrueReceipt
    <3>2. CASE \E e \in Envelope :
                 Accept(e) /\ k = e.key /\ r.payload = e.payload
      BY <1>4, <1>8, <2>3, <3>2
    <3> QED BY <1>2, <1>8, <3>1, <3>2, KeptReceipts
  <2> QED BY <2>1, <2>2, <2>3 DEF TrueReceipt, Owner, ConfirmsStop
\* ... and so is one that was reported before.
<1>9. ASSUME NEW k, NEW r, TrueReceipt(k, r) PROVE TrueReceipt(k, r)'
  BY <1>1, <1>9 DEF TrueReceipt, Owner, ConfirmsStop
<1>10. ReportsInv'
  <2> SUFFICES ASSUME NEW k, NEW r, Reported(k, r)' PROVE TrueReceipt(k, r)'
    BY DEF ReportsInv
  <2>1. \/ k \in DOMAIN receipts' /\ r = receipts'[k]
        \/ Reported(k, r)
    BY <1>3 DEF Reported, SameBoot
  <2> QED BY <1>8, <1>9, <2>1 DEF SessionInv, ReportsInv
<1>11. CallsInv'
  BY <1>1, <1>3 DEF SessionInv, CallsInv, SameBoot, Owner
<1> QED BY <1>1, <1>5, <1>6, <1>7, <1>10, <1>11 DEF SessionInv

\* A step that adds nothing to the history accepts nothing.
LEMMA NothingAccepted ==
  ASSUME SessionInv, arrivals' = arrivals
  PROVE  \A e \in Envelope : ~Accept(e)
<1>1. arrivals \in Nat
  BY DEF SessionInv, HonestInv, TruthInv, RuntimeInv, TrackerInv, TrackerTypeOK
<1> QED BY <1>1 DEF Accept

LEMMA DeliverKeeps ==
  ASSUME SessionInv, NEW s \in Session, Deliver(s)
  PROVE  SessionInv'
<1> DEFINE f == wire[s]
<1>1. f \in Envelope /\ f # None /\ Receive(f)
  BY DEF Deliver, SessionInv, Typed
<1>2. [Next]_vars
  BY <1>1 DEF Next
<1>3. ASSUME NEW e \in Envelope, Accept(e) PROVE Sent(s, e)
  <2>1. AcceptCommand(f)
    <3>1. ~UNCHANGED trackerVars
      BY <1>3, NothingAccepted DEF trackerVars
    <3> QED BY <1>1, <3>1 DEF Receive, RefuseCommand, RepeatCommand
  <2>2. f.key = e.key
    <3>1. /\ Owner(f.key) = Owner(e.key) /\ f.key[2] = e.key[2]
      BY <1>3, <2>1 DEF Accept, AcceptCommand
    <3>2. f.key \in Key /\ e.key \in Key
      BY <1>1 DEF Envelope
    <3> QED BY <3>1, <3>2, KeyLemma
  <2>3. f.boot = e.boot
    BY <1>3, <2>1 DEF Accept, AcceptCommand, IsFresh
  <2>4. ASSUME e.key \in DOMAIN receipts' PROVE f.payload = e.payload
    <3>1. receipts'[e.key].payload = e.payload
      BY <1>3, <2>4, AcceptedReceipt
    <3>2. receipts'[e.key].payload = f.payload
      BY <1>1, <2>1, <2>2, <2>4, AcceptedReceipt DEF AcceptCommand
    <3> QED BY <3>1, <3>2
  <2> QED BY <1>1, <2>2, <2>3, <2>4 DEF Sent
<1>4. /\ wire' \in [Session -> Envelope \cup {None}]
      /\ \A u \in Session : wire'[u] \in {None, wire[u]}
      /\ UNCHANGED <<client, draft, view, archive>>
  BY DEF Deliver, SessionInv, Typed
<1> QED BY <1>2, <1>3, <1>4, ServerKeeps

LEMMA QuietKeeps ==
  ASSUME SessionInv,
         \/ \E s \in Session : Lose(s)
         \/ (ReceiveLoop \/ Robot \/ Clock) /\ UNCHANGED clientVars
         \/ UNCHANGED sessionVars
  PROVE  SessionInv'
<1>1. [Next]_vars /\ arrivals' = arrivals
  BY LoopAddsNothing DEF Lose, Next, sessionVars, vars, trackerVars
<1>2. /\ wire' \in [Session -> Envelope \cup {None}]
      /\ \A u \in Session : wire'[u] \in {None, wire[u]}
      /\ UNCHANGED <<client, draft, view, archive>>
  BY DEF Lose, SessionInv, Typed, clientVars, sessionVars
<1> QED BY <1>1, <1>2, NothingAccepted, ServerKeeps

-----------------------------------------------------------------------------
(* Messages *)

\* A message carries only what was reported before.
LEMMA MessageKeeps ==
  ASSUME SessionInv, UNCHANGED <<vars, client, wire, archive>>, Typed',
         \A k, r : Reported(k, r)' => Reported(k, r)
  PROVE  SessionInv'
<1>1. /\ HonestInv' /\ \A t : Settled(t) => Settled(t)'
      /\ \A t : Dispatched(t) => Dispatched(t)'
      /\ \A t : Consumed(t) => Consumed(t)'
      /\ \A t : Released(t) => Released(t)'
  BY HonestNextInv DEF SessionInv, SettledStays
<1>2. UNCHANGED <<boot, ledger>>
  BY DEF vars, trackerVars
<1>3. (\A s \in Session : ClientInv(s)') /\ LedgerInv' /\ CallsInv'
  BY <1>1, <1>2 DEF SessionInv, ClientInv, Unborn, BuiltBy, LedgerInv, CallsInv, SameBoot, Owner
<1>4. ReportsInv'
  BY <1>1 DEF SessionInv, ReportsInv, TrueReceipt, Owner, ConfirmsStop
<1> QED BY <1>1, <1>3, <1>4 DEF SessionInv

LEMMA ReadErrorKeeps ==
  ASSUME SessionInv, NEW p \in Stream, ReadError(p)
  PROVE  SessionInv'
<1> DEFINE m == [boot |-> boot, error |-> cmdError]
<1>1. Typed /\ UNCHANGED <<vars, client, wire, view, archive>>
  BY DEF SessionInv, ReadError
<1>2. UNCHANGED <<boot, receipts>> /\ boot \in Boot /\ boot <= boot /\ m.boot = boot
  BY <1>1, BootLemma DEF vars, trackerVars, SessionInv, HonestInv, TruthInv, RuntimeInv,
                         TrackerInv, TrackerTypeOK
<1>3. draft' = [draft EXCEPT ![p] = <<m>>]
  BY DEF ReadError
<1> HIDE DEF m
<1>4. /\ draft'[p] = <<m>> /\ \A q \in Stream \ {p} : draft'[q] = draft[q]
      /\ draft' = [q \in Stream |-> draft'[q]]
  BY <1>1, <1>3 DEF Typed
<1>5. IsDraft(draft'[p]) /\ draft'[p] # <<draft'[p][1], draft'[p][2]>>
  BY <1>2, <1>4 DEF IsDraft, KnownBoot
<1>6. Typed'
  <2>1. \A q \in Stream : IsDraft(draft'[q])
    BY <1>1, <1>4, <1>5 DEF Typed
  <2> QED BY <1>1, <1>2, <1>4, <2>1 DEF Typed, IsDraft, KnownBoot, IsHistory
<1>7. \A k, r : Reported(k, r)' => Reported(k, r)
  BY <1>1, <1>2, <1>4, <1>5 DEF Reported, SameBoot
<1> QED BY <1>1, <1>6, <1>7, MessageKeeps

LEMMA PairLemma ==
  ASSUME NEW x, NEW y
  PROVE  Append(<<x>>, y) = <<x, y>>
<1> DEFINE S == {x, y}
           a == Append(<<x>>, y)
           b == <<x, y>>
<1>1. <<x>> \in Seq(S) /\ y \in S /\ Len(<<x>>) = 1 /\ <<x>>[1] = x
  OBVIOUS
<1>2. a \in Seq(S) /\ Len(a) = 2 /\ a[1] = x /\ a[2] = y
  BY <1>1, AppendProperties
<1>3. b \in Seq(S) /\ Len(b) = 2 /\ b[1] = x /\ b[2] = y
  OBVIOUS
<1>4. a = b
  <2> HIDE DEF a, b, S
  <2>1. Len(a) = Len(b) /\ \A i \in 1 .. Len(a) : a[i] = b[i]
    BY <1>2, <1>3
  <2> QED BY <1>2, <1>3, <2>1, SeqEqual
<1> QED BY <1>4

LEMMA CopyKeeps ==
  ASSUME SessionInv, NEW p \in Stream, CopyReceipts(p)
  PROVE  SessionInv'
<1> DEFINE m == draft[p][1]
<1>1. Typed /\ UNCHANGED <<vars, client, wire, view, archive>>
  BY DEF SessionInv, CopyReceipts
<1>2. /\ UNCHANGED <<boot, receipts>> /\ IsHistory(receipts)
  BY <1>1 DEF vars, trackerVars, SessionInv, HonestInv, TruthInv, RuntimeInv,
              TrackerInv, TrackerTypeOK, IsHistory
<1>3. draft[p] = <<m>> /\ KnownBoot(m.boot)
  <2>1. Len(draft[p]) = 1 /\ IsDraft(draft[p])
    BY <1>1 DEF Typed, CopyReceipts
  <2> QED BY <2>1 DEF IsDraft
<1>4. draft'[p] = <<m, receipts>>
  <2>1. draft'[p] = Append(draft[p], receipts)
    BY <1>1 DEF CopyReceipts, Typed
  <2> HIDE DEF m
  <2> QED BY <1>3, <2>1, PairLemma
<1> HIDE DEF m
<1>5. /\ \A q \in Stream \ {p} : draft'[q] = draft[q]
      /\ draft' = [q \in Stream |-> draft'[q]]
  BY <1>1 DEF Typed, CopyReceipts
<1>6. Typed'
  <2>1. \A q \in Stream : IsDraft(draft'[q])
    BY <1>1, <1>2, <1>3, <1>4, <1>5 DEF Typed, IsDraft
  <2> QED BY <1>1, <1>2, <1>5, <2>1 DEF Typed, IsDraft, KnownBoot, IsHistory
<1>7. \A k, r : Reported(k, r)' => Reported(k, r)
  BY <1>1, <1>2, <1>4, <1>5 DEF Reported, SameBoot
<1> QED BY <1>1, <1>6, <1>7, MessageKeeps

LEMMA PublishKeeps ==
  ASSUME SessionInv, NEW p \in Stream, Publish(p)
  PROVE  SessionInv'
<1> DEFINE h == draft[p][1]
           m == [boot |-> h.boot, error |-> h.error, receipts |-> draft[p][2]]
<1>1. Typed /\ UNCHANGED <<vars, client, wire, archive>>
  BY DEF SessionInv, Publish
<1>2. UNCHANGED <<boot, receipts>>
  BY <1>1 DEF vars, trackerVars
<1>3. draft[p] = <<h, draft[p][2]>> /\ KnownBoot(h.boot) /\ IsHistory(draft[p][2])
  <2>1. Len(draft[p]) = 2 /\ IsDraft(draft[p])
    BY <1>1 DEF Typed, Publish
  <2> QED BY <2>1 DEF IsDraft
<1>4. PICK listeners \in SUBSET Session :
        view' = [s \in Session |-> IF s \in listeners THEN [view[s] EXCEPT ![p] = m]
                                   ELSE view[s]]
  BY DEF Publish
<1>5. m.boot = h.boot /\ m.receipts = draft[p][2]
  OBVIOUS
<1> HIDE DEF m, h
<1>6. /\ \A s \in Session : \A q \in Stream :
           view'[s][q] = view[s][q] \/ (q = p /\ view'[s][q] = m)
      /\ view' = [s \in Session |-> [q \in Stream |-> view'[s][q]]]
  BY <1>1, <1>4 DEF Typed
<1>7. /\ draft'[p] = <<>> /\ \A q \in Stream \ {p} : draft'[q] = draft[q]
      /\ draft' = [q \in Stream |-> draft'[q]]
  BY <1>1 DEF Publish, Typed
<1>8. Typed'
  <2>1. \A q \in Stream : IsDraft(draft'[q])
    BY <1>1, <1>7 DEF Typed, IsDraft
  <2>2. \A s \in Session, q \in Stream : view'[s][q] # None =>
          KnownBoot(view'[s][q].boot) /\ IsHistory(view'[s][q].receipts)
    BY <1>1, <1>3, <1>5, <1>6 DEF Typed
  <2> QED BY <1>1, <1>2, <1>6, <1>7, <2>1, <2>2 DEF Typed, IsDraft, KnownBoot, IsHistory
<1>9. \A k, r : Reported(k, r)' => Reported(k, r)
  <2> SUFFICES ASSUME NEW k, NEW r, Reported(k, r)' PROVE Reported(k, r)
    OBVIOUS
  <2>1. ASSUME NEW s \in Session, NEW q \in Stream, view'[s][q] # None,
               view'[s][q].boot = boot, k \in DOMAIN view'[s][q].receipts,
               r = view'[s][q].receipts[k]
        PROVE  Reported(k, r)
    <3>1. CASE view'[s][q] = view[s][q]
      BY <2>1, <3>1 DEF Reported
    <3>2. CASE view'[s][q] = m
      BY <1>3, <1>5, <2>1, <3>2 DEF Reported, h
    <3> QED BY <1>6, <2>1, <3>1, <3>2
  <2>2. ASSUME NEW q \in Stream, draft'[q] = <<draft'[q][1], draft'[q][2]>>,
               draft'[q][1].boot = boot, k \in DOMAIN draft'[q][2], r = draft'[q][2][k]
        PROVE  Reported(k, r)
    <3>1. q # p
      BY <1>7, <2>2
    <3> QED BY <1>7, <2>2, <3>1 DEF Reported
  <2> QED BY <1>1, <1>2, <2>1, <2>2 DEF Reported, SameBoot
<1> QED BY <1>1, <1>8, <1>9, MessageKeeps

-----------------------------------------------------------------------------
(* A restart *)

\* The new boot starts from nothing, and nothing has been reported of it.
LEMMA RestartKeeps ==
  ASSUME SessionInv, Restart
  PROVE  SessionInv'
<1>1. /\ Typed /\ TypeOK /\ boot' = boot + 1
      /\ boot \in Boot /\ boot' \in Boot /\ boot \in Nat
      /\ ledger \subseteq Entry
      /\ UNCHANGED <<base, client, wire, view>>
  BY BootLemma DEF SessionInv, HonestInv, TruthInv, RuntimeInv, TrackerInv, TrackerTypeOK,
                   Restart
<1>2. /\ receipts' = [k \in {} |-> None] /\ DOMAIN receipts' = {} /\ ledger' = {}
      /\ arrivals' = 0 /\ session' = None /\ retired' = {} /\ highWater' = -1
      /\ active' = None /\ overdue' = FALSE
  BY DEF Restart
<1>3. /\ pc' = "poll" /\ inflight' = None /\ verdict' = None
      /\ current' = [kind \in Kind |-> None] /\ fault' = [kind \in Kind |-> FALSE]
      /\ monitored' = FALSE /\ cmdError' = None
  BY DEF Restart
<1>4. HonestInv'
  <2>1. TrackerInv'
    <3>1. IsFiniteSet({}) /\ Cardinality({}) = 0
      BY FS_EmptySet
    <3>2. TrackerTypeOK'
      BY <1>1, <1>2 DEF TrackerTypeOK
    <3>3. SlotReceiptRetained' /\ IsFiniteSet(DOMAIN receipts)'
      BY <1>2, <3>1, TrackerAssumption DEF SlotReceiptRetained
    <3> QED BY <1>2, <3>2, <3>3 DEF TrackerInv, StampsBehind, SlotOwned, LedgerBehind,
                                    ConsumedOnce
  <2>2. TypeOK'
    BY <1>1, <1>3, <2>1 DEF TypeOK, TrackerInv
  <2>3. RuntimeInv'
    BY <1>2, <1>3, <2>1, <2>2 DEF RuntimeInv, LoopInv, FlightInv, OneGoal, Kind
  <2> QED BY <1>2, <2>3 DEF HonestInv, TruthInv, BookInv, AnswersSettled, HistoryConsumed,
                            SlotIsMotion, StopIsFinal, SlotFailed, HistoryDispatched,
                            HistoryReleased
<1>5. Typed'
  <2>1. ASSUME NEW p \in Stream PROVE IsDraft(draft[p])'
    <3>1. draft'[p] \in {draft[p], <<>>}
      BY DEF Restart
    <3>2. \A b : KnownBoot(b) => KnownBoot(b)'
      BY <1>1, BootLemma DEF KnownBoot
    <3> QED BY <1>1, <3>1, <3>2 DEF Typed, IsDraft, IsHistory
  <2>2. draft' = [p \in Stream |-> draft'[p]]
    BY DEF Restart
  <2>3. archive' \subseteq Key
    BY <1>1 DEF Restart, Typed, Entry
  <2>4. \A s \in Session, p \in Stream : view'[s][p] # None =>
          KnownBoot(view[s][p].boot)' /\ IsHistory(view'[s][p].receipts)
    BY <1>1, BootLemma DEF Typed, KnownBoot
  <2> QED BY <1>1, <2>1, <2>2, <2>3, <2>4 DEF Typed, IsHistory
<1>6. \A s \in Session : client[s].boot # None => client[s].boot \in Nat /\ client[s].boot <= boot
  BY <1>1, BootLemma DEF SessionInv, ClientInv, Typed, ClientState
<1>7. \A s \in Session : ClientInv(s)'
  BY <1>1, <1>6 DEF SessionInv, ClientInv, Unborn, BuiltBy
<1>8. \A s \in Session : ~SameBoot(s)'
  BY <1>1, <1>6, BootLemma DEF SameBoot
<1>9. LedgerInv'
  <2>1. ASSUME NEW k \in archive'
        PROVE  client[Owner(k)].boot # None /\ client[Owner(k)].boot < boot'
    <3>1. CASE k \in archive
      <4>1. Owner(k) \in Session /\ client[Owner(k)].boot # None /\ client[Owner(k)].boot < boot
        BY <3>1, KeyLemma DEF SessionInv, Typed, LedgerInv
      <4> QED BY <1>1, <1>6, <4>1
    <3>2. CASE \E l \in ledger : k = l.key
      <4>1. client[Owner(k)].boot = boot
        BY <3>2 DEF SessionInv, LedgerInv
      <4> QED BY <1>1, <4>1, BootLemma
    <3> QED BY <3>1, <3>2 DEF Restart
  <2> QED BY <1>1, <1>2, <2>1 DEF LedgerInv, Owner
<1>10. ReportsInv'
  <2>1. ASSUME NEW p \in Stream, draft'[p] = <<draft'[p][1], draft'[p][2]>>
        PROVE  draft'[p][1].boot # boot'
    <3>1. draft'[p] = draft[p] /\ draft[p] # <<>>
      BY <2>1 DEF Restart
    <3>2. KnownBoot(draft[p][1].boot)
      BY <1>1, <3>1 DEF Typed, IsDraft
    <3> QED BY <1>1, <3>1, <3>2, BootLemma DEF KnownBoot
  <2>2. ASSUME NEW s \in Session, NEW p \in Stream, view'[s][p] # None
        PROVE  view'[s][p].boot # boot'
    BY <1>1, <2>2, BootLemma DEF Typed, KnownBoot
  <2>3. \A k, r : ~Reported(k, r)'
    BY <1>2, <1>8, <2>1, <2>2 DEF Reported
  <2> QED BY <2>3 DEF ReportsInv
<1>11. CallsInv'
  BY <1>8 DEF CallsInv
<1> QED BY <1>4, <1>5, <1>7, <1>9, <1>10, <1>11 DEF SessionInv

-----------------------------------------------------------------------------
(* The specification *)

LEMMA SessionInitInv == SessionInit => SessionInv
<1> SUFFICES ASSUME SessionInit PROVE SessionInv
  OBVIOUS
<1>1. HonestInv /\ boot \in Boot /\ ledger = {} /\ DOMAIN receipts = {}
  BY HonestInitInv, TrackerAssumption DEF SessionInit, Init, TrackerInit
<1>2. ASSUME NEW s \in Session
      PROVE  /\ client[s] \in ClientState
             /\ client[s].at = "idle" /\ client[s].action = None /\ client[s].boot = None
             /\ client[s].receipt = None /\ client[s].answered = {} /\ client[s].over = {}
             /\ ~client[s].release /\ wire[s] = None
             /\ \A p \in Stream : view[s][p] = None
  BY DEF SessionInit, ClientState, Place, Purpose
<1>3. client = [s \in Session |-> client[s]]
  BY DEF SessionInit
<1>4. client \in [Session -> ClientState]
  BY <1>2, <1>3
<1>5. Typed
  BY <1>4 DEF SessionInit, Typed, IsDraft
<1>6. \A s \in Session : ClientInv(s)
  BY <1>2 DEF ClientInv, Unborn
<1>7. LedgerInv
  BY <1>1 DEF SessionInit, LedgerInv
<1>8. \A p \in Stream : draft[p] = <<>>
  BY DEF SessionInit
<1>9. \A k, r : ~Reported(k, r)
  BY <1>1, <1>2, <1>8 DEF Reported
<1>10. CallsInv
  BY <1>2 DEF CallsInv
<1> QED BY <1>1, <1>5, <1>6, <1>7, <1>9, <1>10 DEF SessionInv, ReportsInv

LEMMA SessionNextInv == SessionInv /\ [SessionNext]_sessionVars => SessionInv'
BY ClientKeeps, DeliverKeeps, QuietKeeps, ReadErrorKeeps, CopyKeeps, PublishKeeps,
   RestartKeeps DEF SessionNext

LEMMA SessionAlways == SessionSpec => []SessionInv
BY SessionInitInv, SessionNextInv, PTL DEF SessionSpec

-----------------------------------------------------------------------------
(* Theorems *)

\* Every variable of the clients and their sockets stays in its type.
THEOREM SessionTypes == SessionSpec => []SessionTypeOK
<1>1. SessionInv => SessionTypeOK
  <2> SUFFICES ASSUME SessionInv PROVE SessionTypeOK
    OBVIOUS
  <2>1. TypeOK /\ Typed
    BY DEF SessionInv, HonestInv, TruthInv, RuntimeInv
  <2>2. ASSUME NEW p \in Stream PROVE Len(draft[p]) <= 2
    <3>1. \A x, y : Len(<<>>) = 0 /\ Len(<<x>>) = 1 /\ Len(<<x, y>>) = 2
      OBVIOUS
    <3>2. \/ draft[p] = <<>>
          \/ \E x : draft[p] = <<x>>
          \/ \E x, y : draft[p] = <<x, y>>
      BY <2>1 DEF Typed, IsDraft
    <3>3. ASSUME NEW x, draft[p] = <<x>> PROVE Len(draft[p]) = 1
      BY <3>3
    <3>4. ASSUME NEW x, NEW y, draft[p] = <<x, y>> PROVE Len(draft[p]) = 2
      BY <3>4
    <3>5. draft[p] = <<>> => Len(draft[p]) = 0
      BY <3>1
    <3>6. Len(draft[p]) \in {0, 1, 2}
      BY <3>2, <3>3, <3>4, <3>5
    <3>7. \A n \in {0, 1, 2} : n <= 2
      OBVIOUS
    <3> QED BY <3>6, <3>7, Zenon
  <2>3. \A s \in Session : client[s] \in ClientState
    BY <2>1 DEF Typed
  <2> QED BY <2>1, <2>2, <2>3 DEF SessionTypeOK, Typed, ClientState
<1> QED BY <1>1, SessionAlways, PTL

\* No envelope, however late it arrives, is dispatched by two boots: a client
\* that has used an identity with one boot sends nothing to another.
THEOREM EnvelopeDispatchedOnce == SessionSpec => []NoReplay
<1>1. SessionInv => NoReplay
  <2> SUFFICES ASSUME SessionInv, NEW l \in ledger, l.key \in archive PROVE FALSE
    BY DEF NoReplay
  <2>1. client[Owner(l.key)].boot = boot /\ client[Owner(l.key)].boot < boot
    BY DEF SessionInv, LedgerInv
  <2>2. boot \in Nat
    BY BootLemma DEF SessionInv, HonestInv, TruthInv, RuntimeInv, TrackerInv, TrackerTypeOK
  <2> QED BY <2>1, <2>2
<1> QED BY <1>1, SessionAlways, PTL

\* A command that send_command reports as taken was dispatched by this boot.
THEOREM AcknowledgedIsDispatched == SessionSpec => []AnsweredIsDispatched
<1>1. SessionInv => AnsweredIsDispatched
  BY DEF SessionInv, CallsInv, Dispatched, AnsweredIsDispatched
<1> QED BY <1>1, SessionAlways, PTL

\* A goal that cancel_navigation or wait_navigation reports as stopped or
\* reached does not hold the motion slot, and never will again.
THEOREM ReportedGoalIsOver == SessionSpec => []OverIsOver
<1>1. SessionInv => OverIsOver
  BY DEF SessionInv, CallsInv, Settled, OverIsOver
<1> QED BY <1>1, SessionAlways, PTL

\* A client that has closed with its release acknowledged commands nothing any
\* more, even while the server is still releasing (close_command_session).
THEOREM ClosedIsRetired == SessionSpec => []ReleasedIsRetired
<1>1. SessionInv => ReleasedIsRetired
  <2> SUFFICES ASSUME SessionInv, NEW s \in Session, SameBoot(s), client[s].release
               PROVE  /\ s \in retired \/ (inflight # None /\ Owner(inflight) = s)
                      /\ active # None => Owner(active) # s
    BY DEF ReleasedIsRetired
  <2>1. PICK k \in Key : Owner(k) = s /\ Released(k)
    BY DEF SessionInv, CallsInv
  <2>2. session \notin retired /\ SlotOwned
    BY DEF SessionInv, HonestInv, TruthInv, RuntimeInv, TrackerInv
  <2>3. k # None
    BY TrackerAssumption
  <2> QED BY <2>1, <2>2, <2>3 DEF Released, SlotOwned
<1> QED BY <1>1, SessionAlways, PTL

\* A client never goes back to an older receipt of the command that it looked
\* up last, whatever its streams still show (command_receipt).
THEOREM ReceiptsAdvance == SessionSpec => ReceiptNeverRegresses
<1> DEFINE Step == \A s \in Session :
                     LET old == client[s].receipt
                         new == client'[s].receipt
                     IN old # None /\ new.key = old.key
                          => Revision(old.receipt) <= Revision(new.receipt)
<1>1. SessionInv /\ [SessionNext]_sessionVars => [Step]_sessionVars
  <2> SUFFICES ASSUME SessionInv, SessionNext PROVE Step
    OBVIOUS
  <2>1. CASE \E s \in Session : ClientStep(s) /\ UNCHANGED <<vars, draft, view, archive>>
    BY <2>1, ClientKeeps DEF Advances
  <2>2. CASE UNCHANGED client
    BY <2>2, RevisionType
  <2>3. \/ \E s \in Session : ClientStep(s) /\ UNCHANGED <<vars, draft, view, archive>>
        \/ UNCHANGED client
    BY DEF SessionNext, Deliver, Lose, ReadError, CopyReceipts, Publish, Restart, clientVars
  <2> QED BY <2>1, <2>2, <2>3
<1> HIDE DEF Step
<1>2. SessionSpec => [][Step]_sessionVars
  BY <1>1, SessionAlways, PTL DEF SessionSpec
<1> QED BY <1>2 DEF Step, ReceiptNeverRegresses

=============================================================================
