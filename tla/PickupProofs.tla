---------------------------- MODULE PickupProofs ----------------------------
(***************************************************************************)
(* For any instances, commands and numbers of them, the pickup executor    *)
(* never stops at an operation that cannot start, and what it reports as a *)
(* success is one.  The plans are folds over the calls that build them, so *)
(* what their links are is proved first, by induction over the calls; then *)
(* what the plans have in common, which is all that the proof about the    *)
(* loop looks at: they are closed, and some operations have a gate.        *)
(***************************************************************************)
EXTENDS PickupTasks, TLAPS, WellFoundedInduction

-----------------------------------------------------------------------------
(* Induction, and the stages of a fold *)

LEMMA NatIsWellFounded == IsWellFoundedOn({ss \in Nat \X Nat : ss[1] < ss[2]}, Nat)
BY NatLessThanWellFounded DEF OpToRel

\* A set that holds 0 and is closed under successor holds every natural number.
LEMMA SetInduction ==
  ASSUME NEW S, 0 \in S, \A n \in Nat : n \in S => n + 1 \in S
  PROVE  \A n \in Nat : n \in S
<1> DEFINE R == {ss \in Nat \X Nat : ss[1] < ss[2]}
<1> DEFINE T == Nat \ S
<1> SUFFICES ASSUME T # {} PROVE FALSE
  OBVIOUS
<1>1. IsWellFoundedOn(R, Nat) /\ T \subseteq Nat
  BY NatIsWellFounded
<1> HIDE DEF R
<1>2. PICK x \in T : \A y \in T : ~ (<<y, x>> \in R)
  <2> HIDE DEF T
  <2> QED BY <1>1, WFMin
<1>3. x \in Nat /\ x # 0 /\ x - 1 \in Nat /\ x - 1 + 1 = x
  OBVIOUS
<1>4. x - 1 \in T
  BY <1>3
<1>5. <<x - 1, x>> \in R
  BY <1>3 DEF R
<1> QED BY <1>2, <1>4, <1>5

LEMMA MaxLemma ==
  ASSUME NEW n \in Nat, NEW s \in SUBSET (1..n), n \in s
  PROVE  Max(s) = n
<1>1. \A y \in s : n >= y
  OBVIOUS
<1>2. ASSUME NEW x \in s, \A y \in s : x >= y PROVE x = n
  BY <1>2
<1> QED BY <1>1, <1>2 DEF Max

LEMMA MaxExists ==
  ASSUME NEW n \in Nat, NEW s \in SUBSET (1..n), s # {}
  PROVE  Max(s) \in 1..n
<1> DEFINE S == {m \in Nat : \A t \in SUBSET (1..m) : t # {} => \E x \in t : \A y \in t : x >= y}
<1>1. 0 \in S
  <2>1. 1..0 = {}
    OBVIOUS
  <2> QED BY <2>1
<1>2. ASSUME NEW m \in Nat, m \in S PROVE m + 1 \in S
  <2> SUFFICES ASSUME NEW t \in SUBSET (1..(m + 1)), t # {}
               PROVE  \E x \in t : \A y \in t : x >= y
    OBVIOUS
  <2>1. CASE m + 1 \in t
    BY <2>1
  <2>2. CASE m + 1 \notin t
    <3>1. t \in SUBSET (1..m)
      BY <2>2
    <3> QED BY <1>2, <3>1
  <2> QED BY <2>1, <2>2
<1> HIDE DEF S
<1>3. n \in S
  BY <1>1, <1>2, SetInduction
<1>4. \E x \in s : \A y \in s : x >= y
  BY <1>3 DEF S
<1>5. Max(s) \in s
  BY <1>4 DEF Max
<1> QED BY <1>5

\* A fold over the sets of positions up to n, as the library defines it: f gives
\* what the elements at the positions in a set make of the base.
IsFold(f, base, G, n) ==
  f = [s \in SUBSET (1..n) |-> IF s = {} THEN base ELSE G[Max(s)][f[s \ {Max(s)}]]]

LEMMA FoldExists ==
  ASSUME NEW X, NEW base \in X, NEW G \in [Nat -> [X -> X]]
  PROVE  \A n \in Nat : \E f \in [SUBSET (1..n) -> X] : IsFold(f, base, G, n)
<1> DEFINE S == {n \in Nat : \E f \in [SUBSET (1..n) -> X] : IsFold(f, base, G, n)}
<1>1. 0 \in S
  <2> DEFINE f == [s \in SUBSET (1..0) |-> base]
  <2>1. \A s \in SUBSET (1..0) : s = {}
    OBVIOUS
  <2>2. f = [s \in SUBSET (1..0) |-> IF s = {} THEN base ELSE G[Max(s)][f[s \ {Max(s)}]]]
    BY <2>1
  <2> QED BY <2>2 DEF IsFold
<1>2. ASSUME NEW n \in Nat, n \in S PROVE n + 1 \in S
  <2>1. PICK f \in [SUBSET (1..n) -> X] : IsFold(f, base, G, n)
    BY <1>2
  <2> DEFINE g == [s \in SUBSET (1..(n + 1)) |->
                     IF n + 1 \in s THEN G[n + 1][f[s \ {n + 1}]] ELSE f[s]]
  <2>2. \A s \in SUBSET (1..(n + 1)) : s \ {n + 1} \in SUBSET (1..n)
    OBVIOUS
  <2>3. \A s \in SUBSET (1..(n + 1)) : n + 1 \notin s => s \in SUBSET (1..n)
    OBVIOUS
  <2>4. g \in [SUBSET (1..(n + 1)) -> X]
    <3>1. ASSUME NEW s \in SUBSET (1..(n + 1)) PROVE g[s] \in X
      <4>1. CASE n + 1 \in s
        <5>1. f[s \ {n + 1}] \in X /\ G[n + 1] \in [X -> X]
          BY <2>2
        <5> QED BY <4>1, <5>1
      <4>2. CASE n + 1 \notin s
        BY <2>3, <4>2
      <4> QED BY <4>1, <4>2
    <3> QED BY <3>1
  <2>5. ASSUME NEW s \in SUBSET (1..(n + 1))
        PROVE  g[s] = IF s = {} THEN base ELSE G[Max(s)][g[s \ {Max(s)}]]
    <3>1. CASE n + 1 \in s
      <4>1. Max(s) = n + 1
        BY <3>1, MaxLemma
      <4>2. s \ {n + 1} \in SUBSET (1..(n + 1)) /\ n + 1 \notin s \ {n + 1}
        OBVIOUS
      <4>3. g[s \ {n + 1}] = f[s \ {n + 1}]
        BY <4>2
      <4>4. g[s] = G[n + 1][f[s \ {n + 1}]]
        BY <3>1
      <4> HIDE DEF g
      <4> QED BY <3>1, <4>1, <4>3, <4>4
    <3>2. CASE n + 1 \notin s
      <4>1. s \in SUBSET (1..n) /\ g[s] = f[s]
        BY <2>3, <3>2
      <4>2. f[s] = IF s = {} THEN base ELSE G[Max(s)][f[s \ {Max(s)}]]
        BY <2>1, <4>1 DEF IsFold
      <4>3. s \ {Max(s)} \in SUBSET (1..(n + 1)) /\ n + 1 \notin s \ {Max(s)}
        BY <3>2
      <4>4. g[s \ {Max(s)}] = f[s \ {Max(s)}]
        BY <4>3
      <4> HIDE DEF g
      <4> QED BY <4>1, <4>2, <4>4
    <3> QED BY <3>1, <3>2
  <2>6. g = [s \in SUBSET (1..(n + 1)) |-> IF s = {} THEN base ELSE G[Max(s)][g[s \ {Max(s)}]]]
    <3> DEFINE h == [s \in SUBSET (1..(n + 1)) |->
                       IF s = {} THEN base ELSE G[Max(s)][g[s \ {Max(s)}]]]
    <3>1. \A s \in SUBSET (1..(n + 1)) : g[s] = h[s]
      <4> HIDE DEF g
      <4> QED BY <2>5
    <3>2. g = [s \in SUBSET (1..(n + 1)) |-> g[s]] /\ h = [s \in SUBSET (1..(n + 1)) |-> h[s]]
      OBVIOUS
    <3> HIDE DEF g, h
    <3>3. g = h
      BY <3>1, <3>2
    <3> QED BY <3>3 DEF h
  <2> HIDE DEF g
  <2>7. IsFold(g, base, G, n + 1)
    BY <2>6 DEF IsFold
  <2> QED BY <2>4, <2>7
<1> HIDE DEF S
<1>3. \A n \in Nat : n \in S
  BY <1>1, <1>2, SetInduction
<1> QED BY <1>3 DEF S

\* The same, of an f that is not known to give members of X.
Folds(f, base, G, n, X) ==
  \A s \in SUBSET (1..n) :
    /\ s = {} => f[s] = base
    /\ s # {} /\ f[s \ {Max(s)}] \in X => f[s] = G[Max(s)][f[s \ {Max(s)}]]

\* The stages of a fold up to its outcome, one for each element.
HasStages(outcome, base, G, n, X) ==
  \E stage \in [0..n -> X] :
    /\ stage[0] = base
    /\ \A i \in 1..n : stage[i] = G[i][stage[i - 1]]
    /\ stage[n] = outcome

\* What a fold makes of the first i elements, element i makes of what it makes of
\* those before.
LEMMA FoldStages ==
  ASSUME NEW X, NEW base \in X, NEW G \in [Nat -> [X -> X]], NEW n \in Nat,
         NEW f, Folds(f, base, G, n, X)
  PROVE  HasStages(f[1..n], base, G, n, X)
<1> DEFINE F == [k \in 0..n |-> f[1..k]]
<1>1. F[0] = base
  <2>1. 1..0 = {} /\ 1..0 \in SUBSET (1..n) /\ 0 \in 0..n
    OBVIOUS
  <2>2. f[1..0] = base
    BY <2>1 DEF Folds
  <2> QED BY <2>1, <2>2
<1>2. ASSUME NEW i \in 1..n, F[i - 1] \in X PROVE F[i] = G[i][F[i - 1]]
  <2>1. i \in Nat /\ i \in 1..i /\ i \in 0..n /\ i - 1 \in 0..n
    OBVIOUS
  <2>2. 1..i \in SUBSET (1..n) /\ 1..i \in SUBSET (1..i) /\ 1..i # {}
    <3>1. \A k \in 1..i : k \in 1..n
      OBVIOUS
    <3> QED BY <2>1, <3>1
  <2>3. Max(1..i) = i
    BY <2>1, <2>2, MaxLemma
  <2>4. (1..i) \ {i} = 1..(i - 1)
    OBVIOUS
  <2>5. f[1..(i - 1)] \in X
    BY <1>2, <2>1
  <2>6. f[1..i] = G[i][f[1..(i - 1)]]
    BY <2>2, <2>3, <2>4, <2>5 DEF Folds
  <2> QED BY <2>1, <2>6
<1> DEFINE S == {j \in Nat : j <= n => F[j] \in X}
<1>3. 0 \in S
  BY <1>1
<1>4. ASSUME NEW k \in Nat, k \in S PROVE k + 1 \in S
  <2> SUFFICES ASSUME k + 1 <= n PROVE F[k + 1] \in X
    OBVIOUS
  <2>1. k + 1 \in 1..n /\ k + 1 - 1 = k /\ k <= n
    <3> HIDE DEF S
    <3> QED OBVIOUS
  <2>2. F[k] \in X
    BY <1>4, <2>1
  <2> HIDE DEF F, S
  <2>3. F[k + 1] = G[k + 1][F[k + 1 - 1]]
    BY <1>2, <2>1, <2>2
  <2> QED BY <2>1, <2>2, <2>3
<1>5. \A k \in 0..n : F[k] \in X
  <2> HIDE DEF S
  <2>1. \A k \in Nat : k \in S
    BY <1>3, <1>4, SetInduction
  <2>2. \A k \in 0..n : k \in Nat /\ k <= n
    OBVIOUS
  <2> HIDE DEF F
  <2> QED BY <2>1, <2>2 DEF S
<1>6. F \in [0..n -> X]
  BY <1>5
<1>7. \A i \in 1..n : F[i] = G[i][F[i - 1]]
  <2>1. \A i \in 1..n : i - 1 \in 0..n
    OBVIOUS
  <2> HIDE DEF F
  <2> QED BY <1>2, <1>5, <2>1
<1>8. f[1..n] = F[n]
  OBVIOUS
<1> HIDE DEF F
<1> QED BY <1>1, <1>6, <1>7, <1>8 DEF HasStages

-----------------------------------------------------------------------------
(* The calls that build plans *)

Maybe == Op \cup {None}
Call  == Op \X Maybe \X Maybe \X Maybe

LEMMA EmptyLemma == EmptyPlan \in Plan
BY DEF EmptyPlan, Plan, Unlinked, Link

LEMMA LinkLemma ==
  ASSUME NEW links \in Link, NEW from \in Op, NEW to \in Op
  PROVE  /\ LinkIfNone(links, from, to) \in Link
         /\ \A o \in Op : LinkIfNone(links, from, to)[o] =
                            IF o = from /\ links[o] = None THEN to ELSE links[o]
BY DEF LinkIfNone, Link

\* What the call of a constructor makes of plan p.
AfterConstruct(p, c, q) ==
  /\ q \in Plan
  /\ q.added = p.added /\ q.initial = p.initial
  /\ q.parent = [p.parent EXCEPT ![c[1]] = c[2]]
  /\ q.onFailure = [p.onFailure EXCEPT ![c[1]] = c[3]]
  /\ q.onCannotStart = [p.onCannotStart EXCEPT ![c[1]] = c[4]]
  /\ \A o \in Op : q.onSuccess[o] =
       IF o = c[2] /\ p.onSuccess[o] = None THEN c[1] ELSE p.onSuccess[o]

LEMMA ConstructLemma ==
  ASSUME NEW p \in Plan, NEW c \in Call
  PROVE  AfterConstruct(p, c, Construct(p, c[1], c[2], c[3], c[4]))
<1> DEFINE q == Construct(p, c[1], c[2], c[3], c[4])
<1> SUFFICES AfterConstruct(p, c, q)
  OBVIOUS
<1>1. c[1] \in Op /\ c[2] \in Maybe /\ c[3] \in Maybe /\ c[4] \in Maybe
  BY DEF Call
<1>2. /\ p.parent \in Link /\ p.onSuccess \in Link /\ p.onFailure \in Link
      /\ p.onCannotStart \in Link
  BY DEF Plan
<1>3. CASE c[2] = None
  BY <1>1, <1>2, <1>3, TaskAssumption
     DEF Construct, AfterConstruct, Plan, Link, Maybe
<1>4. CASE c[2] # None
  <2>1. /\ LinkIfNone(p.onSuccess, c[2], c[1]) \in Link
        /\ \A o \in Op : LinkIfNone(p.onSuccess, c[2], c[1])[o] =
             IF o = c[2] /\ p.onSuccess[o] = None THEN c[1] ELSE p.onSuccess[o]
    BY <1>1, <1>2, <1>4, LinkLemma DEF Maybe
  <2> QED BY <1>1, <1>2, <1>4, <2>1 DEF Construct, AfterConstruct, Plan, Link, Maybe
<1> QED BY <1>3, <1>4

AfterAdd(p, op, q) ==
  /\ q \in Plan
  /\ q.added = Append(p.added, op)
  /\ q.initial = IF p.initial = None /\ p.parent[op] = None THEN op ELSE p.initial
  /\ q.parent = p.parent
  /\ q.onFailure = p.onFailure
  /\ q.onCannotStart = p.onCannotStart
  /\ \A o \in Op : q.onSuccess[o] =
       IF p.added # <<>> /\ o = p.added[Len(p.added)] /\ p.onSuccess[o] = None
       THEN op ELSE p.onSuccess[o]

LEMMA AddLemma ==
  ASSUME NEW p \in Plan, NEW op \in Op
  PROVE  AfterAdd(p, op, AddOperation(p, op, FALSE))
<1>1. /\ p.added \in Seq(Op) /\ p.onSuccess \in Link
      /\ p.added # <<>> => p.added[Len(p.added)] \in Op
  BY DEF Plan
<1>2. Append(p.added, op) \in Seq(Op)
  BY <1>1
<1>3. CASE p.added = <<>>
  BY <1>1, <1>2, <1>3 DEF AddOperation, AfterAdd, Plan
<1>4. CASE p.added # <<>>
  <2>1. /\ LinkIfNone(p.onSuccess, p.added[Len(p.added)], op) \in Link
        /\ \A o \in Op : LinkIfNone(p.onSuccess, p.added[Len(p.added)], op)[o] =
             IF o = p.added[Len(p.added)] /\ p.onSuccess[o] = None THEN op ELSE p.onSuccess[o]
    BY <1>1, <1>4, LinkLemma
  <2> QED BY <1>1, <1>2, <1>4, <2>1 DEF AddOperation, AfterAdd, Plan
<1> QED BY <1>3, <1>4

LEMMA ConnectLemma ==
  ASSUME NEW p \in Plan, NEW op \in Op, NEW next \in Op
  PROVE  /\ ConnectOnSuccess(p, op, next) = [p EXCEPT !.onSuccess[op] = next]
         /\ ConnectOnSuccess(p, op, next) \in Plan
         /\ ConnectOnFailure(p, op, next) \in Plan
         /\ ConnectOnCannotStart(p, op, next) \in Plan
         /\ TerminateOnSuccess(p, op) \in Plan
<1>1. p.onSuccess \in Link /\ p.onFailure \in Link /\ p.onCannotStart \in Link
  BY DEF Plan
<1>2. /\ [p.onSuccess EXCEPT ![op] = next] \in Link
      /\ [p.onFailure EXCEPT ![op] = next] \in Link
      /\ [p.onCannotStart EXCEPT ![op] = next] \in Link
      /\ [p.onSuccess EXCEPT ![op] = None] \in Link
  BY <1>1 DEF Link
<1> QED BY <1>1, <1>2 DEF ConnectOnSuccess, ConnectOnFailure, ConnectOnCannotStart,
                          TerminateOnSuccess, Plan

-----------------------------------------------------------------------------
(* The folds over the calls *)

LEMMA ConstructedStages ==
  ASSUME NEW calls \in Seq(Call)
  PROVE  \E stage \in [0..Len(calls) -> Plan] :
           /\ stage[0] = EmptyPlan
           /\ \A i \in 1..Len(calls) :
                stage[i] = Construct(stage[i - 1], calls[i][1], calls[i][2], calls[i][3], calls[i][4])
           /\ Constructed(calls) = stage[Len(calls)]
<1> DEFINE n == Len(calls)
           After(p, i) == Construct(p, calls[i][1], calls[i][2], calls[i][3], calls[i][4])
           G == [i \in Nat |-> [p \in Plan |-> IF i \in 1..n THEN After(p, i) ELSE p]]
           e == CHOOSE iter : iter = [s \in SUBSET DOMAIN calls |->
                  IF s = {} THEN EmptyPlan
                  ELSE Construct(iter[s \ {Max(s)}], calls[Max(s)][1], calls[Max(s)][2],
                                 calls[Max(s)][3], calls[Max(s)][4])]
<1>1. n \in Nat /\ DOMAIN calls = 1..n /\ \A i \in 1..n : calls[i] \in Call
  OBVIOUS
<1>2. Constructed(calls) = e[DOMAIN calls]
  BY DEF Constructed, FoldLeft, MapThenFoldSet
<1>3. \A p \in Plan : \A i \in 1..n : After(p, i) \in Plan
  BY <1>1, ConstructLemma DEF AfterConstruct
<1>4. G \in [Nat -> [Plan -> Plan]] /\ \A i \in 1..n : \A p \in Plan : G[i][p] = After(p, i)
  <2> HIDE DEF n, After
  <2> QED BY <1>1, <1>3
<1> HIDE DEF G, n
<1>5. PICK h \in [SUBSET (1..n) -> Plan] : IsFold(h, EmptyPlan, G, n)
  BY <1>1, <1>4, EmptyLemma, FoldExists
<1>6. h = [s \in SUBSET DOMAIN calls |->
             IF s = {} THEN EmptyPlan ELSE After(h[s \ {Max(s)}], Max(s))]
  <2>1. h = [s \in SUBSET (1..n) |-> IF s = {} THEN EmptyPlan ELSE G[Max(s)][h[s \ {Max(s)}]]]
    BY <1>5 DEF IsFold
  <2>2. ASSUME NEW s \in SUBSET (1..n), s # {}
        PROVE  G[Max(s)][h[s \ {Max(s)}]] = After(h[s \ {Max(s)}], Max(s))
    <3>1. h[s \ {Max(s)}] \in Plan
      BY <1>5
    <3>2. Max(s) \in 1..n
      BY <1>1, <2>2, MaxExists
    <3> QED BY <1>4, <3>1, <3>2
  <2> HIDE DEF After
  <2> QED BY <1>1, <2>1, <2>2
<1>7. e = [s \in SUBSET DOMAIN calls |->
             IF s = {} THEN EmptyPlan ELSE After(e[s \ {Max(s)}], Max(s))]
  BY <1>6
<1> HIDE DEF e
<1>8. Folds(e, EmptyPlan, G, n, Plan)
  <2> SUFFICES ASSUME NEW s \in SUBSET (1..n)
               PROVE  /\ s = {} => e[s] = EmptyPlan
                      /\ s # {} /\ e[s \ {Max(s)}] \in Plan => e[s] = G[Max(s)][e[s \ {Max(s)}]]
    BY DEF Folds
  <2>1. e[s] = IF s = {} THEN EmptyPlan ELSE After(e[s \ {Max(s)}], Max(s))
    <3> HIDE DEF After
    <3> QED BY <1>1, <1>7
  <2>2. s # {} => Max(s) \in 1..n
    BY <1>1, MaxExists
  <2> HIDE DEF After
  <2> QED BY <1>4, <2>1, <2>2
<1>9. PICK stage \in [0..n -> Plan] :
        /\ stage[0] = EmptyPlan
        /\ \A i \in 1..n : stage[i] = G[i][stage[i - 1]]
        /\ stage[n] = e[1..n]
  <2>1. n \in Nat /\ G \in [Nat -> [Plan -> Plan]]
    BY <1>1, <1>4
  <2>2. HasStages(e[1..n], EmptyPlan, G, n, Plan)
    BY <1>8, <2>1, EmptyLemma, FoldStages
  <2> QED BY <2>2 DEF HasStages
<1>10. ASSUME NEW i \in 1..n PROVE stage[i] = After(stage[i - 1], i)
  <2>1. i - 1 \in 0..n
    BY <1>1
  <2> HIDE DEF After
  <2> QED BY <1>4, <1>9, <2>1
<1> QED BY <1>1, <1>2, <1>9, <1>10 DEF n

LEMMA AddedStages ==
  ASSUME NEW p \in Plan, NEW ops \in Seq(Op)
  PROVE  \E stage \in [0..Len(ops) -> Plan] :
           /\ stage[0] = p
           /\ \A i \in 1..Len(ops) :
                AfterAdd(stage[i - 1], ops[i], stage[i])
           /\ AddedAll(p, ops) = stage[Len(ops)]
<1> DEFINE n == Len(ops)
           After(q, i) == AddOperation(q, ops[i], FALSE)
           G == [i \in Nat |-> [q \in Plan |-> IF i \in 1..n THEN After(q, i) ELSE q]]
           e == CHOOSE iter : iter = [s \in SUBSET DOMAIN ops |->
                  IF s = {} THEN p
                  ELSE AddOperation(iter[s \ {Max(s)}], ops[Max(s)], FALSE)]
<1>0. p \in Plan
  OBVIOUS
<1>1. n \in Nat /\ DOMAIN ops = 1..n /\ \A i \in 1..n : ops[i] \in Op
  OBVIOUS
<1>2. AddedAll(p, ops) = e[DOMAIN ops]
  BY DEF AddedAll, FoldLeft, MapThenFoldSet
<1>3. \A q \in Plan : \A i \in 1..n : After(q, i) \in Plan
  BY <1>1, AddLemma DEF AfterAdd
<1>4. G \in [Nat -> [Plan -> Plan]] /\ \A i \in 1..n : \A q \in Plan : G[i][q] = After(q, i)
  <2> HIDE DEF n, After
  <2> QED BY <1>1, <1>3
<1> HIDE DEF G, n
<1>5. PICK h \in [SUBSET (1..n) -> Plan] : IsFold(h, p, G, n)
  BY <1>1, <1>4, FoldExists
<1>6. h = [s \in SUBSET DOMAIN ops |->
             IF s = {} THEN p ELSE After(h[s \ {Max(s)}], Max(s))]
  <2>1. h = [s \in SUBSET (1..n) |-> IF s = {} THEN p ELSE G[Max(s)][h[s \ {Max(s)}]]]
    BY <1>5 DEF IsFold
  <2>2. ASSUME NEW s \in SUBSET (1..n), s # {}
        PROVE  G[Max(s)][h[s \ {Max(s)}]] = After(h[s \ {Max(s)}], Max(s))
    <3>1. h[s \ {Max(s)}] \in Plan
      BY <1>5
    <3>2. Max(s) \in 1..n
      BY <1>1, <2>2, MaxExists
    <3> QED BY <1>4, <3>1, <3>2
  <2> HIDE DEF After
  <2> QED BY <1>1, <2>1, <2>2
<1>7. e = [s \in SUBSET DOMAIN ops |->
             IF s = {} THEN p ELSE After(e[s \ {Max(s)}], Max(s))]
  BY <1>6
<1> HIDE DEF e
<1>8. Folds(e, p, G, n, Plan)
  <2> SUFFICES ASSUME NEW s \in SUBSET (1..n)
               PROVE  /\ s = {} => e[s] = p
                      /\ s # {} /\ e[s \ {Max(s)}] \in Plan => e[s] = G[Max(s)][e[s \ {Max(s)}]]
    BY DEF Folds
  <2>1. e[s] = IF s = {} THEN p ELSE After(e[s \ {Max(s)}], Max(s))
    <3> HIDE DEF After
    <3> QED BY <1>1, <1>7
  <2>2. s # {} => Max(s) \in 1..n
    BY <1>1, MaxExists
  <2> HIDE DEF After
  <2> QED BY <1>4, <2>1, <2>2
<1>9. PICK stage \in [0..n -> Plan] :
        /\ stage[0] = p
        /\ \A i \in 1..n : stage[i] = G[i][stage[i - 1]]
        /\ stage[n] = e[1..n]
  <2>1. n \in Nat /\ G \in [Nat -> [Plan -> Plan]]
    BY <1>1, <1>4
  <2>2. HasStages(e[1..n], p, G, n, Plan)
    BY <1>0, <1>8, <2>1, FoldStages
  <2> QED BY <2>2 DEF HasStages
<1>10. ASSUME NEW i \in 1..n PROVE stage[i] = After(stage[i - 1], i)
  <2>1. i - 1 \in 0..n
    BY <1>1
  <2> HIDE DEF After
  <2> QED BY <1>4, <1>9, <2>1
<1>11. ASSUME NEW i \in 1..n PROVE AfterAdd(stage[i - 1], ops[i], stage[i])
  <2>1. i - 1 \in 0..n /\ stage[i - 1] \in Plan /\ ops[i] \in Op
    BY <1>1
  <2> QED BY <1>10, <2>1, AddLemma
<1> QED BY <1>1, <1>2, <1>9, <1>11 DEF n

LEMMA ChainedStages ==
  ASSUME NEW p \in Plan, NEW ops \in Seq(Op), Len(ops) # 0
  PROVE  \E stage \in [0..(Len(ops) - 1) -> Plan] :
           /\ stage[0] = p
           /\ \A i \in 1..(Len(ops) - 1) :
                stage[i] = ConnectOnSuccess(stage[i - 1], ops[i], ops[i + 1])
           /\ Chained(p, ops) = stage[Len(ops) - 1]
<1> DEFINE n == Len(ops) - 1
           steps == [i \in 1..(Len(ops) - 1) |-> i]
           After(q, i) == ConnectOnSuccess(q, ops[i], ops[i + 1])
           G == [i \in Nat |-> [q \in Plan |-> IF i \in 1..n THEN After(q, i) ELSE q]]
           e == CHOOSE iter : iter = [s \in SUBSET DOMAIN steps |->
                  IF s = {} THEN p
                  ELSE ConnectOnSuccess(iter[s \ {Max(s)}], ops[steps[Max(s)]], ops[steps[Max(s)] + 1])]
<1>0. p \in Plan
  OBVIOUS
<1>1. /\ n \in Nat /\ DOMAIN steps = 1..n /\ Len(ops) \in Nat
      /\ \A i \in 1..n : ops[i] \in Op /\ ops[i + 1] \in Op /\ steps[i] = i
  OBVIOUS
<1>2. Chained(p, ops) = e[DOMAIN steps]
  BY DEF Chained, FoldLeft, MapThenFoldSet
<1>3. \A q \in Plan : \A i \in 1..n : After(q, i) \in Plan
  BY <1>1, ConnectLemma
<1>4. G \in [Nat -> [Plan -> Plan]] /\ \A i \in 1..n : \A q \in Plan : G[i][q] = After(q, i)
  <2> HIDE DEF n, After
  <2> QED BY <1>1, <1>3
<1> HIDE DEF G, n
<1>5. PICK h \in [SUBSET (1..n) -> Plan] : IsFold(h, p, G, n)
  BY <1>1, <1>4, FoldExists
<1>6. h = [s \in SUBSET DOMAIN steps |->
             IF s = {} THEN p ELSE After(h[s \ {Max(s)}], steps[Max(s)])]
  <2>1. h = [s \in SUBSET (1..n) |-> IF s = {} THEN p ELSE G[Max(s)][h[s \ {Max(s)}]]]
    BY <1>5 DEF IsFold
  <2>2. ASSUME NEW s \in SUBSET (1..n), s # {}
        PROVE  G[Max(s)][h[s \ {Max(s)}]] = After(h[s \ {Max(s)}], steps[Max(s)])
    <3>1. h[s \ {Max(s)}] \in Plan
      BY <1>5
    <3>2. Max(s) \in 1..n
      BY <1>1, <2>2, MaxExists
    <3> HIDE DEF After, steps
    <3> QED BY <1>1, <1>4, <3>1, <3>2
  <2> HIDE DEF After, steps
  <2> QED BY <1>1, <2>1, <2>2
<1>7. e = [s \in SUBSET DOMAIN steps |->
             IF s = {} THEN p ELSE After(e[s \ {Max(s)}], steps[Max(s)])]
  BY <1>6
<1> HIDE DEF e
<1>8. Folds(e, p, G, n, Plan)
  <2> SUFFICES ASSUME NEW s \in SUBSET (1..n)
               PROVE  /\ s = {} => e[s] = p
                      /\ s # {} /\ e[s \ {Max(s)}] \in Plan => e[s] = G[Max(s)][e[s \ {Max(s)}]]
    BY DEF Folds
  <2>1. e[s] = IF s = {} THEN p ELSE After(e[s \ {Max(s)}], steps[Max(s)])
    <3> HIDE DEF After, steps
    <3> QED BY <1>1, <1>7
  <2>2. s # {} => Max(s) \in 1..n
    BY <1>1, MaxExists
  <2>3. ASSUME s # {}, e[s \ {Max(s)}] \in Plan
        PROVE  e[s] = G[Max(s)][e[s \ {Max(s)}]]
    <3>1. Max(s) \in 1..n /\ steps[Max(s)] = Max(s)
      BY <1>1, <2>2, <2>3
    <3> HIDE DEF After, steps
    <3>2. e[s] = After(e[s \ {Max(s)}], Max(s))
      BY <2>1, <2>3, <3>1
    <3> QED BY <1>4, <2>3, <3>1, <3>2
  <2> QED BY <2>1, <2>3
<1>9. PICK stage \in [0..n -> Plan] :
        /\ stage[0] = p
        /\ \A i \in 1..n : stage[i] = G[i][stage[i - 1]]
        /\ stage[n] = e[1..n]
  <2>1. n \in Nat /\ G \in [Nat -> [Plan -> Plan]]
    BY <1>1, <1>4
  <2>2. HasStages(e[1..n], p, G, n, Plan)
    BY <1>0, <1>8, <2>1, FoldStages
  <2> QED BY <2>2 DEF HasStages
<1>10. ASSUME NEW i \in 1..n PROVE stage[i] = After(stage[i - 1], i)
  <2>1. i - 1 \in 0..n
    BY <1>1
  <2> HIDE DEF After
  <2> QED BY <1>4, <1>9, <2>1
<1> QED BY <1>1, <1>2, <1>9, <1>10 DEF n

-----------------------------------------------------------------------------
(* The links that the calls leave *)

\* What the first k constructors leave: each operation has the links it was
\* constructed with, and success leads on only from a parent to a child of it.
ConstructedUpTo(q, calls, k) ==
  /\ q \in Plan /\ q.added = <<>> /\ q.initial = None
  /\ \A i \in 1..k : /\ q.parent[calls[i][1]] = calls[i][2]
                     /\ q.onFailure[calls[i][1]] = calls[i][3]
                     /\ q.onCannotStart[calls[i][1]] = calls[i][4]
                     /\ calls[i][2] # None => q.onSuccess[calls[i][2]] # None
  /\ \A o \in Op : q.onSuccess[o] # None =>
       \E i \in 1..k : calls[i][2] = o /\ calls[i][1] = q.onSuccess[o]

LEMMA SeqLemma ==
  ASSUME NEW X, NEW n \in Nat, NEW w \in [1..n -> X]
  PROVE  w \in Seq(X) /\ Len(w) = n
OBVIOUS

LEMMA AppendLemma ==
  ASSUME NEW X, NEW w \in Seq(X), NEW x \in X
  PROVE  /\ Len(Append(w, x)) = Len(w) + 1
         /\ Append(w, x)[Len(w) + 1] = x
         /\ \A i \in 1..Len(w) : Append(w, x)[i] = w[i]
OBVIOUS

LEMMA ConstructedLinks ==
  ASSUME NEW calls \in Seq(Call),
         \A i, j \in 1..Len(calls) : calls[i][1] = calls[j][1] => i = j
  PROVE  ConstructedUpTo(Constructed(calls), calls, Len(calls))
<1> DEFINE n == Len(calls)
<1>1. n \in Nat /\ \A i \in 1..n : calls[i] \in Call
  OBVIOUS
<1>2. PICK stage \in [0..n -> Plan] :
        /\ stage[0] = EmptyPlan
        /\ \A i \in 1..n : stage[i] = Construct(stage[i - 1], calls[i][1], calls[i][2],
                                                calls[i][3], calls[i][4])
        /\ Constructed(calls) = stage[n]
  BY ConstructedStages
<1> DEFINE S == {k \in Nat : k <= n => ConstructedUpTo(stage[k], calls, k)}
<1> HIDE DEF n
<1>3. 0 \in S
  <2>1. EmptyPlan.added = <<>> /\ EmptyPlan.initial = None /\ \A o \in Op : EmptyPlan.onSuccess[o] = None
    BY DEF EmptyPlan, Unlinked
  <2>2. 1..0 = {}
    OBVIOUS
  <2> QED BY <1>2, <2>1, <2>2, EmptyLemma DEF ConstructedUpTo
<1>4. ASSUME NEW k \in Nat, k \in S PROVE k + 1 \in S
  <2> SUFFICES ASSUME k + 1 <= n PROVE ConstructedUpTo(stage[k + 1], calls, k + 1)
    OBVIOUS
  <2>1. k + 1 \in 1..n /\ k + 1 - 1 = k /\ k <= n /\ k \in 0..n
    BY <1>1
  <2> DEFINE p == stage[k]
             c == calls[k + 1]
             q == stage[k + 1]
  <2>2. ConstructedUpTo(p, calls, k)
    BY <1>4, <2>1
  <2>3. c \in Call /\ p \in Plan /\ q = Construct(p, c[1], c[2], c[3], c[4])
    BY <1>1, <1>2, <2>1
  <2>4. c[1] \in Op /\ c[2] \in Maybe /\ c[3] \in Maybe /\ c[4] \in Maybe
    BY <2>3 DEF Call
  <2> HIDE DEF p, q, c, S
  <2>5. /\ q \in Plan
        /\ q.added = p.added /\ q.initial = p.initial
        /\ q.parent = [p.parent EXCEPT ![c[1]] = c[2]]
        /\ q.onFailure = [p.onFailure EXCEPT ![c[1]] = c[3]]
        /\ q.onCannotStart = [p.onCannotStart EXCEPT ![c[1]] = c[4]]
        /\ \A o \in Op : q.onSuccess[o] =
             IF o = c[2] /\ p.onSuccess[o] = None THEN c[1] ELSE p.onSuccess[o]
    <3>1. AfterConstruct(p, c, q)
      BY <2>3, ConstructLemma
    <3> QED BY <3>1 DEF AfterConstruct
  <2>6. /\ DOMAIN p.parent = Op /\ DOMAIN p.onFailure = Op /\ DOMAIN p.onCannotStart = Op
    BY <2>3 DEF Plan, Link
  <2>7. ASSUME NEW i \in 1..(k + 1)
        PROVE  /\ q.parent[calls[i][1]] = calls[i][2]
               /\ q.onFailure[calls[i][1]] = calls[i][3]
               /\ q.onCannotStart[calls[i][1]] = calls[i][4]
               /\ calls[i][2] # None => q.onSuccess[calls[i][2]] # None
    <3>1. CASE i = k + 1
      <4>1. calls[i] = c
        BY <3>1 DEF c
      <4>2. c[2] # None => c[2] \in Op
        BY <2>4 DEF Maybe
      <4> QED BY <2>4, <2>5, <2>6, <4>1, <4>2, TaskAssumption
    <3>2. CASE i # k + 1
      <4>1. i \in 1..k /\ i \in 1..n /\ calls[i] \in Call
        BY <1>1, <2>1, <3>2
      <4>2. calls[i][1] # c[1]
        BY <2>1, <3>2, <4>1 DEF n, c
      <4>3. calls[i][1] \in Op /\ (calls[i][2] # None => calls[i][2] \in Op)
        BY <4>1 DEF Call, Maybe
      <4>4. /\ p.parent[calls[i][1]] = calls[i][2]
            /\ p.onFailure[calls[i][1]] = calls[i][3]
            /\ p.onCannotStart[calls[i][1]] = calls[i][4]
            /\ calls[i][2] # None => p.onSuccess[calls[i][2]] # None
        BY <2>2, <4>1 DEF ConstructedUpTo
      <4> QED BY <2>4, <2>5, <2>6, <4>2, <4>3, <4>4, TaskAssumption
    <3> QED BY <3>1, <3>2
  <2>8. ASSUME NEW o \in Op, q.onSuccess[o] # None
        PROVE  \E i \in 1..(k + 1) : calls[i][2] = o /\ calls[i][1] = q.onSuccess[o]
    <3>1. CASE o = c[2] /\ p.onSuccess[o] = None
      <4>1. k + 1 \in 1..(k + 1)
        OBVIOUS
      <4> QED BY <2>5, <3>1, <4>1 DEF c
    <3>2. CASE ~(o = c[2] /\ p.onSuccess[o] = None)
      <4>1. q.onSuccess[o] = p.onSuccess[o]
        BY <2>5, <3>2
      <4>2. PICK i \in 1..k : calls[i][2] = o /\ calls[i][1] = p.onSuccess[o]
        BY <2>2, <2>8, <4>1 DEF ConstructedUpTo
      <4>3. i \in 1..(k + 1)
        OBVIOUS
      <4> QED BY <4>1, <4>2, <4>3
    <3> QED BY <3>1, <3>2
  <2>9. q.added = <<>> /\ q.initial = None
    BY <2>2, <2>5 DEF ConstructedUpTo
  <2> QED BY <2>5, <2>7, <2>8, <2>9 DEF ConstructedUpTo, q
<1> HIDE DEF S
<1>5. n \in S
  BY <1>1, <1>3, <1>4, SetInduction
<1> QED BY <1>1, <1>2, <1>5 DEF n, S

\* What adding operations leaves: the first one is the initial operation, and
\* each that leads nowhere on success leads to the next.
AddedUpTo(q, p, ops, k) ==
  /\ q \in Plan
  /\ q.parent = p.parent /\ q.onFailure = p.onFailure /\ q.onCannotStart = p.onCannotStart
  /\ Len(q.added) = k /\ \A i \in 1..k : q.added[i] = ops[i]
  /\ q.initial = IF k = 0 THEN None ELSE ops[1]
  /\ \A i \in 1..(k - 1) :
       q.onSuccess[ops[i]] =
         IF p.onSuccess[ops[i]] = None THEN ops[i + 1] ELSE p.onSuccess[ops[i]]
  /\ \A o \in Op : (\A i \in 1..(k - 1) : o # ops[i]) => q.onSuccess[o] = p.onSuccess[o]

LEMMA AddedLinks ==
  ASSUME NEW p \in Plan, NEW ops \in Seq(Op),
         \A i, j \in 1..Len(ops) : ops[i] = ops[j] => i = j,
         p.added = <<>>, p.initial = None, p.parent[ops[1]] = None
  PROVE  AddedUpTo(AddedAll(p, ops), p, ops, Len(ops))
<1> DEFINE n == Len(ops)
<1>1. n \in Nat /\ \A i \in 1..n : ops[i] \in Op
  OBVIOUS
<1>2. PICK stage \in [0..n -> Plan] :
        /\ stage[0] = p
        /\ \A i \in 1..n : AfterAdd(stage[i - 1], ops[i], stage[i])
        /\ AddedAll(p, ops) = stage[n]
  BY AddedStages
<1> DEFINE S == {k \in Nat : k <= n => AddedUpTo(stage[k], p, ops, k)}
<1> HIDE DEF n
<1>3. 0 \in S
  <2>1. 1..0 = {} /\ 1..(0 - 1) = {} /\ Len(<<>>) = 0
    OBVIOUS
  <2> QED BY <1>2, <2>1 DEF AddedUpTo
<1>4. ASSUME NEW k \in Nat, k \in S PROVE k + 1 \in S
  <2> SUFFICES ASSUME k + 1 <= n PROVE AddedUpTo(stage[k + 1], p, ops, k + 1)
    OBVIOUS
  <2>1. /\ k + 1 \in 1..n /\ k + 1 - 1 = k /\ k <= n /\ k \in 0..n
        /\ k # 0 => k \in 1..k /\ k \in 1..n
    BY <1>1
  <2> DEFINE r == stage[k]
             q == stage[k + 1]
             op == ops[k + 1]
  <2>2. AddedUpTo(r, p, ops, k)
    BY <1>4, <2>1
  <2>3. r \in Plan /\ op \in Op
    BY <1>1, <1>2, <2>1
  <2>0. AfterAdd(r, op, q)
    <3>1. AfterAdd(stage[k + 1 - 1], ops[k + 1], stage[k + 1])
      BY <1>2, <2>1
    <3> QED BY <2>1, <3>1
  <2> HIDE DEF r, q, op, S
  <2>4. /\ q \in Plan
        /\ q.added = Append(r.added, op)
        /\ q.initial = IF r.initial = None /\ r.parent[op] = None THEN op ELSE r.initial
        /\ q.parent = r.parent
        /\ q.onFailure = r.onFailure
        /\ q.onCannotStart = r.onCannotStart
        /\ \A o \in Op : q.onSuccess[o] =
             IF r.added # <<>> /\ o = r.added[Len(r.added)] /\ r.onSuccess[o] = None
             THEN op ELSE r.onSuccess[o]
    BY <2>0 DEF AfterAdd
  <2>5. r.added \in Seq(Op) /\ Len(r.added) = k /\ \A i \in 1..k : r.added[i] = ops[i]
    BY <2>2, <2>3 DEF AddedUpTo, Plan
  <2>6. Len(q.added) = k + 1 /\ \A i \in 1..(k + 1) : q.added[i] = ops[i]
    <3>1. /\ Len(q.added) = k + 1 /\ q.added[k + 1] = op
          /\ \A i \in 1..k : q.added[i] = r.added[i]
      <4>1. /\ r.added \in Seq(Op) /\ op \in Op
            /\ q.added = Append(r.added, op) /\ Len(r.added) = k
        BY <2>3, <2>4, <2>5
      <4> QED BY <4>1, AppendLemma
    <3>2. ASSUME NEW i \in 1..(k + 1) PROVE q.added[i] = ops[i]
      <4>1. CASE i = k + 1
        BY <3>1, <4>1 DEF op
      <4>2. CASE i # k + 1
        <5>1. i \in 1..k
          BY <4>2
        <5> QED BY <2>5, <3>1, <5>1
      <4> QED BY <4>1, <4>2
    <3> QED BY <3>1, <3>2
  <2>7. q.initial = ops[1]
    <3>1. CASE k = 0
      BY <2>2, <2>4, <3>1 DEF AddedUpTo, op
    <3>2. CASE k # 0
      <4>1. ops[1] \in Op /\ r.initial = ops[1]
        BY <1>1, <2>1, <2>2, <3>2 DEF AddedUpTo
      <4> QED BY <2>4, <4>1, TaskAssumption
    <3> QED BY <3>1, <3>2
  <2>8. \A o \in Op : q.onSuccess[o] =
          IF k # 0 /\ o = ops[k] /\ r.onSuccess[o] = None THEN op ELSE r.onSuccess[o]
    <3>1. CASE k = 0
      <4>1. r.added = <<>>
        BY <2>5, <3>1
      <4> QED BY <2>4, <3>1, <4>1
    <3>2. CASE k # 0
      <4>1. r.added # <<>> /\ r.added[Len(r.added)] = ops[k]
        BY <2>1, <2>5, <3>2
      <4> QED BY <2>4, <3>2, <4>1
    <3> QED BY <3>1, <3>2
  <2>9. ASSUME NEW i \in 1..k
        PROVE  q.onSuccess[ops[i]] =
                 IF p.onSuccess[ops[i]] = None THEN ops[i + 1] ELSE p.onSuccess[ops[i]]
    <3>1. i \in 1..n /\ ops[i] \in Op /\ k # 0
      BY <1>1, <2>1
    <3>2. CASE i = k
      <4>1. ASSUME NEW j \in 1..(k - 1) PROVE ops[k] # ops[j]
        <5>1. j \in 1..n /\ j # k
          <6>1. j \in Int /\ 1 <= j /\ j <= k - 1 /\ n \in Int
            BY <1>1
          <6> QED BY <2>1, <6>1
        <5> QED BY <2>1, <3>1, <5>1 DEF n
      <4>2. r.onSuccess[ops[k]] = p.onSuccess[ops[k]]
        BY <2>2, <3>1, <3>2, <4>1 DEF AddedUpTo
      <4> QED BY <2>8, <3>1, <3>2, <4>2 DEF op
    <3>3. CASE i # k
      <4>1. i \in 1..(k - 1) /\ ops[i] # ops[k]
        BY <2>1, <3>1, <3>3 DEF n
      <4>2. r.onSuccess[ops[i]] =
              IF p.onSuccess[ops[i]] = None THEN ops[i + 1] ELSE p.onSuccess[ops[i]]
        BY <2>2, <4>1 DEF AddedUpTo
      <4> QED BY <2>8, <3>1, <4>1, <4>2
    <3> QED BY <3>2, <3>3
  <2>10. ASSUME NEW o \in Op, \A i \in 1..k : o # ops[i]
         PROVE  q.onSuccess[o] = p.onSuccess[o]
    <3>1. \A i \in 1..(k - 1) : o # ops[i]
      <4>1. \A i \in 1..(k - 1) : i \in 1..k
        OBVIOUS
      <4> QED BY <2>10, <4>1
    <3>2. r.onSuccess[o] = p.onSuccess[o]
      BY <2>2, <3>1 DEF AddedUpTo
    <3>3. k # 0 => o # ops[k]
      BY <2>1, <2>10
    <3> QED BY <2>8, <3>2, <3>3
  <2>11. q.parent = p.parent /\ q.onFailure = p.onFailure /\ q.onCannotStart = p.onCannotStart
    BY <2>2, <2>4 DEF AddedUpTo
  <2>12. AddedUpTo(q, p, ops, k + 1)
    <3>1. k + 1 # 0 /\ k + 1 - 1 = k
      OBVIOUS
    <3> QED BY <2>4, <2>6, <2>7, <2>9, <2>10, <2>11, <3>1 DEF AddedUpTo
  <2> QED BY <2>12 DEF q
<1> HIDE DEF S
<1>5. n \in S
  BY <1>1, <1>3, <1>4, SetInduction
<1> QED BY <1>1, <1>2, <1>5 DEF n, S

\* A chain leads from each of its operations to the next, and changes nothing else.
ChainedUpTo(q, p, ops, k) ==
  /\ q \in Plan /\ q.initial = p.initial
  /\ q.onFailure = p.onFailure /\ q.onCannotStart = p.onCannotStart
  /\ \A i \in 1..k : q.onSuccess[ops[i]] = ops[i + 1]
  /\ \A o \in Op : (\A i \in 1..k : o # ops[i]) => q.onSuccess[o] = p.onSuccess[o]

LEMMA ChainedLinks ==
  ASSUME NEW p \in Plan, NEW ops \in Seq(Op), Len(ops) # 0,
         \A i, j \in 1..Len(ops) : ops[i] = ops[j] => i = j
  PROVE  ChainedUpTo(Chained(p, ops), p, ops, Len(ops) - 1)
<1> DEFINE n == Len(ops) - 1
<1>1. n \in Nat /\ \A i \in 1..n : ops[i] \in Op /\ ops[i + 1] \in Op
  OBVIOUS
<1>2. PICK stage \in [0..n -> Plan] :
        /\ stage[0] = p
        /\ \A i \in 1..n : stage[i] = ConnectOnSuccess(stage[i - 1], ops[i], ops[i + 1])
        /\ Chained(p, ops) = stage[n]
  BY ChainedStages
<1>3. \A i, j \in 1..n : ops[i] = ops[j] => i = j
  OBVIOUS
<1> DEFINE S == {k \in Nat : k <= n => ChainedUpTo(stage[k], p, ops, k)}
<1> HIDE DEF n
<1>4. 0 \in S
  <2>1. 1..0 = {}
    OBVIOUS
  <2> QED BY <1>2, <2>1 DEF ChainedUpTo
<1>5. ASSUME NEW k \in Nat, k \in S PROVE k + 1 \in S
  <2> SUFFICES ASSUME k + 1 <= n PROVE ChainedUpTo(stage[k + 1], p, ops, k + 1)
    OBVIOUS
  <2>1. k + 1 \in 1..n /\ k + 1 - 1 = k /\ k <= n /\ k \in 0..n
    BY <1>1
  <2> DEFINE r == stage[k]
             q == stage[k + 1]
             op == ops[k + 1]
             next == ops[k + 2]
  <2>2. ChainedUpTo(r, p, ops, k)
    BY <1>5, <2>1
  <2>3. r \in Plan /\ op \in Op /\ next \in Op /\ q = ConnectOnSuccess(r, op, next)
    <3>1. k + 1 + 1 = k + 2
      OBVIOUS
    <3> QED BY <1>1, <1>2, <2>1, <3>1
  <2> HIDE DEF r, q, op, next, S
  <2>4. q \in Plan /\ q = [r EXCEPT !.onSuccess[op] = next]
    BY <2>3, ConnectLemma
  <2>5. /\ q.initial = r.initial /\ q.onFailure = r.onFailure
        /\ q.onCannotStart = r.onCannotStart
        /\ q.onSuccess = [r.onSuccess EXCEPT ![op] = next]
    BY <2>3, <2>4 DEF Plan
  <2>6. \A o \in Op : q.onSuccess[o] = IF o = op THEN next ELSE r.onSuccess[o]
    <3>1. DOMAIN r.onSuccess = Op
      BY <2>3 DEF Plan, Link
    <3> QED BY <2>5, <3>1
  <2>7. ASSUME NEW i \in 1..(k + 1) PROVE q.onSuccess[ops[i]] = ops[i + 1]
    <3>1. CASE i = k + 1
      <4>1. i + 1 = k + 2
        BY <3>1
      <4> QED BY <2>3, <2>6, <3>1, <4>1 DEF op, next
    <3>2. CASE i # k + 1
      <4>1. i \in 1..k /\ i \in 1..n /\ ops[i] \in Op
        BY <1>1, <2>1, <3>2
      <4>2. ops[i] # op
        BY <1>3, <2>1, <3>2, <4>1 DEF op
      <4> QED BY <2>2, <2>6, <4>1, <4>2 DEF ChainedUpTo
    <3> QED BY <3>1, <3>2
  <2>8. ASSUME NEW o \in Op, \A i \in 1..(k + 1) : o # ops[i]
        PROVE  q.onSuccess[o] = p.onSuccess[o]
    <3>1. k + 1 \in 1..(k + 1) /\ \A i \in 1..k : i \in 1..(k + 1)
      OBVIOUS
    <3>2. r.onSuccess[o] = p.onSuccess[o]
      BY <2>2, <2>8, <3>1 DEF ChainedUpTo
    <3> QED BY <2>6, <2>8, <3>1, <3>2 DEF op
  <2>9. q.initial = p.initial /\ q.onFailure = p.onFailure /\ q.onCannotStart = p.onCannotStart
    BY <2>2, <2>5 DEF ChainedUpTo
  <2>10. ChainedUpTo(q, p, ops, k + 1)
    BY <2>4, <2>7, <2>8, <2>9 DEF ChainedUpTo
  <2> QED BY <2>10 DEF q
<1> HIDE DEF S
<1>6. n \in S
  BY <1>1, <1>4, <1>5, SetInduction
<1> QED BY <1>1, <1>2, <1>6 DEF n, S

-----------------------------------------------------------------------------
(* The plans *)

Distinct(ops) == \A i, j \in 1..Len(ops) : ops[i] = ops[j] => i = j

LEMMA OpLemma ==
  /\ "to_nav" \in Op /\ "rotate" \in Op /\ "find_receptacle" \in Op /\ "find_object" \in Op
  /\ "go_to_object" \in Op /\ "go_to_receptacle" \in Op /\ "pregrasp" \in Op
  /\ "grasp" \in Op /\ "place" \in Op /\ "update" \in Op /\ "say_found" \in Op
  /\ "say_ready" \in Op /\ "extend_arm" \in Op /\ "say_opening" \in Op
  /\ "open_gripper" \in Op /\ "say_done" \in Op /\ "retract_arm" \in Op
BY PickupAssumption

LEMMA CallLemma ==
  /\ GoToNav \in Call /\ Rotate \in Call /\ FindTable \in Call /\ FindObject \in Call
  /\ GoToObject \in Call /\ GoToTable \in Call /\ PreGrasp \in Call /\ GraspObject \in Call
  /\ PlaceObject \in Call
BY OpLemma DEF Call, Maybe, GoToNav, Rotate, FindTable, FindObject, GoToObject, GoToTable,
   PreGrasp, GraspObject, PlaceObject

LEMMA PickupCallsLinks ==
  LET p == PickupCalls IN
  /\ p \in Plan /\ p.initial = "to_nav"
  /\ p.onFailure["to_nav"] = "to_nav" /\ p.onFailure["rotate"] = None
  /\ p.onFailure["find_receptacle"] = "find_receptacle"
  /\ p.onFailure["find_object"] = "find_object"
  /\ p.onFailure["go_to_object"] = None
  /\ p.onFailure["pregrasp"] = "pregrasp" /\ p.onFailure["grasp"] = "pregrasp"
  /\ p.onFailure["go_to_receptacle"] = None /\ p.onFailure["place"] = None
  /\ p.onCannotStart["go_to_object"] = "find_object"
  /\ p.onCannotStart["pregrasp"] = "go_to_object" /\ p.onCannotStart["grasp"] = "go_to_object"
  /\ p.onCannotStart["go_to_receptacle"] = "find_receptacle"
  /\ p.onCannotStart["place"] = "go_to_receptacle"
<1> DEFINE calls == <<GoToNav, Rotate, FindTable, FindObject, GoToObject,
                      GoToTable, PreGrasp, GraspObject, PlaceObject>>
           c == Constructed(calls)
           p == PickupCalls
<1>1. calls \in Seq(Call) /\ Len(calls) = 9
  BY CallLemma
<1>2. /\ calls[1] = GoToNav /\ calls[2] = Rotate /\ calls[3] = FindTable
      /\ calls[4] = FindObject /\ calls[5] = GoToObject /\ calls[6] = GoToTable
      /\ calls[7] = PreGrasp /\ calls[8] = GraspObject /\ calls[9] = PlaceObject
  OBVIOUS
<1> HIDE DEF calls
<1>3. \A i, j \in 1..9 : calls[i][1] = calls[j][1] => i = j
  BY <1>2 DEF GoToNav, Rotate, FindTable, FindObject, GoToObject, GoToTable,
   PreGrasp, GraspObject, PlaceObject
<1>4. ConstructedUpTo(c, calls, 9)
  BY <1>1, <1>3, ConstructedLinks
<1> HIDE DEF c
<1>5. \A i \in 1..9 : /\ c.parent[calls[i][1]] = calls[i][2]
                     /\ c.onFailure[calls[i][1]] = calls[i][3]
                     /\ c.onCannotStart[calls[i][1]] = calls[i][4]
  BY <1>4 DEF ConstructedUpTo
<1>6. /\ c.parent["to_nav"] = None
      /\ c.onFailure["to_nav"] = "to_nav" /\ c.onFailure["rotate"] = None
      /\ c.onFailure["find_receptacle"] = "find_receptacle"
      /\ c.onFailure["find_object"] = "find_object"
      /\ c.onFailure["go_to_object"] = None
      /\ c.onFailure["pregrasp"] = "pregrasp" /\ c.onFailure["grasp"] = "pregrasp"
      /\ c.onFailure["go_to_receptacle"] = None /\ c.onFailure["place"] = None
      /\ c.onCannotStart["go_to_object"] = "find_object"
      /\ c.onCannotStart["pregrasp"] = "go_to_object" /\ c.onCannotStart["grasp"] = "go_to_object"
      /\ c.onCannotStart["go_to_receptacle"] = "find_receptacle"
      /\ c.onCannotStart["place"] = "go_to_receptacle"
  BY <1>2, <1>5 DEF GoToNav, Rotate, FindTable, FindObject, GoToObject, GoToTable,
   PreGrasp, GraspObject, PlaceObject
<1>7. PickupSteps \in Seq(Op) /\ Len(PickupSteps) = 9 /\ Distinct(PickupSteps) /\ PickupSteps[1] = "to_nav"
  BY OpLemma DEF PickupSteps, Distinct
<1>8. c \in Plan /\ c.added = <<>> /\ c.initial = None
  BY <1>4 DEF ConstructedUpTo
<1>9. AddedUpTo(PickupCalls, c, PickupSteps, 9)
  BY <1>6, <1>7, <1>8, AddedLinks DEF PickupCalls, Distinct, c, calls
<1> QED BY <1>6, <1>7, <1>9 DEF AddedUpTo

LEMMA PickupLinks ==
  LET p == PickupPlan IN
  /\ p \in Plan /\ p.initial = "to_nav"
  /\ p.onSuccess["to_nav"] = "rotate" /\ p.onSuccess["rotate"] = "find_receptacle"
  /\ p.onSuccess["find_receptacle"] = "find_object"
  /\ p.onSuccess["find_object"] = "go_to_object" /\ p.onSuccess["go_to_object"] = "pregrasp"
  /\ p.onSuccess["pregrasp"] = "grasp" /\ p.onSuccess["grasp"] = "go_to_receptacle"
  /\ p.onSuccess["go_to_receptacle"] = "place" /\ p.onSuccess["place"] = None
  /\ p.onFailure["to_nav"] = "to_nav" /\ p.onFailure["rotate"] = None
  /\ p.onFailure["find_receptacle"] = "find_receptacle"
  /\ p.onFailure["find_object"] = "find_object" /\ p.onFailure["go_to_object"] = None
  /\ p.onFailure["pregrasp"] = "pregrasp" /\ p.onFailure["grasp"] = "pregrasp"
  /\ p.onFailure["go_to_receptacle"] = None /\ p.onFailure["place"] = None
  /\ p.onCannotStart["go_to_object"] = "find_object"
  /\ p.onCannotStart["pregrasp"] = "go_to_object" /\ p.onCannotStart["grasp"] = "go_to_object"
  /\ p.onCannotStart["go_to_receptacle"] = "find_receptacle"
  /\ p.onCannotStart["place"] = "go_to_receptacle"
<1> DEFINE a == PickupCalls
           b == Chained(a, PickupSteps)
           c == TerminateOnSuccess(b, "place")
<1>1. /\ PickupSteps \in Seq(Op) /\ Len(PickupSteps) = 9 /\ Distinct(PickupSteps)
      /\ Len(PickupSteps) # 0 /\ Len(PickupSteps) - 1 = 8
  BY OpLemma DEF PickupSteps, Distinct
<1>2. a \in Plan
  BY PickupCallsLinks
<1>3. ChainedUpTo(b, a, PickupSteps, 8)
  BY <1>1, <1>2, ChainedLinks DEF Distinct
<1> HIDE DEF a, b
<1>4. /\ b \in Plan /\ b.initial = "to_nav"
      /\ b.onFailure = a.onFailure /\ b.onCannotStart = a.onCannotStart
      /\ \A i \in 1..8 : b.onSuccess[PickupSteps[i]] = PickupSteps[i + 1]
  BY <1>3, PickupCallsLinks DEF ChainedUpTo, a
<1>5. /\ b.onSuccess["to_nav"] = "rotate" /\ b.onSuccess["rotate"] = "find_receptacle"
      /\ b.onSuccess["find_receptacle"] = "find_object"
      /\ b.onSuccess["find_object"] = "go_to_object" /\ b.onSuccess["go_to_object"] = "pregrasp"
      /\ b.onSuccess["pregrasp"] = "grasp" /\ b.onSuccess["grasp"] = "go_to_receptacle"
      /\ b.onSuccess["go_to_receptacle"] = "place"
  BY <1>4 DEF PickupSteps
<1>6. /\ c \in Plan /\ c.initial = b.initial
      /\ c.onSuccess = [b.onSuccess EXCEPT !["place"] = None]
      /\ c.onFailure = b.onFailure /\ c.onCannotStart = b.onCannotStart
  BY <1>4, OpLemma, ConnectLemma DEF TerminateOnSuccess, Plan
<1> HIDE DEF c
<1>7. PickupPlan = [c EXCEPT !.onCannotStart["go_to_object"] = "find_object"] /\ PickupPlan \in Plan
  BY <1>6, OpLemma, ConnectLemma DEF PickupPlan, ConnectOnCannotStart, c, b, a
<1>8. /\ PickupPlan.initial = c.initial
      /\ PickupPlan.onSuccess = c.onSuccess /\ PickupPlan.onFailure = c.onFailure
      /\ PickupPlan.onCannotStart = [c.onCannotStart EXCEPT !["go_to_object"] = "find_object"]
  BY <1>6, <1>7 DEF Plan
<1>9. DOMAIN b.onSuccess = Op /\ DOMAIN c.onCannotStart = Op
  BY <1>4, <1>6 DEF Plan, Link
<1>10. PickupPlan.onFailure = a.onFailure
  BY <1>4, <1>6, <1>8
<1>11. \A o \in Op : /\ PickupPlan.onSuccess[o] = IF o = "place" THEN None ELSE b.onSuccess[o]
                     /\ PickupPlan.onCannotStart[o] =
                          IF o = "go_to_object" THEN "find_object" ELSE a.onCannotStart[o]
  BY <1>4, <1>6, <1>8, <1>9
<1> QED BY <1>4, <1>5, <1>6, <1>7, <1>8, <1>10, <1>11, OpLemma, PickupCallsLinks DEF a

LEMMA PickLinks ==
  LET p == PickPlan IN
  /\ p \in Plan /\ p.initial = "to_nav"
  /\ p.onSuccess["to_nav"] = "rotate" /\ p.onSuccess["rotate"] = "find_object"
  /\ p.onSuccess["find_object"] = "go_to_object" /\ p.onSuccess["go_to_object"] = "pregrasp"
  /\ p.onSuccess["pregrasp"] = "grasp" /\ p.onSuccess["grasp"] = None
  /\ p.onFailure["to_nav"] = "to_nav" /\ p.onFailure["rotate"] = None
  /\ p.onFailure["find_object"] = "find_object" /\ p.onFailure["go_to_object"] = "rotate"
  /\ p.onFailure["pregrasp"] = "find_object" /\ p.onFailure["grasp"] = "find_object"
  /\ p.onCannotStart["go_to_object"] = "find_object"
  /\ p.onCannotStart["pregrasp"] = "go_to_object" /\ p.onCannotStart["grasp"] = "go_to_object"
<1> DEFINE calls == <<GoToNav, Rotate, FindObject, GoToObject, PreGrasp, GraspObject>>
           c == Constructed(calls)
           a == AddedAll(c, PickSteps)
           b == Chained(a, PickSteps)
           d == ConnectOnFailure(b, "pregrasp", "find_object")
           e == ConnectOnFailure(d, "grasp", "find_object")
           f == ConnectOnFailure(e, "go_to_object", "rotate")
<1>1. calls \in Seq(Call) /\ Len(calls) = 6
  BY CallLemma
<1>2. /\ calls[1] = GoToNav /\ calls[2] = Rotate /\ calls[3] = FindObject
      /\ calls[4] = GoToObject /\ calls[5] = PreGrasp /\ calls[6] = GraspObject
  OBVIOUS
<1> HIDE DEF calls
<1>3. \A i, j \in 1..6 : calls[i][1] = calls[j][1] => i = j
  BY <1>2 DEF GoToNav, Rotate, FindObject, GoToObject, PreGrasp, GraspObject
<1>4. ConstructedUpTo(c, calls, 6)
  BY <1>1, <1>3, ConstructedLinks
<1> HIDE DEF c
<1>5. \A i \in 1..6 : /\ c.parent[calls[i][1]] = calls[i][2]
                     /\ c.onFailure[calls[i][1]] = calls[i][3]
                     /\ c.onCannotStart[calls[i][1]] = calls[i][4]
  BY <1>4 DEF ConstructedUpTo
<1>6. /\ c.parent["to_nav"] = None
      /\ c.onFailure["to_nav"] = "to_nav" /\ c.onFailure["rotate"] = None
      /\ c.onFailure["find_object"] = "find_object"
      /\ c.onCannotStart["go_to_object"] = "find_object"
      /\ c.onCannotStart["pregrasp"] = "go_to_object" /\ c.onCannotStart["grasp"] = "go_to_object"
  BY <1>2, <1>5 DEF GoToNav, Rotate, FindObject, GoToObject, PreGrasp, GraspObject
<1>7. /\ PickSteps \in Seq(Op) /\ Len(PickSteps) = 6 /\ Distinct(PickSteps)
      /\ PickSteps[1] = "to_nav" /\ Len(PickSteps) # 0 /\ Len(PickSteps) - 1 = 5
  BY OpLemma DEF PickSteps, Distinct
<1>8. c \in Plan /\ c.added = <<>> /\ c.initial = None
  BY <1>4 DEF ConstructedUpTo
<1>9. AddedUpTo(a, c, PickSteps, 6)
  BY <1>6, <1>7, <1>8, AddedLinks DEF Distinct
<1> HIDE DEF a
<1>10. /\ a \in Plan /\ a.initial = "to_nav"
       /\ a.onFailure = c.onFailure /\ a.onCannotStart = c.onCannotStart
  BY <1>7, <1>9 DEF AddedUpTo
<1>11. ChainedUpTo(b, a, PickSteps, 5)
  BY <1>7, <1>10, ChainedLinks DEF Distinct
<1> HIDE DEF b
<1>12. /\ b \in Plan /\ b.initial = "to_nav"
       /\ b.onFailure = c.onFailure /\ b.onCannotStart = c.onCannotStart
       /\ \A i \in 1..5 : b.onSuccess[PickSteps[i]] = PickSteps[i + 1]
  BY <1>10, <1>11 DEF ChainedUpTo
<1>13. /\ b.onSuccess["to_nav"] = "rotate" /\ b.onSuccess["rotate"] = "find_object"
       /\ b.onSuccess["find_object"] = "go_to_object" /\ b.onSuccess["go_to_object"] = "pregrasp"
       /\ b.onSuccess["pregrasp"] = "grasp"
  BY <1>12 DEF PickSteps
<1>14. /\ d \in Plan /\ d.initial = b.initial /\ d.onSuccess = b.onSuccess
       /\ d.onCannotStart = b.onCannotStart
       /\ d.onFailure = [b.onFailure EXCEPT !["pregrasp"] = "find_object"]
  BY <1>12, OpLemma, ConnectLemma DEF ConnectOnFailure, Plan
<1> HIDE DEF d
<1>15. /\ e \in Plan /\ e.initial = d.initial /\ e.onSuccess = d.onSuccess
       /\ e.onCannotStart = d.onCannotStart
       /\ e.onFailure = [d.onFailure EXCEPT !["grasp"] = "find_object"]
  BY <1>14, OpLemma, ConnectLemma DEF ConnectOnFailure, Plan
<1> HIDE DEF e
<1>16. /\ f \in Plan /\ f.initial = e.initial /\ f.onSuccess = e.onSuccess
       /\ f.onCannotStart = e.onCannotStart
       /\ f.onFailure = [e.onFailure EXCEPT !["go_to_object"] = "rotate"]
  BY <1>15, OpLemma, ConnectLemma DEF ConnectOnFailure, Plan
<1> HIDE DEF f
<1>17. PickPlan = TerminateOnSuccess(f, "grasp")
  BY DEF PickPlan, calls, c, a, b, d, e, f
<1>18. /\ PickPlan \in Plan /\ PickPlan.initial = f.initial
       /\ PickPlan.onSuccess = [f.onSuccess EXCEPT !["grasp"] = None]
       /\ PickPlan.onFailure = f.onFailure /\ PickPlan.onCannotStart = f.onCannotStart
  BY <1>16, <1>17, OpLemma, ConnectLemma DEF TerminateOnSuccess, Plan
<1>19. /\ DOMAIN b.onFailure = Op /\ DOMAIN d.onFailure = Op /\ DOMAIN e.onFailure = Op
       /\ DOMAIN f.onSuccess = Op
  BY <1>12, <1>14, <1>15, <1>16 DEF Plan, Link
<1>20. \A o \in Op : /\ PickPlan.onSuccess[o] = IF o = "grasp" THEN None ELSE b.onSuccess[o]
                     /\ PickPlan.onFailure[o] = IF o = "go_to_object" THEN "rotate"
                                                ELSE IF o \in {"pregrasp", "grasp"} THEN "find_object"
                                                ELSE c.onFailure[o]
  BY <1>12, <1>14, <1>15, <1>16, <1>18, <1>19
<1>21. PickPlan.onCannotStart = c.onCannotStart /\ PickPlan.initial = "to_nav"
  BY <1>12, <1>14, <1>15, <1>16, <1>18
<1> QED BY <1>6, <1>13, <1>18, <1>20, <1>21, OpLemma

LEMMA PlaceLinks ==
  LET p == PlacePlan IN
  /\ p \in Plan /\ p.initial = "to_nav"
  /\ p.onSuccess["to_nav"] = "find_receptacle"
  /\ p.onSuccess["find_receptacle"] = "go_to_receptacle"
  /\ p.onSuccess["go_to_receptacle"] = "place" /\ p.onSuccess["place"] = None
  /\ p.onFailure["to_nav"] = "to_nav"
  /\ p.onFailure["find_receptacle"] = "find_receptacle"
  /\ p.onFailure["go_to_receptacle"] = None /\ p.onFailure["place"] = None
  /\ p.onCannotStart["go_to_receptacle"] = "find_receptacle"
  /\ p.onCannotStart["place"] = "go_to_receptacle"
<1> DEFINE calls == <<GoToNav, Rotate, FindTable, GoToTable, PlaceObject>>
           steps == <<"to_nav", "rotate", "find_receptacle", "go_to_receptacle", "place">>
           chain == <<"to_nav", "find_receptacle", "go_to_receptacle", "place">>
           c == Constructed(calls)
           a == AddedAll(c, steps)
           b == Chained(a, chain)
<1>0. PlacePlan = TerminateOnSuccess(b, "place")
  BY DEF PlacePlan
<1>1. calls \in Seq(Call) /\ Len(calls) = 5
  BY CallLemma
<1>2. /\ calls[1] = GoToNav /\ calls[2] = Rotate /\ calls[3] = FindTable
      /\ calls[4] = GoToTable /\ calls[5] = PlaceObject
  OBVIOUS
<1>3. steps \in Seq(Op) /\ Len(steps) = 5 /\ Distinct(steps) /\ steps[1] = "to_nav"
  BY OpLemma DEF Distinct
<1>4. /\ chain \in Seq(Op) /\ Len(chain) # 0 /\ Len(chain) - 1 = 3 /\ Distinct(chain)
      /\ chain[1] = "to_nav" /\ chain[2] = "find_receptacle"
      /\ chain[3] = "go_to_receptacle" /\ chain[4] = "place"
  BY OpLemma DEF Distinct
<1> HIDE DEF calls, steps, chain
<1>5. \A i, j \in 1..5 : calls[i][1] = calls[j][1] => i = j
  BY <1>2 DEF GoToNav, Rotate, FindTable, GoToTable, PlaceObject
<1>6. ConstructedUpTo(c, calls, 5)
  BY <1>1, <1>5, ConstructedLinks
<1> HIDE DEF c
<1>7. \A i \in 1..5 : /\ c.parent[calls[i][1]] = calls[i][2]
                     /\ c.onFailure[calls[i][1]] = calls[i][3]
                     /\ c.onCannotStart[calls[i][1]] = calls[i][4]
  BY <1>6 DEF ConstructedUpTo
<1>8. /\ c.parent["to_nav"] = None /\ c.onFailure["to_nav"] = "to_nav"
      /\ c.onFailure["find_receptacle"] = "find_receptacle"
      /\ c.onFailure["go_to_receptacle"] = None /\ c.onFailure["place"] = None
      /\ c.onCannotStart["go_to_receptacle"] = "find_receptacle"
      /\ c.onCannotStart["place"] = "go_to_receptacle"
  BY <1>2, <1>7 DEF GoToNav, Rotate, FindTable, GoToTable, PlaceObject
<1>9. c \in Plan /\ c.added = <<>> /\ c.initial = None
  BY <1>6 DEF ConstructedUpTo
<1>10. AddedUpTo(a, c, steps, 5)
  BY <1>3, <1>8, <1>9, AddedLinks DEF Distinct
<1> HIDE DEF a
<1>11. /\ a \in Plan /\ a.initial = "to_nav"
       /\ a.onFailure = c.onFailure /\ a.onCannotStart = c.onCannotStart
  BY <1>3, <1>10 DEF AddedUpTo
<1>12. ChainedUpTo(b, a, chain, 3)
  BY <1>4, <1>11, ChainedLinks DEF Distinct
<1> HIDE DEF b
<1>13. /\ b \in Plan /\ b.initial = "to_nav"
       /\ b.onFailure = c.onFailure /\ b.onCannotStart = c.onCannotStart
       /\ \A i \in 1..3 : b.onSuccess[chain[i]] = chain[i + 1]
  BY <1>11, <1>12 DEF ChainedUpTo
<1>14. /\ b.onSuccess["to_nav"] = "find_receptacle"
       /\ b.onSuccess["find_receptacle"] = "go_to_receptacle"
       /\ b.onSuccess["go_to_receptacle"] = "place"
  BY <1>4, <1>13
<1>15. /\ PlacePlan \in Plan /\ PlacePlan.initial = b.initial
       /\ PlacePlan.onSuccess = [b.onSuccess EXCEPT !["place"] = None]
       /\ PlacePlan.onFailure = b.onFailure /\ PlacePlan.onCannotStart = b.onCannotStart
  BY <1>0, <1>13, OpLemma, ConnectLemma DEF TerminateOnSuccess, Plan
<1>16. \A o \in Op : PlacePlan.onSuccess[o] = IF o = "place" THEN None ELSE b.onSuccess[o]
  BY <1>13, <1>15 DEF Plan, Link
<1> QED BY <1>8, <1>13, <1>14, <1>15, <1>16, OpLemma

LEMMA FindLinks ==
  LET p == FindPlan IN
  /\ p \in Plan /\ p.initial = "to_nav"
  /\ p.onSuccess["to_nav"] = "rotate" /\ p.onSuccess["rotate"] = "find_object"
  /\ p.onSuccess["find_object"] = "go_to_object" /\ p.onSuccess["go_to_object"] = None
  /\ p.onFailure["to_nav"] = "to_nav" /\ p.onFailure["rotate"] = None
  /\ p.onFailure["find_object"] = "find_object" /\ p.onFailure["go_to_object"] = "rotate"
  /\ p.onCannotStart["go_to_object"] = "find_object"
<1> DEFINE calls == <<GoToNav, Rotate, FindObject, GoToObject>>
           steps == <<"to_nav", "rotate", "find_object", "go_to_object">>
           chain == <<"to_nav", "rotate", "find_object">>
           c == Constructed(calls)
           a == AddedAll(c, steps)
           b == Chained(a, chain)
<1>0. FindPlan = ConnectOnFailure(b, "go_to_object", "rotate")
  BY DEF FindPlan
<1>1. calls \in Seq(Call) /\ Len(calls) = 4
  BY CallLemma
<1>2. /\ calls[1] = GoToNav /\ calls[2] = Rotate /\ calls[3] = FindObject
      /\ calls[4] = GoToObject
  OBVIOUS
<1>3. /\ steps \in Seq(Op) /\ Len(steps) = 4 /\ Distinct(steps)
      /\ steps[1] = "to_nav" /\ steps[2] = "rotate" /\ steps[3] = "find_object"
      /\ steps[4] = "go_to_object"
  BY OpLemma DEF Distinct
<1>4. /\ chain \in Seq(Op) /\ Len(chain) # 0 /\ Len(chain) - 1 = 2 /\ Distinct(chain)
      /\ chain[1] = "to_nav" /\ chain[2] = "rotate" /\ chain[3] = "find_object"
  BY OpLemma DEF Distinct
<1> HIDE DEF calls, steps, chain
<1>5. \A i, j \in 1..4 : calls[i][1] = calls[j][1] => i = j
  BY <1>2 DEF GoToNav, Rotate, FindObject, GoToObject
<1>6. ConstructedUpTo(c, calls, 4)
  BY <1>1, <1>5, ConstructedLinks
<1> HIDE DEF c
<1>7. \A i \in 1..4 : /\ c.parent[calls[i][1]] = calls[i][2]
                     /\ c.onFailure[calls[i][1]] = calls[i][3]
                     /\ c.onCannotStart[calls[i][1]] = calls[i][4]
  BY <1>6 DEF ConstructedUpTo
<1>8. /\ c.parent["to_nav"] = None
      /\ c.onFailure["to_nav"] = "to_nav" /\ c.onFailure["rotate"] = None
      /\ c.onFailure["find_object"] = "find_object"
      /\ c.onCannotStart["go_to_object"] = "find_object"
  BY <1>2, <1>7 DEF GoToNav, Rotate, FindObject, GoToObject
<1>9. c.onSuccess["find_object"] = "go_to_object" /\ c.onSuccess["go_to_object"] = None
  <2>1. \A o \in Op : c.onSuccess[o] # None =>
          \E i \in 1..4 : calls[i][2] = o /\ calls[i][1] = c.onSuccess[o]
    BY <1>6 DEF ConstructedUpTo
  <2>2. c.onSuccess["find_object"] # None
    <3>1. \A i \in 1..4 : calls[i][2] # None => c.onSuccess[calls[i][2]] # None
      BY <1>6 DEF ConstructedUpTo
    <3>2. 4 \in 1..4 /\ calls[4][2] = "find_object" /\ "find_object" # None
      BY <1>2, OpLemma, TaskAssumption DEF GoToObject
    <3> QED BY <3>1, <3>2
  <2>3. \A i \in 1..4 : /\ calls[i][2] = "find_object" => calls[i][1] = "go_to_object"
                        /\ calls[i][2] # "go_to_object"
    BY <1>2, OpLemma, TaskAssumption DEF GoToNav, Rotate, FindObject, GoToObject
  <2> QED BY <2>1, <2>2, <2>3, OpLemma
<1>10. c \in Plan /\ c.added = <<>> /\ c.initial = None
  BY <1>6 DEF ConstructedUpTo
<1>11. AddedUpTo(a, c, steps, 4)
  BY <1>3, <1>8, <1>10, AddedLinks DEF Distinct
<1> HIDE DEF a
<1>12. /\ a \in Plan /\ a.initial = "to_nav"
       /\ a.onFailure = c.onFailure /\ a.onCannotStart = c.onCannotStart
  BY <1>3, <1>11 DEF AddedUpTo
<1>13. a.onSuccess["find_object"] = "go_to_object" /\ a.onSuccess["go_to_object"] = None
  <2>1. /\ \A i \in 1..3 : a.onSuccess[steps[i]] =
             IF c.onSuccess[steps[i]] = None THEN steps[i + 1] ELSE c.onSuccess[steps[i]]
        /\ \A o \in Op : (\A i \in 1..3 : o # steps[i]) => a.onSuccess[o] = c.onSuccess[o]
    BY <1>11 DEF AddedUpTo
  <2>2. \A i \in 1..3 : "go_to_object" # steps[i]
    BY <1>3
  <2>3. a.onSuccess["go_to_object"] = c.onSuccess["go_to_object"]
    BY <2>1, <2>2, OpLemma
  <2>4. a.onSuccess[steps[3]] = "go_to_object"
    BY <1>3, <1>9, <2>1
  <2> QED BY <1>3, <1>9, <2>3, <2>4
<1>14. ChainedUpTo(b, a, chain, 2)
  BY <1>4, <1>12, ChainedLinks DEF Distinct
<1> HIDE DEF b
<1>15. /\ b \in Plan /\ b.initial = "to_nav"
       /\ b.onFailure = c.onFailure /\ b.onCannotStart = c.onCannotStart
       /\ \A i \in 1..2 : b.onSuccess[chain[i]] = chain[i + 1]
       /\ \A o \in Op : (\A i \in 1..2 : o # chain[i]) => b.onSuccess[o] = a.onSuccess[o]
  BY <1>12, <1>14 DEF ChainedUpTo
<1>16. /\ b.onSuccess["to_nav"] = "rotate" /\ b.onSuccess["rotate"] = "find_object"
       /\ b.onSuccess["find_object"] = "go_to_object" /\ b.onSuccess["go_to_object"] = None
  <2>1. \A i \in 1..2 : "find_object" # chain[i] /\ "go_to_object" # chain[i]
    BY <1>4
  <2> QED BY <1>4, <1>13, <1>15, <2>1, OpLemma
<1>17. /\ FindPlan \in Plan /\ FindPlan.initial = b.initial
       /\ FindPlan.onSuccess = b.onSuccess /\ FindPlan.onCannotStart = b.onCannotStart
       /\ FindPlan.onFailure = [b.onFailure EXCEPT !["go_to_object"] = "rotate"]
  BY <1>0, <1>15, OpLemma, ConnectLemma DEF ConnectOnFailure, Plan
<1>18. \A o \in Op : FindPlan.onFailure[o] = IF o = "go_to_object" THEN "rotate" ELSE b.onFailure[o]
  BY <1>15, <1>17 DEF Plan, Link
<1> QED BY <1>8, <1>15, <1>16, <1>17, <1>18, OpLemma

HandOverOps == {HandOverSteps[i] : i \in 1..9}

LEMMA HandOverStepsLemma ==
  /\ HandOverSteps \in Seq(Op) /\ Len(HandOverSteps) = 9 /\ Distinct(HandOverSteps)
  /\ DOMAIN HandOverSteps = 1..9 /\ \A i \in 1..9 : HandOverSteps[i] \in Op
  /\ HandOverSteps[1] = "update" /\ HandOverSteps[3] = "go_to_object"
<1>1. /\ HandOverSteps \in Seq(Op) /\ Len(HandOverSteps) = 9 /\ Distinct(HandOverSteps)
      /\ DOMAIN HandOverSteps = 1..9
      /\ HandOverSteps[1] = "update" /\ HandOverSteps[3] = "go_to_object"
  BY OpLemma DEF HandOverSteps, Distinct
<1>2. \A i \in 1..9 : HandOverSteps[i] \in Op
  BY OpLemma DEF HandOverSteps
<1> QED BY <1>1, <1>2

LEMMA HandOverLinks ==
  LET p == HandOverPlan IN
  /\ p \in Plan /\ p.initial = "update"
  /\ \A o \in HandOverOps : p.onSuccess[o] \in HandOverOps \cup {None}
  /\ p.onFailure["update"] = "update"
  /\ p.onCannotStart["go_to_object"] = "update"
<1> DEFINE calls == [i \in DOMAIN HandOverSteps |->
             IF i = 1 THEN <<"update", None, "update", None>>
             ELSE <<HandOverSteps[i], HandOverSteps[i - 1], None, "update">>]
           c == Constructed(calls)
<1>0. HandOverPlan = AddedAll(c, HandOverSteps)
  BY DEF HandOverPlan
<1>1. /\ HandOverSteps \in Seq(Op) /\ Len(HandOverSteps) = 9 /\ Distinct(HandOverSteps)
      /\ DOMAIN HandOverSteps = 1..9
      /\ HandOverSteps[1] = "update" /\ HandOverSteps[3] = "go_to_object"
  BY HandOverStepsLemma
<1>2. \A i \in 1..9 : HandOverSteps[i] \in Op
  BY HandOverStepsLemma
<1>3. /\ calls[1] = <<"update", None, "update", None>>
      /\ \A i \in 2..9 : calls[i] = <<HandOverSteps[i], HandOverSteps[i - 1], None, "update">>
  BY <1>1
<1>4. calls \in Seq(Call) /\ Len(calls) = 9
  <2>1. DOMAIN calls = 1..9 /\ \A i \in 1..9 : calls[i] \in Call
    <3>1. calls[1] \in Call
      BY <1>3, OpLemma DEF Call, Maybe
    <3>2. ASSUME NEW i \in 2..9 PROVE calls[i] \in Call
      <4>1. HandOverSteps[i] \in Op /\ HandOverSteps[i - 1] \in Op
        BY <1>2
      <4> HIDE DEF calls
      <4> QED BY <1>3, <4>1, OpLemma DEF Call, Maybe
    <3>3. DOMAIN calls = 1..9
      BY <1>1
    <3> HIDE DEF calls
    <3>4. ASSUME NEW i \in 1..9 PROVE calls[i] \in Call
      <4>1. i = 1 \/ i \in 2..9
        OBVIOUS
      <4> QED BY <3>1, <3>2, <4>1
    <3> QED BY <3>3, <3>4
  <2>2. calls = [i \in 1..9 |-> calls[i]]
    BY <1>1
  <2> HIDE DEF calls
  <2>3. calls \in [1..9 -> Call]
    BY <2>1, <2>2
  <2> QED BY <2>3, SeqLemma
<1> HIDE DEF calls
<1>5. \A i \in 1..9 : calls[i][1] = HandOverSteps[i]
  <2> SUFFICES ASSUME NEW i \in 1..9 PROVE calls[i][1] = HandOverSteps[i]
    OBVIOUS
  <2>1. CASE i = 1
    BY <1>1, <1>3, <2>1
  <2>2. CASE i \in 2..9
    BY <1>3, <2>2
  <2> QED BY <2>1, <2>2
<1>6. ConstructedUpTo(c, calls, 9)
  <2>1. \A i, j \in 1..9 : HandOverSteps[i] = HandOverSteps[j] => i = j
    BY <1>1 DEF Distinct
  <2>2. ASSUME NEW i \in 1..9, NEW j \in 1..9, calls[i][1] = calls[j][1] PROVE i = j
    <3>1. HandOverSteps[i] = HandOverSteps[j]
      BY <1>5, <2>2
    <3> QED BY <2>1, <3>1
  <2> QED BY <1>4, <2>2, ConstructedLinks
<1> HIDE DEF c
<1>7. /\ c \in Plan /\ c.added = <<>> /\ c.initial = None
      /\ \A i \in 1..9 : /\ c.parent[calls[i][1]] = calls[i][2]
                         /\ c.onFailure[calls[i][1]] = calls[i][3]
                         /\ c.onCannotStart[calls[i][1]] = calls[i][4]
      /\ \A o \in Op : c.onSuccess[o] # None =>
           \E i \in 1..9 : calls[i][2] = o /\ calls[i][1] = c.onSuccess[o]
  BY <1>6 DEF ConstructedUpTo
<1>8. c.parent["update"] = None /\ c.onFailure["update"] = "update"
  BY <1>3, <1>7
<1>9. c.onCannotStart["go_to_object"] = "update"
  <2>1. 3 \in 2..9 /\ 3 \in 1..9
    OBVIOUS
  <2>2. calls[3][1] = "go_to_object" /\ calls[3][4] = "update"
    BY <1>1, <1>3, <2>1
  <2>3. c.onCannotStart[calls[3][1]] = calls[3][4]
    BY <1>7, <2>1
  <2> QED BY <2>2, <2>3
<1>10. AddedUpTo(HandOverPlan, c, HandOverSteps, 9)
  <2>1. \A i, j \in 1..Len(HandOverSteps) : HandOverSteps[i] = HandOverSteps[j] => i = j
    BY <1>1 DEF Distinct
  <2>2. AddedUpTo(AddedAll(c, HandOverSteps), c, HandOverSteps, Len(HandOverSteps))
    BY <1>1, <1>7, <1>8, <2>1, AddedLinks
  <2> QED BY <1>0, <1>1, <2>2
<1>11. ASSUME NEW o \in HandOverOps
       PROVE  HandOverPlan.onSuccess[o] \in HandOverOps \cup {None}
  <2>1. PICK i \in 1..9 : o = HandOverSteps[i]
    BY DEF HandOverOps
  <2>2. c.onSuccess[o] \in HandOverOps \cup {None}
    BY <1>2, <1>5, <1>7, <2>1 DEF HandOverOps
  <2>3. CASE \E j \in 1..8 : o = HandOverSteps[j]
    <3>1. PICK j \in 1..8 : o = HandOverSteps[j]
      BY <2>3
    <3>2. HandOverPlan.onSuccess[o] =
            IF c.onSuccess[o] = None THEN HandOverSteps[j + 1] ELSE c.onSuccess[o]
      BY <1>10, <3>1 DEF AddedUpTo
    <3>3. j + 1 \in 1..9
      OBVIOUS
    <3> QED BY <2>2, <3>2, <3>3 DEF HandOverOps
  <2>4. CASE \A j \in 1..8 : o # HandOverSteps[j]
    <3>1. HandOverPlan.onSuccess[o] = c.onSuccess[o]
      BY <1>2, <1>10, <2>1, <2>4 DEF AddedUpTo
    <3> QED BY <2>2, <3>1
  <2> QED BY <2>3, <2>4
<1>12. /\ HandOverPlan \in Plan /\ HandOverPlan.initial = "update"
       /\ HandOverPlan.onFailure = c.onFailure /\ HandOverPlan.onCannotStart = c.onCannotStart
  BY <1>1, <1>10 DEF AddedUpTo
<1> QED BY <1>8, <1>9, <1>11, <1>12

-----------------------------------------------------------------------------
(* What the plans have in common *)

Tasks == {"pickup", "pick", "place", "find", "hand_over"}

\* The operations of the task that the loop can reach.
StepsOf(task) ==
  CASE task = "pickup"    -> {"to_nav", "rotate", "find_receptacle", "find_object", "go_to_object",
                              "pregrasp", "grasp", "go_to_receptacle", "place"}
    [] task = "pick"      -> {"to_nav", "rotate", "find_object", "go_to_object", "pregrasp", "grasp"}
    [] task = "place"     -> {"to_nav", "find_receptacle", "go_to_receptacle", "place"}
    [] task = "find"      -> {"to_nav", "rotate", "find_object", "go_to_object"}
    [] task = "hand_over" -> {"update", "say_found", "go_to_object", "say_ready", "extend_arm",
                              "say_opening", "open_gripper", "say_done", "retract_arm"}

\* The operations that come after one that has found the receptacle, after one
\* that has found the object, and after the one that has grasped it.
WithTable  == {"find_object", "go_to_object", "pregrasp", "grasp", "go_to_receptacle", "place"}
WithObject == {"go_to_object", "pregrasp", "grasp", "go_to_receptacle", "place"}
Carrying   == {"go_to_receptacle", "place"}

\* The operations that may run and fail, and those that may be refused in a state
\* that the invariant below allows.
Failing  == {"to_nav", "find_receptacle", "find_object", "pregrasp", "grasp", "place", "update"}
Refusing == {"go_to_object", "go_to_receptacle", "pregrasp", "grasp", "place"}

\* The plan stays among the operations, and has somewhere to go back to from every
\* operation that may be refused.
Closed(p, ops) ==
  /\ p \in Plan /\ p.initial \in ops /\ ops \subseteq Op
  /\ \A o \in ops : p.onSuccess[o] \in ops \cup {None}
  /\ \A o \in ops \cap Failing : p.onFailure[o] \in ops \cup {None}
  /\ \A o \in ops \cap Refusing : p.onCannotStart[o] \in ops

\* Among the operations, those of inner are entered only by the success of gate.
Gated(p, ops, inner, gate) ==
  /\ p.initial \notin inner
  /\ \A o \in ops : p.onSuccess[o] \in inner => o \in inner \cup {gate}
  /\ \A o \in ops \cap Failing : p.onFailure[o] \in inner => o \in inner
  /\ \A o \in ops \cap Refusing : p.onCannotStart[o] \in inner => o \in inner

LEMMA HandOverOpsLemma == HandOverOps = StepsOf("hand_over")
<1>1. StepsOf("hand_over") = {HandOverSteps[1], HandOverSteps[2], HandOverSteps[3],
        HandOverSteps[4], HandOverSteps[5], HandOverSteps[6], HandOverSteps[7],
        HandOverSteps[8], HandOverSteps[9]}
  BY DEF StepsOf, HandOverSteps
<1>2. \A i \in 1..9 : \/ i = 1 \/ i = 2 \/ i = 3 \/ i = 4 \/ i = 5 \/ i = 6 \/ i = 7
                      \/ i = 8 \/ i = 9
  OBVIOUS
<1>3. 1 \in 1..9 /\ 2 \in 1..9 /\ 3 \in 1..9 /\ 4 \in 1..9 /\ 5 \in 1..9 /\ 6 \in 1..9
      /\ 7 \in 1..9 /\ 8 \in 1..9 /\ 9 \in 1..9
  OBVIOUS
<1> QED BY <1>1, <1>2, <1>3 DEF HandOverOps

LEMMA PlansAreClosed ==
  ASSUME NEW task \in Tasks
  PROVE  Closed(PlanOf(task), StepsOf(task))
<1>1. None \notin Op
  BY TaskAssumption
<1>2. CASE task = "pickup"
  BY <1>1, <1>2, PickupLinks, OpLemma DEF PlanOf, StepsOf, Closed, Failing, Refusing
<1>3. CASE task = "pick"
  BY <1>1, <1>3, PickLinks, OpLemma DEF PlanOf, StepsOf, Closed, Failing, Refusing
<1>4. CASE task = "place"
  BY <1>1, <1>4, PlaceLinks, OpLemma DEF PlanOf, StepsOf, Closed, Failing, Refusing
<1>5. CASE task = "find"
  BY <1>1, <1>5, FindLinks, OpLemma DEF PlanOf, StepsOf, Closed, Failing, Refusing
<1>6. CASE task = "hand_over"
  <2>1. \A o \in StepsOf(task) : HandOverPlan.onSuccess[o] \in StepsOf(task) \cup {None}
    BY <1>6, HandOverLinks, HandOverOpsLemma
  <2> QED BY <1>1, <1>6, <2>1, HandOverLinks, OpLemma
             DEF PlanOf, StepsOf, Closed, Failing, Refusing
<1> QED BY <1>2, <1>3, <1>4, <1>5, <1>6 DEF Tasks

\* A pickup looks for the receptacle before the object, and grasps before it goes
\* to the receptacle, on every way that its recoveries take.
LEMMA PickupIsGated ==
  LET p == PlanOf("pickup")  ops == StepsOf("pickup") IN
  /\ Gated(p, ops, WithTable, "find_receptacle")
  /\ Gated(p, ops, WithObject, "find_object")
  /\ Gated(p, ops, Carrying, "grasp")
BY TaskAssumption, PickupLinks, OpLemma
   DEF PlanOf, StepsOf, Gated, Failing, Refusing, WithTable, WithObject, Carrying

LEMMA PickIsGated == Gated(PlanOf("pick"), StepsOf("pick"), WithObject, "find_object")
BY TaskAssumption, PickLinks, OpLemma DEF PlanOf, StepsOf, Gated, Failing, Refusing, WithObject

-----------------------------------------------------------------------------
(* Types *)

\* How the loop goes on after operation op: it has run, was refused or has raised.
GoesOn(op) == Succeeds(op) \/ Fails(op) \/ CannotStart(op) \/ Raises

LEMMA GoingOnKeepsTypes ==
  ASSUME EngineTypeOK, NEW op \in Op, current = op, plan' = plan, GoesOn(op)
  PROVE  EngineTypeOK'
<1>1. /\ plan.onSuccess[op] \in Op \cup {None} /\ plan.onFailure[op] \in Op \cup {None}
      /\ plan.onCannotStart[op] \in Op \cup {None}
  BY DEF EngineTypeOK, Plan, Link
<1>2. CASE Succeeds(op)
  BY <1>1, <1>2 DEF EngineTypeOK, Succeeds
<1>3. CASE Fails(op)
  BY <1>1, <1>3 DEF EngineTypeOK, Fails
<1>4. CASE CannotStart(op)
  BY <1>1, <1>4 DEF EngineTypeOK, CannotStart
<1>5. CASE Raises
  BY <1>5 DEF EngineTypeOK, Raises
<1> QED BY <1>2, <1>3, <1>4, <1>5 DEF GoesOn

\* What an operation has brought about when it succeeds.
Achieves(op) ==
  /\ op = "find_receptacle" => receptacle' # None
  /\ op = "find_object" => IsTarget(object')
  /\ op = "grasp" /\ ~openLoop => held' = object

MayRefuse(op) == op \in Refusing \/ (op = "find_object" /\ NeedsReceptacle)

\* What a step of operation op does, whatever cameras, planners and motors make of it.
Effect(op) ==
  /\ current = op /\ UNCHANGED executor
  /\ \/ Succeeds(op) /\ Achieves(op)
     \/ op \in Failing /\ Fails(op)
     \/ MayRefuse(op) /\ CannotStart(op)
     \/ Raises
  /\ mode' \in {"navigation", "manipulation"}
  /\ unreachable' \in SUBSET Instance
  /\ object' \in Instance \cup {None}
  /\ receptacle' \in Instance \cup {None}
  /\ held' \in Instance \cup {None}
  /\ op \notin {"find_object", "update"} => object' = object
  /\ receptacle # None => receptacle' # None
  /\ op \notin {"grasp", "place", "open_gripper"} => held' = held
  /\ op = "place" => held' = held \/ Succeeds(op)

LEMMA StateTypes ==
  ASSUME TypeOK
  PROVE  /\ mode \in {"navigation", "manipulation"} /\ unreachable \in SUBSET Instance
         /\ object \in Instance \cup {None} /\ receptacle \in Instance \cup {None}
         /\ held \in Instance \cup {None} /\ None \notin Instance
BY PickupAssumption DEF TypeOK

LEMMA RefusingMayRefuse == \A op \in Refusing : MayRefuse(op)
BY Zenon DEF MayRefuse

LEMMA OperationEffect ==
  ASSUME TypeOK, Operation
  PROVE  \E op \in Op : Effect(op)
<1> USE DEF agent, robot
<1>0. /\ mode \in {"navigation", "manipulation"} /\ unreachable \in SUBSET Instance
      /\ object \in Instance \cup {None} /\ receptacle \in Instance \cup {None}
      /\ held \in Instance \cup {None} /\ None \notin Instance
  BY StateTypes
<1>1. CASE RunGoToNav
  <2>1. Effect("to_nav")
    BY <1>0, <1>1 DEF RunGoToNav, Posture, Ran, Effect, Achieves, Failing
  <2> QED BY <2>1, OpLemma
<1>2. CASE RunRotate
  <2>1. Effect("rotate")
    BY <1>0, <1>2 DEF RunRotate, Posture, Effect, Achieves
  <2> QED BY <2>1, OpLemma
<1>3. CASE RunFindReceptacle
  <2>1. receptacle' \in Instance \cup {None} /\ unreachable' \in SUBSET Instance
        /\ (receptacle # None => receptacle' # None)
    BY <1>0, <1>3 DEF RunFindReceptacle, FindsReceptacle, Of
  <2>2. Effect("find_receptacle")
    BY <1>0, <1>3, <2>1 DEF RunFindReceptacle, Posture, Ran, Effect, Achieves, Failing
  <2> QED BY <2>2, OpLemma
<1>4. CASE RunFindObject
  <2>1. CASE NeedsReceptacle
    <3>1. Effect("find_object")
      BY <1>0, <1>4, <2>1 DEF RunFindObject, Effect, MayRefuse
    <3> QED BY <3>1, OpLemma
  <2>2. CASE ~NeedsReceptacle
    <3>1. /\ object' \in Instance \cup {None} /\ unreachable' \in SUBSET Instance
          /\ object' # None => IsTarget(object')
      BY <1>0, <1>4, <2>2 DEF RunFindObject, FindsObject, Of, IsTarget
    <3>2. Effect("find_object")
      BY <1>0, <1>4, <2>2, <3>1 DEF RunFindObject, Ran, Effect, Achieves, Failing
    <3> QED BY <3>2, OpLemma
  <2> QED BY <2>1, <2>2
<1>5. ASSUME NEW op \in {"go_to_object", "go_to_receptacle"}, RunNavigate(op)
      PROVE  Effect(op)
  BY <1>0, <1>5 DEF RunNavigate, Posture, Effect, Achieves
<1>6. ASSUME NEW op \in {"go_to_object", "go_to_receptacle"}, RefuseNavigate(op)
      PROVE  Effect(op)
  <2>1. unreachable' \in SUBSET Instance
    BY <1>0, <1>6 DEF RefuseNavigate, Target
  <2>2. current = op /\ MayRefuse(op)
    <3>1. op \in Refusing
      BY DEF Refusing
    <3> QED BY <1>6, <3>1, RefusingMayRefuse DEF RefuseNavigate, CannotStart
  <2> QED BY <1>0, <1>6, <2>1, <2>2 DEF RefuseNavigate, Effect
<1>7. CASE RunPreGrasp
  <2>1. Effect("pregrasp")
    BY <1>0, <1>7 DEF RunPreGrasp, Posture, Ran, Effect, Achieves, Failing
  <2> QED BY <2>1, OpLemma
<1>8. CASE RefusePreGrasp
  <2>1. current = "pregrasp" /\ MayRefuse("pregrasp")
    <3>1. "pregrasp" \in Refusing
      BY DEF Refusing
    <3> QED BY <1>8, <3>1, RefusingMayRefuse DEF RefusePreGrasp, CannotStart
  <2>2. Effect("pregrasp")
    BY <1>0, <1>8, <2>1 DEF RefusePreGrasp, Effect
  <2> QED BY <2>2, OpLemma
<1>9. ASSUME NEW successful \in BOOLEAN, RunGrasp(successful) PROVE Effect("grasp")
  <2>1. CASE object # None /\ mode' = "manipulation"
    <3>1. held' \in Instance \cup {None}
      BY <1>0, <1>9, <2>1 DEF RunGrasp, GraspGives
    <3>2. successful /\ ~openLoop => held' = object
      BY <1>9, <2>1 DEF RunGrasp, GraspGives
    <3> QED BY <1>0, <1>9, <2>1, <3>1, <3>2 DEF RunGrasp, Ran, Effect, Achieves, Failing
  <2>2. CASE ~(object # None /\ mode' = "manipulation")
    <3>1. mode' \in {"navigation", "manipulation"}
      BY <1>0, <1>9 DEF RunGrasp, Posture
    <3>2. MayRefuse("grasp")
      BY RefusingMayRefuse DEF Refusing
    <3> QED BY <1>0, <1>9, <2>2, <3>1, <3>2 DEF RunGrasp, Effect
  <2> QED BY <2>1, <2>2
<1>10. CASE RunPlace
  <2>1. Effect("place")
    BY <1>0, <1>10 DEF RunPlace, Succeeds, Effect, Achieves
  <2> QED BY <2>1, OpLemma
<1>11. CASE FailPlace
  <2>1. Effect("place")
    BY <1>0, <1>11 DEF FailPlace, Fails, Posture, Effect, Failing
  <2> QED BY <2>1, OpLemma
<1>12. CASE RefusePlace
  <2>1. current = "place" /\ MayRefuse("place")
    <3>1. "place" \in Refusing
      BY DEF Refusing
    <3> QED BY <1>12, <3>1, RefusingMayRefuse DEF RefusePlace, CannotStart
  <2>2. Effect("place")
    BY <1>0, <1>12, <2>1 DEF RefusePlace, Effect
  <2> QED BY <2>2, OpLemma
<1>13. CASE RunUpdate
  <2>1. object' \in Instance \cup {None}
    BY <1>0, <1>13 DEF RunUpdate, Of
  <2>2. Effect("update")
    BY <1>0, <1>13, <2>1 DEF RunUpdate, Posture, Ran, Effect, Achieves, Failing
  <2> QED BY <2>2, OpLemma
<1>14. ASSUME NEW op \in Says, RunSpeak(op) PROVE Effect(op)
  BY <1>0, <1>14 DEF Says, RunSpeak, Succeeds, Effect, Achieves
<1>15. ASSUME NEW op \in Moves, RunInManipulation(op) PROVE Effect(op)
  <2>1. held' \in Instance \cup {None} /\ (op # "open_gripper" => held' = held)
    BY <1>0, <1>15 DEF RunInManipulation
  <2> QED BY <1>0, <1>15, <2>1 DEF Moves, RunInManipulation, Posture, Effect, Achieves
<1> QED BY <1>1, <1>2, <1>3, <1>4, <1>5, <1>6, <1>7, <1>8, <1>9, <1>10, <1>11, <1>12, <1>13,
           <1>14, <1>15, OpLemma DEF Operation, Says, Moves

LEMMA CommandTask ==
  ASSUME NEW c \in Commands
  PROVE  c.task \in Tasks /\ PlanOf(c.task) \in Plan
<1>1. c.task \in Tasks
  BY PickupAssumption DEF Tasks
<1> QED BY <1>1, PlansAreClosed DEF Closed

\* Whatever the commands and the outcomes of the operations, plan, loop, agent and
\* robot hold values of their types, and the loop runs just when it is at an operation.
THEOREM PickupTypes == Spec => []TypeOK
<1>1. Init => TypeOK
  BY PickupAssumption, EmptyLemma DEF Init, TypeOK, EngineTypeOK
<1>2. ASSUME TypeOK, [Next]_vars PROVE TypeOK'
  <2>0. None \notin Instance /\ None \notin Op
    BY PickupAssumption, TaskAssumption
  <2>1. ASSUME NEW c \in Commands, Begin(c) PROVE TypeOK'
    <3>1. plan' \in Plan
      BY <2>1, CommandTask DEF Begin
    <3>2. EngineTypeOK'
      BY <1>2, <2>1, <3>1 DEF Begin, TypeOK, EngineTypeOK
    <3>3. left' \in 0..MaxCommands
      BY <1>2, <2>1, PickupAssumption DEF Begin, TypeOK
    <3> QED BY <1>2, <2>1, <3>2, <3>3 DEF Begin, TypeOK
  <2>2. CASE RunTask
    <3>1. plan.initial \in Op \cup {None} /\ plan' = plan
      BY <1>2, <2>2 DEF TypeOK, EngineTypeOK, Plan, RunTask, executor
    <3>2. EngineTypeOK'
      BY <1>2, <2>2, <3>1 DEF TypeOK, EngineTypeOK, RunTask, Start
    <3> QED BY <1>2, <2>2, <3>2 DEF TypeOK, RunTask, executor, agent, robot
  <2>3. CASE Operation
    <3>1. PICK op \in Op : Effect(op)
      BY <1>2, <2>3, OperationEffect
    <3>2. current = op /\ plan' = plan /\ GoesOn(op)
      BY <3>1 DEF Effect, executor, GoesOn
    <3>3. EngineTypeOK'
      BY <1>2, <3>2, GoingOnKeepsTypes DEF TypeOK
    <3>4. command' = command /\ left' = left /\ openLoop' = openLoop
      BY <3>1 DEF Effect, executor
    <3>5. /\ mode' \in {"navigation", "manipulation"} /\ unreachable' \in SUBSET Instance
          /\ object' \in Instance \cup {None} /\ receptacle' \in Instance \cup {None}
          /\ held' \in Instance \cup {None}
      BY <3>1 DEF Effect
    <3> QED BY <1>2, <3>3, <3>4, <3>5 DEF TypeOK
  <2>4. CASE UNCHANGED vars
    BY <1>2, <2>4 DEF vars, executor, loop, agent, robot, TypeOK, EngineTypeOK
  <2> QED BY <1>2, <2>1, <2>2, <2>3, <2>4 DEF Next
<1> QED BY <1>1, <1>2, PTL DEF Spec

-----------------------------------------------------------------------------
(* What holds on the way through a plan *)

RunsItsPlan ==
  result = "building" \/ current # None =>
    /\ command \in Commands
    /\ plan = PlanOf(command.task)

StaysInTask == current # None => current \in StepsOf(command.task)

HasTable == current \in WithTable /\ command.task = "pickup" => receptacle # None

HasTarget == current \in WithObject /\ command.task \in {"pickup", "pick"} => IsTarget(object)

CarriesTarget ==
  current \in Carrying /\ command.task = "pickup" /\ ~openLoop => IsTarget(held)

\* Together they carry over from step to step.  What the plan requires of the agent
\* at an operation is what the gates of the plan have established before.
FlowInv == RunsItsPlan /\ StaysInTask /\ HasTable /\ HasTarget /\ CarriesTarget /\ NeverStuck

LEMMA TaskPlan ==
  ASSUME RunsItsPlan, result = "building" \/ current # None
  PROVE  /\ command.task \in Tasks /\ plan = PlanOf(command.task)
         /\ Closed(plan, StepsOf(command.task))
BY CommandTask, PlansAreClosed DEF RunsItsPlan

\* An operation goes on by a link of the plan or raises.
GoesOnInPlan(op) ==
  \/ Succeeds(op) /\ Achieves(op)
  \/ op \in Failing /\ Fails(op)
  \/ op \in Refusing /\ CannotStart(op)
  \/ Raises

LEMMA StaysInPlan ==
  ASSUME NEW ops, Closed(plan, ops), NEW op \in ops, GoesOnInPlan(op)
  PROVE  /\ current' \in ops \cup {None}
         /\ result' # "stuck" /\ result' # "building"
<1>0. None \notin ops
  BY TaskAssumption DEF Closed
<1>1. CASE Succeeds(op)
  BY <1>1 DEF Succeeds, Closed
<1>2. CASE op \in Failing /\ Fails(op)
  BY <1>2 DEF Fails, Closed
<1>3. CASE op \in Refusing /\ CannotStart(op)
  BY <1>0, <1>3 DEF CannotStart, Closed
<1>4. CASE Raises
  BY <1>4 DEF Raises
<1> QED BY <1>1, <1>2, <1>3, <1>4 DEF GoesOnInPlan

LEMMA EntersByGate ==
  ASSUME NEW ops, NEW inner, None \notin inner, NEW gate, Gated(plan, ops, inner, gate),
         NEW op \in ops, GoesOnInPlan(op), current' \in inner
  PROVE  op \in inner \/ (op = gate /\ Succeeds(op) /\ Achieves(op))
<1>1. CASE Succeeds(op) /\ Achieves(op)
  BY <1>1 DEF Succeeds, Gated
<1>2. CASE op \in Failing /\ Fails(op)
  BY <1>2 DEF Fails, Gated
<1>3. CASE op \in Refusing /\ CannotStart(op)
  BY <1>3 DEF CannotStart, Gated
<1>4. CASE Raises
  BY <1>4 DEF Raises
<1> QED BY <1>1, <1>2, <1>3, <1>4 DEF GoesOnInPlan

\* The step of an operation while the invariant holds.
LEMMA FlowStep ==
  ASSUME TypeOK, FlowInv, NEW op \in Op, Effect(op)
  PROVE  /\ command.task \in Tasks /\ op \in StepsOf(command.task) /\ current = op
         /\ plan = PlanOf(command.task) /\ Closed(plan, StepsOf(command.task))
         /\ GoesOnInPlan(op)
         /\ command' = command /\ plan' = plan /\ openLoop' = openLoop
<1>1. current = op /\ current # None
  BY TaskAssumption DEF Effect
<1>2. /\ command.task \in Tasks /\ plan = PlanOf(command.task)
      /\ Closed(plan, StepsOf(command.task)) /\ op \in StepsOf(command.task)
  BY <1>1, TaskPlan DEF FlowInv, StaysInTask
<1>3. ~(op = "find_object" /\ NeedsReceptacle)
  BY <1>1 DEF FlowInv, HasTable, WithTable, NeedsReceptacle
<1>4. GoesOnInPlan(op)
  BY <1>3, Zenon DEF Effect, MayRefuse, GoesOnInPlan
<1> QED BY <1>1, <1>2, <1>4 DEF Effect, executor

LEMMA FlowInvStep ==
  ASSUME TypeOK, FlowInv, NEW op \in Op, Effect(op)
  PROVE  FlowInv'
<1>1. /\ command.task \in Tasks /\ op \in StepsOf(command.task) /\ current = op
      /\ plan = PlanOf(command.task) /\ Closed(plan, StepsOf(command.task))
      /\ GoesOnInPlan(op)
      /\ command' = command /\ plan' = plan /\ openLoop' = openLoop
  BY FlowStep
<1>2. /\ current' \in StepsOf(command.task) \cup {None}
      /\ result' # "stuck" /\ result' # "building"
  BY <1>1, StaysInPlan
<1>3. None \notin WithTable /\ None \notin WithObject /\ None \notin Carrying
  BY TaskAssumption, OpLemma DEF WithTable, WithObject, Carrying
<1>4. RunsItsPlan'
  BY <1>1, <1>2, TaskAssumption DEF FlowInv, RunsItsPlan
<1>5. StaysInTask'
  BY <1>1, <1>2 DEF StaysInTask
<1>6. HasTable'
  <2> SUFFICES ASSUME current' \in WithTable, command.task = "pickup" PROVE receptacle' # None
    BY <1>1 DEF HasTable
  <2>1. op \in WithTable \/ (op = "find_receptacle" /\ Achieves(op))
    BY <1>1, <1>3, PickupIsGated, EntersByGate
  <2>2. CASE op \in WithTable
    BY <1>1, <2>2 DEF FlowInv, HasTable, Effect
  <2>3. CASE op = "find_receptacle" /\ Achieves(op)
    BY <2>3 DEF Achieves
  <2> QED BY <2>1, <2>2, <2>3
<1>7. HasTarget'
  <2> SUFFICES ASSUME current' \in WithObject, command.task \in {"pickup", "pick"}
               PROVE  IsTarget(object')
    BY <1>1 DEF HasTarget, IsTarget
  <2>1. op \in WithObject \/ (op = "find_object" /\ Achieves(op))
    BY <1>1, <1>3, PickupIsGated, PickIsGated, EntersByGate
  <2>2. CASE op \in WithObject
    <3>1. object' = object
      BY <2>2 DEF WithObject, Effect
    <3> QED BY <1>1, <2>2, <3>1 DEF FlowInv, HasTarget
  <2>3. CASE op = "find_object" /\ Achieves(op)
    BY <2>3 DEF Achieves
  <2> QED BY <2>1, <2>2, <2>3
<1>8. CarriesTarget'
  <2> SUFFICES ASSUME current' \in Carrying, command.task = "pickup", ~openLoop
               PROVE  IsTarget(held')
    BY <1>1 DEF CarriesTarget, IsTarget
  <2>1. op \in Carrying \/ (op = "grasp" /\ Achieves(op))
    BY <1>1, <1>3, PickupIsGated, EntersByGate
  <2>2. CASE op = "go_to_receptacle"
    <3>1. held' = held
      BY <2>2 DEF Effect
    <3> QED BY <1>1, <2>2, <3>1 DEF FlowInv, CarriesTarget, Carrying
  <2>3. CASE op = "place"
    <3>1. held' = held \/ Succeeds(op)
      BY <2>3 DEF Effect
    <3>2. ~Succeeds(op)
      BY <1>1, <1>3, <2>3, PickupLinks DEF Succeeds, PlanOf
    <3> QED BY <1>1, <2>3, <3>1, <3>2 DEF FlowInv, CarriesTarget, Carrying
  <2>4. CASE op = "grasp" /\ Achieves(op)
    <3>1. held' = object
      BY <2>4 DEF Achieves
    <3>2. IsTarget(object)
      BY <1>1, <2>4 DEF FlowInv, HasTarget, WithObject
    <3> QED BY <3>1, <3>2
  <2> QED BY <2>1, <2>2, <2>3, <2>4 DEF Carrying
<1>9. NeverStuck'
  BY <1>2 DEF NeverStuck
<1> QED BY <1>4, <1>5, <1>6, <1>7, <1>8, <1>9 DEF FlowInv

\* On the way through a plan, whatever recoveries it takes, the agent has what the
\* gates of the plan have established.
THEOREM PlansKeepTheirPromises == Spec => []FlowInv
<1>1. Init => FlowInv
  BY TaskAssumption, OpLemma
     DEF Init, FlowInv, RunsItsPlan, StaysInTask, HasTable, HasTarget, CarriesTarget,
         NeverStuck, WithTable, WithObject, Carrying
<1>2. ASSUME TypeOK, FlowInv, [Next]_vars PROVE FlowInv'
  <2>0. None \notin WithTable /\ None \notin WithObject /\ None \notin Carrying
    BY TaskAssumption, OpLemma DEF WithTable, WithObject, Carrying
  <2>1. ASSUME NEW c \in Commands, Begin(c) PROVE FlowInv'
    BY <2>0, <2>1
       DEF Begin, FlowInv, RunsItsPlan, StaysInTask, HasTable, HasTarget, CarriesTarget,
           NeverStuck
  <2>2. CASE RunTask
    <3>1. /\ command' = command /\ plan' = plan /\ result = "building"
          /\ current' = plan.initial /\ result' \in {"raised", "running"}
      BY <2>2 DEF RunTask, Start, executor
    <3>2. /\ command.task \in Tasks /\ plan = PlanOf(command.task)
          /\ Closed(plan, StepsOf(command.task)) /\ command \in Commands
      BY <1>2, <3>1, TaskPlan DEF FlowInv, RunsItsPlan
    <3>3. /\ command.task = "pickup" => current' \notin WithTable /\ current' \notin Carrying
          /\ command.task \in {"pickup", "pick"} => current' \notin WithObject
      BY <3>1, <3>2, PickupIsGated, PickIsGated DEF Gated
    <3> QED BY <3>1, <3>2, <3>3
               DEF FlowInv, RunsItsPlan, StaysInTask, HasTable, HasTarget, CarriesTarget,
                   NeverStuck, Closed
  <2>3. CASE Operation
    BY <1>2, <2>3, OperationEffect, FlowInvStep
  <2>4. CASE UNCHANGED vars
    BY <1>2, <2>4
       DEF vars, executor, loop, agent, robot, FlowInv, RunsItsPlan, StaysInTask, HasTable,
           HasTarget, CarriesTarget, NeverStuck, IsTarget
  <2> QED BY <1>2, <2>1, <2>2, <2>3, <2>4 DEF Next
<1> QED BY <1>1, <1>2, PickupTypes, PTL DEF Spec

\* What an operation needs in order to start was there when its predecessor succeeded,
\* or the plan has somewhere to go back to: no sequence of commands ends in "Cannot
\* start critical operation."
THEOREM NeverGetsStuck == Spec => []NeverStuck
<1>1. FlowInv => NeverStuck
  BY DEF FlowInv
<1> QED BY <1>1, PlansKeepTheirPromises, PTL

\* The step with which a pickup ends in success places the object it was asked for,
\* and the one with which a pick does has just grasped it: provided the grasp servos.
THEOREM SuccessesAreReal == Spec => SuccessIsReal
<1>1. ASSUME TypeOK, FlowInv, Next, ~openLoop
      PROVE  /\ current = "place" /\ result' = "true" /\ command.task = "pickup" => IsTarget(held)
             /\ current = "grasp" /\ result' = "true" => IsTarget(held')
  <2>1. SUFFICES ASSUME current \in {"place", "grasp"}, result' = "true",
                        current = "place" => command.task = "pickup"
                 PROVE  IF current = "place" THEN IsTarget(held) ELSE IsTarget(held')
    OBVIOUS
  <2>2. Operation
    BY <1>1, <2>1, OpLemma, TaskAssumption DEF Next, Begin, RunTask, Start
  <2>3. PICK op \in Op : Effect(op)
    BY <1>1, <2>2, OperationEffect
  <2>4. /\ command.task \in Tasks /\ op \in StepsOf(command.task) /\ current = op
        /\ GoesOnInPlan(op) /\ command' = command
    BY <1>1, <2>3, FlowStep
  <2>5. CASE current = "place"
    BY <1>1, <2>1, <2>5 DEF FlowInv, CarriesTarget, Carrying
  <2>6. CASE current = "grasp"
    <3>1. Achieves("grasp")
      BY <2>1, <2>4, <2>6 DEF GoesOnInPlan, Fails, CannotStart, Raises
    <3>2. command.task \in {"pickup", "pick"}
      BY <2>4, <2>6 DEF Tasks, StepsOf
    <3>3. IsTarget(object)
      BY <1>1, <2>6, <3>2 DEF FlowInv, HasTarget, WithObject
    <3> QED BY <1>1, <2>4, <2>6, <3>1, <3>3 DEF Achieves, IsTarget
  <2> QED BY <2>1, <2>5, <2>6
<1>2. TypeOK /\ FlowInv /\ [Next]_vars =>
        [~openLoop =>
           /\ current = "place" /\ result' = "true" /\ command.task = "pickup" => IsTarget(held)
           /\ current = "grasp" /\ result' = "true" => IsTarget(held')]_vars
  BY <1>1
<1> QED BY <1>2, PickupTypes, PlansKeepTheirPromises, PTL DEF Spec, SuccessIsReal

=============================================================================
