------------------------ MODULE RegistrationQueueProofs ------------------------
(***************************************************************************)
(* Proofs about RegistrationQueue, for any number of claims, accounts and  *)
(* advancers, any balances and any number of faults: the types, that a row *)
(* is promoted once, that no claim starves, that nobody is demoted, and    *)
(* that the place in line a claim is told comes true.                      *)
(***************************************************************************)
EXTENDS RegistrationQueue, FiniteSetTheorems, WellFoundedInduction, TLAPS

--------------------------------------------------------------------------------
(* Types.                                                                  *)

\* Every balance is worth one of the groups.
LEMMA GroupType == \A dot \in Nat : GroupForBalance(dot) \in Groups
BY DEF GroupForBalance, Groups

\* The types hold at first.
LEMMA InitType == Init => TypeOK
BY DEF Init, TypeOK, Groups, SlotsPerIteration, PCs, NoReads

\* Dropping the work of an advancer leaves everything typed.
LEMMA IdleType ==
    ASSUME TypeOK, NEW a \in Advancers, NEW to \in PCs, Idle(a, to)
    PROVE  /\ pc' \in [Advancers -> PCs]
           /\ epoch' \in [Advancers -> Nat]
           /\ slot' \in [Advancers -> 1..SlotsPerIteration]
           /\ hand' \in [Advancers -> SUBSET Claims]
           /\ unread' \in [Advancers -> SUBSET Accounts]
           /\ fresh' \in [Advancers -> [Accounts -> 0..4]]
           /\ witness' \in [Advancers -> SUBSET Claims]
<1>1. NoReads \in [Accounts -> 0..4]
  BY DEF NoReads
<1>2. 1 \in 1..SlotsPerIteration
  BY DEF SlotsPerIteration
<1>3. QED
  BY <1>1, <1>2 DEF TypeOK, Idle

\* A refresh writes groups only.
LEMMA RegroupedType ==
    ASSUME TypeOK, NEW a \in Advancers, NEW x \in Unwritten(a)
    PROVE  Regrouped(a, x) \in [Claims -> Groups]
<1>1. fresh[a][x] \in Groups
  BY DEF TypeOK, Unwritten, Groups
<1>2. QED
  BY <1>1 DEF TypeOK, Regrouped

\* An advancer that drops its work, the group update it may have sent included,
\* keeps the types.
LEMMA DropType ==
    ASSUME TypeOK, NEW a \in Advancers, NEW to \in PCs, DropWork(a, to),
           faults' \in Nat, UNCHANGED <<lease, world>>
    PROVE  TypeOK'
<1>1. group' \in [Claims -> Groups]
  BY RegroupedType DEF DropWork, GroupsIfDropped, TypeOK
<1>2. row' \in [Claims -> {"NONE", "CHECKED", "QUEUED", "RESERVED", "TAKEN"}]
  BY DEF DropWork, Promoted, TypeOK
<1>3. Idle(a, to) /\ UNCHANGED passed
  BY DEF DropWork
<1>4. QED
  BY <1>1, <1>2, <1>3, IdleType DEF TypeOK, world

\* So does one that goes on to the next slot, or to sleep after the last.
LEMMA NextSlotType ==
    ASSUME TypeOK, NEW a \in Advancers, NextSlot(a)
    PROVE  /\ pc' \in [Advancers -> PCs]
           /\ epoch' \in [Advancers -> Nat]
           /\ slot' \in [Advancers -> 1..SlotsPerIteration]
           /\ hand' \in [Advancers -> SUBSET Claims]
           /\ unread' \in [Advancers -> SUBSET Accounts]
           /\ fresh' \in [Advancers -> [Accounts -> 0..4]]
           /\ witness' \in [Advancers -> SUBSET Claims]
<1>1. CASE slot[a] = SlotsPerIteration
  BY <1>1, IdleType DEF NextSlot, PCs
<1>2. CASE slot[a] # SlotsPerIteration
  <2>1. slot \in [Advancers -> 1..SlotsPerIteration]
    BY DEF TypeOK
  <2>2. slot[a] + 1 \in 1..SlotsPerIteration
    BY <1>2, <2>1 DEF SlotsPerIteration
  <2>3. slot' = [slot EXCEPT ![a] = slot[a] + 1]
    BY <1>2 DEF NextSlot
  <2>4. slot' \in [Advancers -> 1..SlotsPerIteration]
    BY <2>1, <2>2, <2>3
  <2>5. QED
    BY <1>2, <2>4 DEF NextSlot, TypeOK, PCs
<1>3. QED
  BY <1>1, <1>2

\* Faults are counted.
LEMMA FaultCounts ==
    ASSUME TypeOK, NEW k, Fault(k) \/ NoFault
    PROVE  faults' \in Nat
BY DEF TypeOK, Fault, NoFault

\* The steps of claims, of the operator, of the chain and of the lease.
LEMMA OutsideType ==
    ASSUME TypeOK,
           \/ \E c \in Claims : \/ IntakeGroup(c) \/ Enqueue(c)
                                \/ ReserveDirectly(c) \/ WriterTakes(c)
           \/ \E x \in Accounts : BalanceMoves(x)
           \/ LeaseExpires \/ GracePasses \/ Retire \/ Janitor
    PROVE  TypeOK'
<1>1. ASSUME NEW c \in Claims, IntakeGroup(c) PROVE TypeOK'
  <2>1. balance[Account[c]] \in Nat
    <3>1. balance \in [Accounts -> Balances] /\ Account[c] \in Accounts
      BY DEF TypeOK, Accounts
    <3>2. QED
      BY <3>1, QueueBounds
  <2>2. GroupForBalance(balance[Account[c]]) \in Groups /\ 1 \in Groups
    BY <2>1, GroupType DEF Groups
  <2>3. QED
    BY <1>1, <2>2 DEF IntakeGroup, TypeOK, Fault, NoFault, world, process, ghosts
<1>2. ASSUME NEW c \in Claims, Enqueue(c) \/ ReserveDirectly(c) \/ WriterTakes(c)
      PROVE  TypeOK'
  <2>1. CASE Enqueue(c)
    BY <2>1 DEF Enqueue, TypeOK, NoFault, world, process, ghosts
  <2>2. CASE ReserveDirectly(c)
    BY <2>2 DEF ReserveDirectly, TypeOK, NoFault, world, process, ghosts
  <2>3. CASE WriterTakes(c)
    BY <2>3 DEF WriterTakes, TypeOK, NoFault, world, process, ghosts
  <2>4. QED
    BY <1>2, <2>1, <2>2, <2>3
<1>3. ASSUME NEW x \in Accounts, BalanceMoves(x) PROVE TypeOK'
  BY <1>3 DEF BalanceMoves, TypeOK, NoFault, db, process, ghosts
<1>4. CASE LeaseExpires
  <2>1. lease' = [lease EXCEPT !.age = "expired"] /\ lease.age = "live" /\ faults' \in Nat
    BY <1>4 DEF LeaseExpires, TypeOK, Fault, NoFault
  <2>2. UNCHANGED <<db, world, process, ghosts>>
    BY <1>4 DEF LeaseExpires
  <2>3. QED
    BY <2>1, <2>2 DEF TypeOK, db, world, process, ghosts
<1>5. CASE GracePasses
  BY <1>5 DEF GracePasses, TypeOK, NoFault, db, world, process, ghosts
<1>6. CASE Retire
  BY <1>6 DEF Retire, TypeOK, NoFault, db, process, ghosts
<1>7. CASE Janitor
  BY <1>7 DEF Janitor, Promoted, TypeOK, NoFault, world, process
<1>8. QED
  BY <1>1, <1>2, <1>3, <1>4, <1>5, <1>6, <1>7

\* The steps of an advancer, its faults included.
LEMMA AdvancerType ==
    ASSUME TypeOK, NEW a \in Advancers,
           \/ AdvancerStep(a) \/ RenewalFails(a) \/ RefreshStops(a)
           \/ AdvanceErrs(a) \/ Crash(a) \/ Stop(a)
    PROVE  TypeOK'
<1>1. CASE TryAcquire(a)
  BY <1>1 DEF TryAcquire, TypeOK, NoFault, db, world, ghosts, PCs
<1>2. CASE Renew(a)
  <2>1. CASE LeaseHeld(a)
    <3>1. {Account[c] : c \in Queued} \in SUBSET Accounts
      BY DEF Queued, Accounts
    <3>2. /\ unread' = [unread EXCEPT ![a] = {Account[c] : c \in Queued}]
          /\ pc' = [pc EXCEPT ![a] = "read"]
          /\ UNCHANGED <<epoch, slot, hand, fresh, ghosts, faults, db, lease, world>>
      BY <1>2, <2>1 DEF Renew, NoFault
    <3>3. unread' \in [Advancers -> SUBSET Accounts]
      BY <3>1, <3>2 DEF TypeOK
    <3>4. QED
      BY <3>2, <3>3 DEF TypeOK, db, world, ghosts, PCs
  <2>2. CASE ~LeaseHeld(a)
    <3>1. Idle(a, "acquire") /\ "acquire" \in PCs
      BY <1>2, <2>2 DEF Renew, PCs
    <3>2. QED
      BY <1>2, <2>2, <3>1, IdleType DEF Renew, TypeOK, NoFault, db, world
  <2>3. QED
    BY <2>1, <2>2
<1>3. CASE Read(a)
  <2>1. CASE ReadBalance(a)
    <3>1. PICK x \in unread[a] :
            /\ \/ fresh' = [fresh EXCEPT ![a][x] = GroupForBalance(balance[x])]
               \/ UNCHANGED fresh
            /\ unread' = [unread EXCEPT ![a] = @ \ {x}]
            /\ faults' \in Nat
      BY <2>1, FaultCounts DEF ReadBalance
    <3>2. x \in Accounts /\ balance[x] \in Nat
      BY QueueBounds DEF TypeOK
    <3>3. GroupForBalance(balance[x]) \in 0..4
      BY <3>2, GroupType DEF Groups
    <3>4. fresh' \in [Advancers -> [Accounts -> 0..4]]
      <4>1. fresh \in [Advancers -> [Accounts -> 0..4]]
        BY DEF TypeOK
      <4>2. CASE fresh' = [fresh EXCEPT ![a][x] = GroupForBalance(balance[x])]
        BY <3>2, <3>3, <4>1, <4>2
      <4>3. QED
        BY <3>1, <4>1, <4>2
    <3>5. UNCHANGED <<pc, epoch, slot, hand>>
      BY <2>1 DEF ReadBalance
    <3>6. QED
      BY <1>3, <3>1, <3>4, <3>5 DEF Read, TypeOK, db, world, ghosts
  <2>2. CASE ~ReadBalance(a)
    BY <1>3, <2>2 DEF Read, TypeOK, NoFault, db, world, ghosts, PCs
  <2>3. QED
    BY <2>1, <2>2
<1>4. CASE Update(a)
  <2>1. CASE UpdateGroup(a)
    <3>1. PICK x \in Unwritten(a) : /\ group' = Regrouped(a, x)
                                    /\ fresh' = [fresh EXCEPT ![a][x] = 0]
      BY <2>1 DEF UpdateGroup
    <3>2. group' \in [Claims -> Groups]
      BY <3>1, RegroupedType
    <3>3. fresh' \in [Advancers -> [Accounts -> 0..4]]
      BY <3>1 DEF TypeOK, Unwritten
    <3>4. UNCHANGED <<row, pc, epoch, slot, hand, unread, passed, witness>>
      BY <2>1 DEF UpdateGroup
    <3>5. QED
      BY <1>4, <3>2, <3>3, <3>4 DEF Update, TypeOK, NoFault, world
  <2>2. CASE ~UpdateGroup(a)
    BY <1>4, <2>2 DEF Update, TypeOK, NoFault, db, world, PCs
  <2>3. QED
    BY <2>1, <2>2
<1>5. CASE Pick(a)
  <2>1. Eligible(slot[a]) \subseteq Claims /\ Chooses(a) \subseteq Claims
    BY DEF Eligible, Chooses, Queued
  <2>2. QED
    BY <1>5, <2>1 DEF Pick, First, TypeOK, NoFault, db, world, PCs
<1>6. CASE SkipSlot(a)
  BY <1>6, NextSlotType DEF SkipSlot, TypeOK, NoFault, db, world
<1>7. CASE Commit(a)
  <2>1. row' \in [Claims -> {"NONE", "CHECKED", "QUEUED", "RESERVED", "TAKEN"}]
    BY <1>7 DEF Commit, Promoted, TypeOK
  <2>2. passed' \in [Claims -> Nat]
    BY <1>7 DEF Commit, TypeOK
  <2>3. NextSlot(a)
    BY <1>7 DEF Commit
  <2>4. QED
    BY <1>7, <2>1, <2>2, <2>3, NextSlotType DEF Commit, TypeOK, NoFault, world
<1>8. CASE RefreshStops(a)
  <2>1. group' \in [Claims -> Groups]
    BY <1>8, RegroupedType DEF RefreshStops, GroupsIfDropped, TypeOK
  <2>2. Idle(a, "pick") /\ "pick" \in PCs
    BY <1>8 DEF RefreshStops, PCs
  <2>3. QED
    BY <1>8, <2>1, <2>2, IdleType, FaultCounts DEF RefreshStops, TypeOK, world
<1>9. CASE RenewalFails(a) \/ Crash(a) \/ AdvanceErrs(a) \/ Stop(a)
  <2>1. faults' \in Nat /\ UNCHANGED <<lease, world>>
    BY <1>9 DEF RenewalFails, Crash, AdvanceErrs, Stop, Fault, NoFault, TypeOK
  <2>2. PICK to \in PCs : DropWork(a, to)
    BY <1>9 DEF RenewalFails, Crash, AdvanceErrs, Stop, PCs
  <2>3. QED
    BY <2>1, <2>2, DropType
<1>10. QED
  BY <1>1, <1>2, <1>3, <1>4, <1>5, <1>6, <1>7, <1>8, <1>9 DEF AdvancerStep

\* Every step keeps the types.
LEMMA StepType == TypeOK /\ [Next]_vars => TypeOK'
<1>1. CASE UNCHANGED vars
  BY <1>1 DEF TypeOK, vars, db, world, process, ghosts
<1>2. CASE Next
  BY <1>2, AdvancerType, OutsideType DEF Next
<1>3. QED
  BY <1>1, <1>2

\* Every variable of the queue keeps its type, through every interleaving of
\* intake, advancers, janitor and operator.
THEOREM TypeCorrect == Spec => []TypeOK
BY InitType, StepType, PTL DEF Spec

--------------------------------------------------------------------------------
(* Open statements.                                                        *)

\* At first nothing is in hand.
LEMMA InitPicks == Init => PicksAreSound
BY DEF Init, PicksAreSound, RowsInHand, LastSlotServesAll

\* An advancer that drops or ends its statement leaves the others alone, as long
\* as their rows stay QUEUED.
LEMMA PicksAfterIdle ==
    ASSUME TypeOK, PicksAreSound, NEW a \in Advancers,
           hand' = [hand EXCEPT ![a] = {}],
           witness' = [witness EXCEPT ![a] = {}],
           \E to \in PCs \ {"commit"} : pc' = [pc EXCEPT ![a] = to],
           \A c \in Claims : row[c] = "QUEUED" /\ c \notin hand[a] => row'[c] = "QUEUED"
    PROVE  PicksAreSound'
<1>1. RowsInHand'
  <2>1. ASSUME NEW b \in Advancers, NEW c \in hand'[b] PROVE c \in Queued'
    <3>1. b # a /\ c \in hand[b]
      BY <2>1 DEF TypeOK
    <3>2. c \in Queued /\ c \notin hand[a]
      BY <3>1 DEF PicksAreSound, RowsInHand
    <3>3. QED
      BY <3>2 DEF Queued
  <2>2. ASSUME NEW b \in Advancers, NEW d \in Advancers, b # d
        PROVE  (hand[b] \cap hand[d] = {})'
    BY <2>2 DEF TypeOK, PicksAreSound, RowsInHand
  <2>3. QED
    BY <2>1, <2>2 DEF RowsInHand
<1>2. LastSlotServesAll'
  BY DEF TypeOK, PicksAreSound, LastSlotServesAll
<1>3. QED
  BY <1>1, <1>2 DEF PicksAreSound

\* Steps that neither pick nor end a statement.
LEMMA PicksFrame ==
    ASSUME TypeOK, PicksAreSound, UNCHANGED <<hand, witness>>,
           \A a \in Advancers : (pc[a] = "commit") = (pc'[a] = "commit"),
           \A c \in Claims : row[c] = "QUEUED" /\ c \in Held => row'[c] = "QUEUED"
    PROVE  PicksAreSound'
<1>1. RowsInHand'
  BY DEF PicksAreSound, RowsInHand, Queued, Held, TypeOK
<1>2. LastSlotServesAll'
  BY DEF PicksAreSound, LastSlotServesAll
<1>3. QED
  BY <1>1, <1>2 DEF PicksAreSound

\* A pick takes a queued claim that nobody holds; the last slot takes the earliest.
LEMMA PicksAfterPick ==
    ASSUME TypeOK, PicksAreSound, NEW a \in Advancers, Pick(a)
    PROVE  PicksAreSound'
<1>1. PICK h \in First(Eligible(slot[a])) : hand' = [hand EXCEPT ![a] = {h}]
  BY DEF Pick
<1>2. h \in Queued /\ h \notin Held /\ h \in Claims
  BY DEF First, Eligible, Queued
<1>3. /\ witness' = [witness EXCEPT ![a] = Chooses(a)]
      /\ pc' = [pc EXCEPT ![a] = "commit"]
      /\ UNCHANGED row
  BY DEF Pick, db
<1>4. hand'[a] = {h} /\ \A b \in Advancers : b # a => hand'[b] = hand[b]
  BY <1>1 DEF TypeOK
<1>5. \A b \in Advancers : h \notin hand[b]
  BY <1>2 DEF Held
<1>6. RowsInHand'
  <2>1. \A b \in Advancers : hand'[b] \subseteq Queued'
    BY <1>2, <1>3, <1>4 DEF PicksAreSound, RowsInHand, Queued
  <2>2. \A b, d \in Advancers : b # d => hand'[b] \cap hand'[d] = {}
    BY <1>4, <1>5 DEF PicksAreSound, RowsInHand
  <2>3. QED
    BY <2>1, <2>2 DEF RowsInHand
<1>7. \A c \in Chooses(a) : h <= c
  <2>1. SUFFICES ASSUME NEW c \in Chooses(a) PROVE h <= c
    OBVIOUS
  <2>2. slot[a] = 4 /\ Held = {} /\ c \in Queued
    BY <2>1 DEF Chooses, SlotsPerIteration
  <2>3. group[c] >= MinGroup(slot[a])
    <3>1. c \in Claims /\ group \in [Claims -> 1..4]
      BY <2>2 DEF Queued, TypeOK, Groups
    <3>2. QED
      BY <2>2, <3>1 DEF MinGroup
  <2>4. c \in Eligible(slot[a])
    BY <2>2, <2>3 DEF Eligible
  <2>5. QED
    BY <2>4, <1>1 DEF First
<1>8. LastSlotServesAll'
  <2>1. SUFFICES ASSUME NEW b \in Advancers
                 PROVE  /\ pc'[b] # "commit" => hand'[b] = {} /\ witness'[b] = {}
                        /\ pc'[b] = "commit" => \E g \in Claims : hand'[b] = {g}
                        /\ \A c \in witness'[b], g \in hand'[b] : g <= c
    BY DEF LastSlotServesAll
  <2>2. CASE b = a
    BY <1>2, <1>3, <1>4, <1>7, <2>2 DEF TypeOK
  <2>3. CASE b # a
    BY <1>3, <1>4, <2>3 DEF TypeOK, PicksAreSound, LastSlotServesAll
  <2>4. QED
    BY <2>2, <2>3
<1>9. QED
  BY <1>6, <1>8 DEF PicksAreSound

\* A statement that is dropped gives its rows back.
LEMMA PicksAfterDrop ==
    ASSUME TypeOK, PicksAreSound, NEW a \in Advancers, NEW to \in PCs \ {"commit"},
           DropWork(a, to)
    PROVE  PicksAreSound'
<1>1. /\ hand' = [hand EXCEPT ![a] = {}]
      /\ witness' = [witness EXCEPT ![a] = {}]
      /\ pc' = [pc EXCEPT ![a] = to]
  BY DEF DropWork, Idle
<1>2. \A c \in Claims : row[c] = "QUEUED" /\ c \notin hand[a] => row'[c] = "QUEUED"
  BY DEF DropWork, Promoted
<1>3. QED
  BY <1>1, <1>2, PicksAfterIdle

\* A slot that is over, committed or skipped, leaves nothing in hand.
LEMMA PicksAfterSlot ==
    ASSUME TypeOK, PicksAreSound, NEW a \in Advancers, SkipSlot(a) \/ Commit(a)
    PROVE  PicksAreSound'
<1>1. NextSlot(a)
  BY DEF SkipSlot, Commit
<1>2. /\ hand' = [hand EXCEPT ![a] = {}]
      /\ witness' = [witness EXCEPT ![a] = {}]
      /\ \E to \in PCs \ {"commit"} : pc' = [pc EXCEPT ![a] = to]
  BY <1>1 DEF NextSlot, Idle, PCs
<1>3. \A c \in Claims : row[c] = "QUEUED" /\ c \notin hand[a] => row'[c] = "QUEUED"
  BY DEF SkipSlot, Commit, Promoted, db
<1>4. QED
  BY <1>2, <1>3, PicksAfterIdle

\* No step of an advancer spoils what another has in hand.
LEMMA AdvancerPicks ==
    ASSUME TypeOK, PicksAreSound, NEW a \in Advancers,
           \/ AdvancerStep(a) \/ RenewalFails(a) \/ RefreshStops(a)
           \/ AdvanceErrs(a) \/ Crash(a) \/ Stop(a)
    PROVE  PicksAreSound'
<1>1. CASE TryAcquire(a) \/ Read(a) \/ Update(a)
  <2>1. UNCHANGED <<hand, witness, row>>
    BY <1>1 DEF TryAcquire, Read, ReadBalance, Update, UpdateGroup, ghosts, db
  <2>2. \E to \in PCs \ {"commit"} : pc[a] # "commit" /\ pc' \in {pc, [pc EXCEPT ![a] = to]}
    BY <1>1 DEF TryAcquire, Read, ReadBalance, Update, UpdateGroup, PCs
  <2>3. \A b \in Advancers : (pc[b] = "commit") = (pc'[b] = "commit")
    BY <2>2 DEF TypeOK
  <2>4. QED
    BY <2>1, <2>3, PicksFrame
<1>2. CASE Renew(a)
  <2>1. CASE LeaseHeld(a)
    <3>1. UNCHANGED <<hand, witness, row>> /\ pc' = [pc EXCEPT ![a] = "read"] /\ pc[a] = "sleep"
      BY <1>2, <2>1 DEF Renew, ghosts, db
    <3>2. \A b \in Advancers : (pc[b] = "commit") = (pc'[b] = "commit")
      BY <3>1 DEF TypeOK
    <3>3. QED
      BY <3>1, <3>2, PicksFrame
  <2>2. CASE ~LeaseHeld(a)
    <3>1. /\ hand' = [hand EXCEPT ![a] = {}]
          /\ witness' = [witness EXCEPT ![a] = {}]
          /\ pc' = [pc EXCEPT ![a] = "acquire"]
          /\ UNCHANGED row
      BY <1>2, <2>2 DEF Renew, Idle, db
    <3>2. "acquire" \in PCs \ {"commit"}
      BY DEF PCs
    <3>3. QED
      BY <3>1, <3>2, PicksAfterIdle
  <2>3. QED
    BY <2>1, <2>2
<1>3. CASE Pick(a)
  BY <1>3, PicksAfterPick
<1>4. CASE SkipSlot(a) \/ Commit(a)
  BY <1>4, PicksAfterSlot
<1>5. CASE RefreshStops(a)
  <2>1. /\ hand' = [hand EXCEPT ![a] = {}]
        /\ witness' = [witness EXCEPT ![a] = {}]
        /\ pc' = [pc EXCEPT ![a] = "pick"]
        /\ UNCHANGED row
    BY <1>5 DEF RefreshStops, Idle
  <2>2. "pick" \in PCs \ {"commit"}
    BY DEF PCs
  <2>3. QED
    BY <2>1, <2>2, PicksAfterIdle
<1>6. CASE RenewalFails(a) \/ Crash(a) \/ AdvanceErrs(a) \/ Stop(a)
  <2>1. PICK to \in PCs \ {"commit"} : DropWork(a, to)
    BY <1>6 DEF RenewalFails, Crash, AdvanceErrs, Stop, PCs
  <2>2. QED
    BY <2>1, PicksAfterDrop
<1>7. QED
  BY <1>1, <1>2, <1>3, <1>4, <1>5, <1>6 DEF AdvancerStep

\* Nor does intake, the writer, the lease or the operator.
LEMMA OutsidePicks ==
    ASSUME TypeOK, PicksAreSound,
           \/ \E c \in Claims : \/ IntakeGroup(c) \/ Enqueue(c)
                                \/ ReserveDirectly(c) \/ WriterTakes(c)
           \/ \E x \in Accounts : BalanceMoves(x)
           \/ LeaseExpires \/ GracePasses \/ Retire \/ Janitor
    PROVE  PicksAreSound'
<1>1. UNCHANGED <<hand, witness, pc>>
  BY DEF IntakeGroup, Enqueue, ReserveDirectly, WriterTakes, BalanceMoves, LeaseExpires,
         GracePasses, Retire, Janitor, process, ghosts
<1>2. \A c \in Claims : row[c] = "QUEUED" /\ c \in Held => row'[c] = "QUEUED"
  <2>1. CASE Janitor
    BY <2>1 DEF Janitor, Queued
  <2>2. CASE ~Janitor
    BY <2>2 DEF IntakeGroup, Enqueue, ReserveDirectly, WriterTakes, BalanceMoves,
                LeaseExpires, GracePasses, Retire, db, TypeOK
  <2>3. QED
    BY <2>1, <2>2
<1>3. QED
  BY <1>1, <1>2, PicksFrame

\* Every step keeps the picks sound.
LEMMA StepPicks == TypeOK /\ PicksAreSound /\ [Next]_vars => PicksAreSound'
<1>1. CASE UNCHANGED vars
  BY <1>1 DEF PicksAreSound, RowsInHand, LastSlotServesAll, Queued,
              vars, db, process, ghosts
<1>2. CASE Next
  BY <1>2, AdvancerPicks, OutsidePicks DEF Next
<1>3. QED
  BY <1>1, <1>2

\* Two open statements never hold the same row, and a held row stays QUEUED until
\* its own statement ends: what FOR UPDATE SKIP LOCKED is there for.
THEOREM PicksSound == Spec => []PicksAreSound
<1>1. Init => TypeOK /\ PicksAreSound
  BY InitType, InitPicks
<1>2. TypeOK /\ PicksAreSound /\ [Next]_vars => (TypeOK /\ PicksAreSound)'
  BY StepType, StepPicks
<1>3. QED
  BY <1>1, <1>2, PTL DEF Spec

--------------------------------------------------------------------------------
(* A row is promoted once.                                                 *)

\* What a step may do to the rows.
LEMMA RowStep ==
    ASSUME TypeOK, PicksAreSound, Next
    PROVE  \A c \in Claims : /\ row[c] = "TAKEN" => row'[c] = "TAKEN"
                             /\ c \in Left => c \in Left'
<1>1. ASSUME NEW S \in SUBSET Queued, row' = Promoted(S)
      PROVE  \A c \in Claims : /\ row[c] = "TAKEN" => row'[c] = "TAKEN"
                               /\ c \in Left => c \in Left'
  BY <1>1 DEF Promoted, Queued, Left
<1>2. ASSUME UNCHANGED row
      PROVE  \A c \in Claims : /\ row[c] = "TAKEN" => row'[c] = "TAKEN"
                               /\ c \in Left => c \in Left'
  BY <1>2 DEF Left
<1>3. ASSUME NEW a \in Advancers,
             \/ AdvancerStep(a) \/ RenewalFails(a) \/ RefreshStops(a)
             \/ AdvanceErrs(a) \/ Crash(a) \/ Stop(a)
      PROVE  UNCHANGED row \/ \E S \in SUBSET Queued : row' = Promoted(S)
  <2>1. hand[a] \subseteq Queued
    BY DEF PicksAreSound, RowsInHand
  <2>2. CASE DropWork(a, "acquire") \/ DropWork(a, "sleep") \/ DropWork(a, "stopped")
    <3>1. PICK S \in {{}, hand[a]} : row' = Promoted(S)
      BY <2>2 DEF DropWork
    <3>2. S \in SUBSET Queued
      BY <2>1
    <3>3. QED
      BY <3>1, <3>2
  <2>3. CASE Commit(a)
    BY <2>1, <2>3 DEF Commit
  <2>4. CASE \/ TryAcquire(a) \/ Renew(a) \/ Read(a) \/ Update(a) \/ Pick(a)
             \/ SkipSlot(a) \/ RefreshStops(a)
    BY <2>4 DEF TryAcquire, Renew, Read, Update, UpdateGroup, Pick, SkipSlot, RefreshStops, db
  <2>5. QED
    BY <1>3, <2>2, <2>3, <2>4 DEF AdvancerStep, RenewalFails, Crash, AdvanceErrs, Stop
<1>4. ASSUME NEW d \in Claims, IntakeGroup(d) \/ Enqueue(d) \/ ReserveDirectly(d) \/ WriterTakes(d)
      PROVE  \A c \in Claims : /\ row[c] = "TAKEN" => row'[c] = "TAKEN"
                               /\ c \in Left => c \in Left'
  BY <1>4 DEF IntakeGroup, Enqueue, ReserveDirectly, WriterTakes, Left, TypeOK
<1>5. ASSUME \/ \E x \in Accounts : BalanceMoves(x)
             \/ LeaseExpires \/ GracePasses \/ Retire
      PROVE  UNCHANGED row
  BY <1>5 DEF BalanceMoves, LeaseExpires, GracePasses, Retire, db
<1>6. CASE Janitor
  BY <1>1, <1>6 DEF Janitor
<1>7. CASE \E a \in Advancers : \/ AdvancerStep(a) \/ RenewalFails(a) \/ RefreshStops(a)
                                \/ AdvanceErrs(a) \/ Crash(a) \/ Stop(a)
  BY <1>1, <1>2, <1>3, <1>7
<1>8. QED
  BY <1>2, <1>4, <1>5, <1>6, <1>7 DEF Next

\* A promotion never touches a row the chain writer has taken, although the
\* UPDATE does not look at its status.
THEOREM PromotionOnce == Spec => PromotedOnce
<1>1. TypeOK /\ PicksAreSound /\ [Next]_vars
      => [\A c \in Claims : row[c] = "TAKEN" => row'[c] = "TAKEN"]_vars
  BY RowStep
<1>2. QED
  BY <1>1, TypeCorrect, PicksSound, PTL DEF Spec, PromotedOnce

--------------------------------------------------------------------------------
(* No claim starves.                                                       *)

\* The claims before c that have left the queue.
EarlierOut(c) == {d \in Left : d < c}

\* There are finitely many of them.
LEMMA EarlierOutFinite == \A c \in Claims : IsFiniteSet(EarlierOut(c))
<1>1. \A c \in Claims : EarlierOut(c) \subseteq Claims
  BY DEF EarlierOut, Left
<1>2. QED
  BY <1>1, ClaimsAssumption, FS_Subset

\* Leaving is for good, so the count never falls.
LEMMA EarlierOutGrows ==
    ASSUME TypeOK, PicksAreSound, Next, NEW c \in Claims
    PROVE  /\ IsFiniteSet(EarlierOut(c)) /\ IsFiniteSet(EarlierOut(c)')
           /\ EarlierOut(c) \subseteq EarlierOut(c)'
           /\ Cardinality(EarlierOut(c)) \in Nat /\ Cardinality(EarlierOut(c)') \in Nat
           /\ Cardinality(EarlierOut(c)) <= Cardinality(EarlierOut(c)')
<1>1. EarlierOut(c) \subseteq EarlierOut(c)'
  BY RowStep DEF EarlierOut, Left
<1>2. EarlierOut(c)' \subseteq Claims
  BY DEF EarlierOut, Left
<1>3. IsFiniteSet(EarlierOut(c)')
  BY <1>2, ClaimsAssumption, FS_Subset
<1>4. QED
  BY <1>1, <1>3, FS_Subset, FS_CardinalityType

\* Only the commit of a last slot passes anybody over.
LEMMA PassedStep ==
    ASSUME TypeOK, Next
    PROVE  UNCHANGED passed \/ \E a \in Advancers : Commit(a)
BY DEF Next, AdvancerStep, TryAcquire, Renew, Read, Update, UpdateGroup, Pick, SkipSlot,
       RenewalFails, RefreshStops, AdvanceErrs, Crash, Stop, DropWork, IntakeGroup, Enqueue,
       ReserveDirectly, WriterTakes, BalanceMoves, LeaseExpires, GracePasses, Retire, Janitor,
       ghosts

\* A commit that passes a claim over lets an earlier one out: it is the last slot's,
\* which picks the earliest.
LEMMA CommitLetsOut ==
    ASSUME TypeOK, PicksAreSound, Next, NEW a \in Advancers, Commit(a),
           NEW c \in witness[a] \ hand[a]
    PROVE  Cardinality(EarlierOut(c)) + 1 <= Cardinality(EarlierOut(c)')
<1>1. PICK h \in Claims : hand[a] = {h}
  BY DEF PicksAreSound, LastSlotServesAll, Commit
<1>2. c \in Claims
  BY DEF TypeOK
<1>3. h < c
  <2>1. h <= c /\ h # c
    BY <1>1 DEF PicksAreSound, LastSlotServesAll
  <2>2. QED
    BY <1>2, <2>1, ClaimsAssumption
<1>4. h \notin EarlierOut(c)
  BY <1>1 DEF PicksAreSound, RowsInHand, Queued, EarlierOut, Left
<1>5. h \in EarlierOut(c)'
  BY <1>1, <1>3 DEF Commit, Promoted, EarlierOut, Left
<1>6. /\ IsFiniteSet(EarlierOut(c)) /\ IsFiniteSet(EarlierOut(c)')
      /\ EarlierOut(c) \subseteq EarlierOut(c)'
  BY <1>2, EarlierOutGrows
<1>7. Cardinality(EarlierOut(c) \cup {h}) = Cardinality(EarlierOut(c)) + 1
  BY <1>4, <1>6, FS_AddElement
<1>8. Cardinality(EarlierOut(c) \cup {h}) <= Cardinality(EarlierOut(c)')
  BY <1>5, <1>6, FS_Subset
<1>9. QED
  BY <1>7, <1>8

\* Hence the bound on the waiting survives every step.
LEMMA StepWait == TypeOK /\ PicksAreSound /\ BoundedWait /\ [Next]_vars => BoundedWait'
<1>1. CASE UNCHANGED vars
  BY <1>1 DEF BoundedWait, Left, vars, db, ghosts
<1>2. ASSUME TypeOK, PicksAreSound, BoundedWait, Next PROVE BoundedWait'
  <2>1. SUFFICES ASSUME NEW c \in Claims
                 PROVE  passed'[c] <= Cardinality(EarlierOut(c)')
    BY DEF BoundedWait, EarlierOut
  <2>2. passed[c] <= Cardinality(EarlierOut(c)) /\ passed[c] \in Nat
    BY <1>2 DEF BoundedWait, EarlierOut, TypeOK
  <2>3. /\ Cardinality(EarlierOut(c)) \in Nat /\ Cardinality(EarlierOut(c)') \in Nat
        /\ Cardinality(EarlierOut(c)) <= Cardinality(EarlierOut(c)')
    BY <1>2, EarlierOutGrows
  <2>4. CASE passed'[c] = passed[c]
    BY <2>2, <2>3, <2>4
  <2>5. ASSUME NEW a \in Advancers, Commit(a), passed'[c] # passed[c]
        PROVE  passed'[c] <= Cardinality(EarlierOut(c)')
    <3>1. c \in witness[a] \ hand[a] /\ passed'[c] = passed[c] + 1
      BY <2>5 DEF Commit
    <3>2. Cardinality(EarlierOut(c)) + 1 <= Cardinality(EarlierOut(c)')
      BY <1>2, <2>5, <3>1, CommitLetsOut
    <3>3. QED
      BY <2>2, <2>3, <3>1, <3>2
  <2>6. QED
    BY <1>2, <2>4, <2>5, PassedStep
<1>3. QED
  BY <1>1, <1>2

\* At first nobody has been passed over.
LEMMA InitWait == Init => BoundedWait
<1>1. SUFFICES ASSUME Init, NEW c \in Claims
               PROVE  passed[c] <= Cardinality(EarlierOut(c))
  BY DEF BoundedWait, EarlierOut
<1>2. passed[c] = 0
  BY <1>1 DEF Init
<1>3. Cardinality(EarlierOut(c)) \in Nat
  BY EarlierOutFinite, FS_CardinalityType
<1>4. QED
  BY <1>2, <1>3

\* Nobody starves: an iteration that passes a claim over has let an earlier one
\* out, for any number of claims, whatever their groups.
THEOREM NobodyStarves == Spec => []BoundedWait
<1>1. Init => TypeOK /\ PicksAreSound /\ BoundedWait
  BY InitType, InitPicks, InitWait
<1>2. TypeOK /\ PicksAreSound /\ BoundedWait /\ [Next]_vars
      => (TypeOK /\ PicksAreSound /\ BoundedWait)'
  BY StepType, StepPicks, StepWait
<1>3. QED
  BY <1>1, <1>2, PTL DEF Spec

--------------------------------------------------------------------------------
(* Nobody is demoted by a failure.                                         *)

\* While no balance has moved, a group is at most what the balance is worth, and
\* what a refresh has read is exactly that.
Worth(x) == GroupForBalance(balance[x])
GroupsAreEarned ==
    moves = 0 => /\ \A c \in Claims : group[c] <= Worth(Account[c])
                 /\ \A a \in Advancers, x \in Accounts : fresh[a][x] \in {0, Worth(x)}

\* The worth of an account is a group.
LEMMA WorthType == ASSUME TypeOK, NEW x \in Accounts PROVE Worth(x) \in Groups
<1>1. balance[x] \in Nat
  BY QueueBounds DEF TypeOK
<1>2. QED
  BY <1>1, GroupType DEF Worth

\* At first every claim is in the lowest group.
LEMMA InitEarned == Init => GroupsAreEarned
<1>1. SUFFICES ASSUME Init PROVE GroupsAreEarned
  OBVIOUS
<1>2. TypeOK
  BY <1>1, InitType
<1>3. ASSUME NEW c \in Claims PROVE group[c] <= Worth(Account[c])
  <2>1. Worth(Account[c]) \in Groups
    BY <1>2, WorthType DEF Accounts
  <2>2. QED
    BY <1>1, <2>1 DEF Init, Groups
<1>4. \A a \in Advancers, x \in Accounts : fresh[a][x] = 0
  BY <1>1 DEF Init, NoReads
<1>5. QED
  BY <1>3, <1>4 DEF GroupsAreEarned

\* What a step may do to groups and reads: intake assigns 1 or what the balance
\* is worth, a refresh reads what it is worth and writes what it has read.
IntakeMoves == \E c \in Claims : /\ row[c] = "NONE"
                                 /\ \/ group' = [group EXCEPT ![c] = Worth(Account[c])]
                                    \/ group' = [group EXCEPT ![c] = 1]
RefreshMoves == \E a \in Advancers : \E x \in Unwritten(a) : group' = Regrouped(a, x)
ReadsMove == \/ \E a \in Advancers : fresh' = [fresh EXCEPT ![a] = NoReads]
             \/ \E a \in Advancers, x \in Accounts :
                  \/ fresh' = [fresh EXCEPT ![a][x] = Worth(x)]
                  \/ fresh' = [fresh EXCEPT ![a][x] = 0]
GroupMoves == /\ UNCHANGED group \/ IntakeMoves \/ RefreshMoves
              /\ UNCHANGED fresh \/ ReadsMove
              /\ UNCHANGED <<balance, moves>> \/ (moves' # 0 /\ UNCHANGED group)

\* No step changes groups, values read or balances otherwise.
LEMMA GroupStep == ASSUME TypeOK, Next PROVE GroupMoves
<1>1. ASSUME NEW a \in Advancers,
             RenewalFails(a) \/ RefreshStops(a) \/ AdvanceErrs(a) \/ Crash(a) \/ Stop(a)
      PROVE  GroupMoves
  <2>1. UNCHANGED <<balance, moves>> /\ group' \in GroupsIfDropped(a) /\ \E to \in PCs : Idle(a, to)
    BY <1>1 DEF RenewalFails, RefreshStops, AdvanceErrs, Crash, Stop, DropWork, world, PCs
  <2>2. UNCHANGED group \/ RefreshMoves
    BY <2>1 DEF GroupsIfDropped, RefreshMoves
  <2>3. ReadsMove
    BY <2>1 DEF Idle, ReadsMove
  <2>4. QED
    BY <2>1, <2>2, <2>3 DEF GroupMoves
<1>2. ASSUME NEW a \in Advancers,
             TryAcquire(a) \/ Renew(a) \/ Pick(a) \/ SkipSlot(a) \/ Commit(a)
      PROVE  GroupMoves
  <2>1. /\ UNCHANGED <<group, balance, moves>>
        /\ UNCHANGED fresh \/ fresh' = [fresh EXCEPT ![a] = NoReads]
    BY <1>2 DEF TryAcquire, Renew, Pick, SkipSlot, Commit, NextSlot, Idle, db, world
  <2>2. QED
    BY <2>1 DEF GroupMoves, ReadsMove
<1>3. ASSUME NEW a \in Advancers, Read(a) PROVE GroupMoves
  <2>1. unread[a] \subseteq Accounts
    BY DEF TypeOK
  <2>2. /\ UNCHANGED <<group, balance, moves>>
        /\ UNCHANGED fresh \/ \E x \in Accounts : fresh' = [fresh EXCEPT ![a][x] = Worth(x)]
    BY <1>3, <2>1 DEF Read, ReadBalance, Worth, db, world
  <2>3. QED
    BY <2>2 DEF GroupMoves, ReadsMove
<1>4. ASSUME NEW a \in Advancers, Update(a) PROVE GroupMoves
  <2>1. CASE UpdateGroup(a)
    <3>1. PICK x \in Unwritten(a) : /\ group' = Regrouped(a, x)
                                    /\ fresh' = [fresh EXCEPT ![a][x] = 0]
      BY <2>1 DEF UpdateGroup
    <3>2. x \in Accounts /\ UNCHANGED <<balance, moves>>
      BY <1>4 DEF Unwritten, Update, world
    <3>3. RefreshMoves /\ ReadsMove
      BY <3>1, <3>2 DEF RefreshMoves, ReadsMove
    <3>4. QED
      BY <3>2, <3>3 DEF GroupMoves
  <2>2. CASE ~UpdateGroup(a)
    BY <1>4, <2>2 DEF Update, GroupMoves, db, world
  <2>3. QED
    BY <2>1, <2>2
<1>5. ASSUME NEW c \in Claims, IntakeGroup(c) PROVE GroupMoves
  <2>1. IntakeMoves /\ UNCHANGED <<fresh, balance, moves>>
    BY <1>5 DEF IntakeGroup, IntakeMoves, Worth, process, world
  <2>2. QED
    BY <2>1 DEF GroupMoves
<1>6. ASSUME \/ \E c \in Claims : Enqueue(c) \/ ReserveDirectly(c) \/ WriterTakes(c)
             \/ LeaseExpires \/ GracePasses \/ Retire \/ Janitor
      PROVE  GroupMoves
  <2>1. UNCHANGED <<group, fresh, balance, moves>>
    BY <1>6 DEF Enqueue, ReserveDirectly, WriterTakes, LeaseExpires, GracePasses, Retire,
                Janitor, db, world, process
  <2>2. QED
    BY <2>1 DEF GroupMoves
<1>7. ASSUME NEW x \in Accounts, BalanceMoves(x) PROVE GroupMoves
  BY <1>7 DEF BalanceMoves, db, process, TypeOK, GroupMoves
<1>8. QED
  BY <1>1, <1>2, <1>3, <1>4, <1>5, <1>6, <1>7 DEF Next, AdvancerStep

\* A refresh writes nothing below the group it replaces.
LEMMA RegroupedUp ==
    ASSUME TypeOK, GroupsAreEarned, moves = 0, NEW a \in Advancers, NEW x \in Unwritten(a),
           NEW c \in Claims
    PROVE  /\ Regrouped(a, x)[c] >= group[c]
           /\ Regrouped(a, x)[c] <= Worth(Account[c])
<1>1. /\ group[c] <= Worth(Account[c])
      /\ fresh[a][x] = Worth(x)
      /\ x \in Accounts
  BY DEF GroupsAreEarned, Unwritten
<1>2. group[c] \in Nat /\ Worth(Account[c]) \in Nat
  <2>1. Account[c] \in Accounts
    BY DEF Accounts
  <2>2. Worth(Account[c]) \in Groups /\ group[c] \in Groups
    BY <2>1, WorthType DEF TypeOK
  <2>3. QED
    BY <2>2 DEF Groups
<1>3. Regrouped(a, x)[c] \in {Worth(Account[c]), group[c]}
  <2>1. CASE Account[c] = x
    BY <1>1, <2>1 DEF Regrouped
  <2>2. CASE Account[c] # x
    BY <2>2 DEF Regrouped
  <2>3. QED
    BY <2>1, <2>2
<1>4. QED
  BY <1>1, <1>2, <1>3

\* Groups stay earned until a balance moves.
LEMMA StepEarned == TypeOK /\ GroupsAreEarned /\ [Next]_vars => GroupsAreEarned'
<1>1. CASE UNCHANGED vars
  BY <1>1 DEF GroupsAreEarned, Worth, vars, db, world, process
<1>2. ASSUME TypeOK, GroupsAreEarned, Next, moves' = 0
      PROVE  /\ \A c \in Claims : group'[c] <= Worth(Account[c])'
             /\ \A a \in Advancers, x \in Accounts : fresh'[a][x] \in {0, Worth(x)'}
  <2>0. GroupMoves
    BY <1>2, GroupStep
  <2>1. UNCHANGED <<balance, moves>>
    BY <1>2, <2>0 DEF GroupMoves
  <2>2. moves = 0 /\ \A x \in Accounts : Worth(x)' = Worth(x)
    BY <1>2, <2>1 DEF Worth
  <2>3. ASSUME NEW c \in Claims PROVE group'[c] <= Worth(Account[c])'
    <3>1. Account[c] \in Accounts /\ Worth(Account[c]) \in Groups /\ group[c] \in Groups
      <4>1. Account[c] \in Accounts
        BY DEF Accounts
      <4>2. QED
        BY <1>2, <4>1, WorthType DEF TypeOK
    <3>2. group[c] <= Worth(Account[c])
      BY <1>2, <2>2 DEF GroupsAreEarned
    <3>3. CASE IntakeMoves
      <4>1. PICK d \in Claims : \/ group' = [group EXCEPT ![d] = Worth(Account[d])]
                               \/ group' = [group EXCEPT ![d] = 1]
        BY <3>3 DEF IntakeMoves
      <4>2. group'[c] \in {Worth(Account[c]), 1, group[c]}
        BY <1>2, <4>1 DEF TypeOK
      <4>3. QED
        BY <2>2, <3>1, <3>2, <4>2 DEF Groups
    <3>4. CASE RefreshMoves
      <4>1. PICK a \in Advancers : \E x \in Unwritten(a) : group' = Regrouped(a, x)
        BY <3>4 DEF RefreshMoves
      <4>2. group'[c] <= Worth(Account[c])
        BY <1>2, <2>2, <4>1, RegroupedUp
      <4>3. QED
        BY <2>2, <3>1, <4>2
    <3>5. CASE UNCHANGED group
      BY <2>2, <3>1, <3>2, <3>5
    <3>6. QED
      BY <2>0, <3>3, <3>4, <3>5 DEF GroupMoves
  <2>4. ASSUME NEW a \in Advancers, NEW x \in Accounts PROVE fresh'[a][x] \in {0, Worth(x)'}
    <3>1. fresh[a][x] \in {0, Worth(x)} /\ fresh \in [Advancers -> [Accounts -> 0..4]]
      BY <1>2, <2>2 DEF GroupsAreEarned, TypeOK
    <3>2. CASE \E b \in Advancers : fresh' = [fresh EXCEPT ![b] = NoReads]
      BY <2>2, <3>1, <3>2 DEF NoReads
    <3>3. CASE \E b \in Advancers, y \in Accounts :
                 \/ fresh' = [fresh EXCEPT ![b][y] = Worth(y)]
                 \/ fresh' = [fresh EXCEPT ![b][y] = 0]
      BY <2>2, <3>1, <3>3
    <3>4. CASE UNCHANGED fresh
      BY <2>2, <3>1, <3>4
    <3>5. QED
      BY <2>0, <3>2, <3>3, <3>4 DEF GroupMoves, ReadsMove
  <2>5. QED
    BY <2>3, <2>4
<1>3. QED
  BY <1>1, <1>2 DEF GroupsAreEarned

\* Until a balance moves no waiting claim loses its group, whichever reads fail
\* and wherever a refresh stops.
THEOREM NobodyDemoted == Spec => NeverDemoted
<1>1. TypeOK /\ GroupsAreEarned /\ [Next]_vars
      => [moves = 0 => \A c \in Queued : group'[c] >= group[c]]_vars
  <2>1. SUFFICES ASSUME TypeOK, GroupsAreEarned, Next, moves = 0, NEW c \in Queued
                 PROVE  group'[c] >= group[c]
    OBVIOUS
  <2>2. c \in Claims /\ row[c] = "QUEUED" /\ group[c] \in Nat
    <3>1. c \in Claims /\ row[c] = "QUEUED"
      BY <2>1 DEF Queued
    <3>2. group \in [Claims -> 1..4]
      BY <2>1 DEF TypeOK, Groups
    <3>3. QED
      BY <3>1, <3>2
  <2>3. CASE RefreshMoves
    <3>1. PICK a \in Advancers : \E x \in Unwritten(a) : group' = Regrouped(a, x)
      BY <2>3 DEF RefreshMoves
    <3>2. QED
      BY <2>1, <2>2, <3>1, RegroupedUp
  <2>4. CASE IntakeMoves
    <3>1. PICK d \in Claims : /\ row[d] = "NONE"
                             /\ \/ group' = [group EXCEPT ![d] = Worth(Account[d])]
                                \/ group' = [group EXCEPT ![d] = 1]
      BY <2>4 DEF IntakeMoves
    <3>2. c # d /\ group'[c] = group[c]
      BY <2>1, <2>2, <3>1 DEF TypeOK
    <3>3. QED
      BY <2>2, <3>2
  <2>5. CASE UNCHANGED group
    BY <2>2, <2>5
  <2>6. QED
    BY <2>1, <2>3, <2>4, <2>5, GroupStep DEF GroupMoves
<1>2. Init => GroupsAreEarned
  BY InitEarned
<1>3. TypeOK /\ GroupsAreEarned /\ [Next]_vars => GroupsAreEarned'
  BY StepEarned
<1>4. QED
  BY <1>1, <1>2, <1>3, TypeCorrect, PTL DEF Spec, NeverDemoted

--------------------------------------------------------------------------------
(* The drain estimate.                                                     *)

\* A nonempty set of natural numbers has a least one: what is proved below about
\* every slot of the simulation is proved by its least counterexample.
LEMMA LeastOf ==
  ASSUME NEW T, T \subseteq Nat, T # {}
  PROVE  \E x \in T : \A y \in T : x <= y
<1> DEFINE R == OpToRel(<, Nat)
<1>1. IsWellFoundedOn(R, Nat)
  BY NatLessThanWellFounded, Zenon
<1>2. \A x, y \in Nat : <<y, x>> \in R <=> y < x
  BY DEF OpToRel
<1> HIDE DEF R
<1>3. PICK x \in T : \A y \in T : ~(<<y, x>> \in R)
  BY <1>1, WFMin
<1>4. ASSUME NEW y \in T PROVE x <= y
  <2>1. x \in Nat /\ y \in Nat
    OBVIOUS
  <2>2. ~(y < x)
    BY <1>2, <1>3, <2>1, Zenon
  <2>3. QED
    BY <2>1, <2>2
<1>5. QED
  BY <1>4

\* The earliest of a nonempty set of claims is one claim.
LEMMA FirstIs ==
  ASSUME NEW S, S \subseteq Claims, S # {}
  PROVE  \E h \in S : First(S) = {h}
<1>1. S \subseteq Nat
  BY ClaimsAssumption
<1>2. PICK h \in S : \A d \in S : h <= d
  BY <1>1, LeastOf
<1>3. First(S) = {h}
  <2>1. h \in First(S)
    BY <1>2 DEF First
  <2>2. ASSUME NEW c \in First(S) PROVE c = h
    <3>1. c \in S /\ c <= h /\ h <= c
      BY <1>2, <2>2 DEF First
    <3>2. c \in Nat /\ h \in Nat
      BY <1>1, <3>1
    <3>3. QED
      BY <3>1, <3>2
  <2>3. QED
    BY <2>1, <2>2
<1>4. QED
  BY <1>3

\* The claims of Z that slot k may serve.
Eligibles(Z, g, k) == {c \in Z : g[c] >= MinGroup(k)}

\* Looking at the head of every group serves the earliest claim of all of them.
LEMMA SimPickIs ==
  ASSUME NEW S, S \subseteq Claims, NEW g \in [Claims -> Groups], NEW k \in 1..4
  PROVE  SimPick(S, g, k) = First(Eligibles(S, g, k))
<1> DEFINE E == {c \in S : g[c] >= MinGroup(k)}
           H == {c \in S : /\ g[c] >= MinGroup(k)
                           /\ \A d \in S : g[d] = g[c] => c <= d}
<1>1. S \subseteq Nat
  BY ClaimsAssumption
<1>2. ASSUME NEW c \in First(E) PROVE c \in First(H)
  BY DEF First
<1>3. ASSUME NEW c \in First(H) PROVE c \in First(E)
  <2>1. c \in E
    BY DEF First
  <2>2. ASSUME NEW d \in E PROVE c <= d
    <3> DEFINE T == {x \in S : g[x] = g[d]}
    <3>1. T \subseteq Nat /\ d \in T
      BY <1>1
    <3>2. PICK e \in T : \A y \in T : e <= y
      BY <3>1, LeastOf
    <3>3. e \in H /\ e <= d
      BY <3>1, <3>2
    <3>4. c <= e
      BY <3>3 DEF First
    <3>5. c \in Nat /\ d \in Nat /\ e \in Nat
      BY <1>1, <2>1
    <3>6. QED
      BY <3>3, <3>4, <3>5
  <2>3. QED
    BY <2>1, <2>2 DEF First
<1>4. First(E) = First(H)
  BY <1>2, <1>3 DEF First
<1>5. QED
  BY <1>4 DEF SimPick, Eligibles

\* What a slot serves depends only on the groups of the claims it serves from.
LEMMA SimPickSame ==
  ASSUME NEW S, S \subseteq Claims, NEW g \in [Claims -> Groups], NEW h \in [Claims -> Groups],
         \A c \in S : g[c] = h[c], NEW k \in 1..4
  PROVE  SimPick(S, g, k) = SimPick(S, h, k)
<1>1. Eligibles(S, g, k) = Eligibles(S, h, k)
  BY DEF Eligibles
<1>2. QED
  BY <1>1, SimPickIs

\* The last slot serves every group.
LEMMA LastSlotPick ==
  ASSUME NEW S, S \subseteq Claims, NEW g \in [Claims -> Groups]
  PROVE  SimPick(S, g, 4) = First(S)
<1>1. Eligibles(S, g, 4) = S
  BY DEF Eligibles, MinGroup, Groups
<1>2. 4 \in 1..4
  OBVIOUS
<1>3. QED
  BY <1>1, <1>2, SimPickIs

\* What slot t of the simulation leaves of the claims Z before it.
Served(Z, g, t) == Z \ SimPick(Z, g, ((t - 1) % SlotsPerIteration) + 1)

\* The equation that the simulation's recursive function is chosen to satisfy,
\* over the slots up to n.
Simulates(f, S, g, n) ==
  f = [t \in 0..n |-> IF t = 0 THEN S ELSE Served(f[t - 1], g, t)]

\* A simulation can be run for one more slot.
LEMMA SimExtends ==
  ASSUME NEW S, NEW g, NEW n \in Nat, n # 0, NEW f, Simulates(f, S, g, n - 1)
  PROVE  \E h : Simulates(h, S, g, n)
<1>1. PICK h : h = [t \in 0..n |-> IF t = n THEN Served(f[n - 1], g, n) ELSE f[t]]
  OBVIOUS
<1>2. \A t \in 0..(n - 1) : f[t] = IF t = 0 THEN S ELSE Served(f[t - 1], g, t)
  BY DEF Simulates
<1>3. \A t \in 0..(n - 1) : h[t] = f[t]
  BY <1>1
<1>4. h[n] = Served(f[n - 1], g, n)
  BY <1>1
<1>5. ASSUME NEW t \in 0..n PROVE h[t] = IF t = 0 THEN S ELSE Served(h[t - 1], g, t)
  <2>1. CASE t = 0
    BY <1>2, <1>3, <2>1
  <2>2. CASE t = n
    <3>1. n - 1 \in 0..(n - 1)
      OBVIOUS
    <3>2. h[n - 1] = f[n - 1]
      BY <1>3, <3>1
    <3>3. QED
      BY <1>4, <2>2, <3>2
  <2>3. CASE t # 0 /\ t # n
    <3>1. t \in 0..(n - 1) /\ t - 1 \in 0..(n - 1)
      BY <2>3
    <3>2. QED
      BY <1>2, <1>3, <2>3, <3>1
  <2>4. QED
    BY <2>1, <2>2, <2>3
<1>6. h = [t \in 0..n |-> IF t = 0 THEN S ELSE Served(h[t - 1], g, t)]
  BY <1>1, <1>5
<1>7. QED
  BY <1>6 DEF Simulates

\* The recursion is well-founded: the simulation runs to any slot.
LEMMA SimExists ==
  ASSUME NEW S, NEW g
  PROVE  \A n \in Nat : \E f : Simulates(f, S, g, n)
<1> DEFINE T == {n \in Nat : ~ \E f : Simulates(f, S, g, n)}
<1>1. SUFFICES ASSUME T # {} PROVE FALSE
  OBVIOUS
<1>2. PICK n \in T : \A m \in T : n <= m
  BY <1>1, LeastOf
<1>3. CASE n = 0
  <2>1. Simulates([t \in 0..0 |-> S], S, g, 0)
    BY DEF Simulates
  <2>2. QED
    BY <1>3, <2>1
<1>4. CASE n # 0
  <2>1. n - 1 \in Nat /\ ~(n <= n - 1)
    BY <1>4
  <2>2. n - 1 \notin T
    BY <1>2, <2>1
  <2>3. \E f : Simulates(f, S, g, n - 1)
    BY <2>1, <2>2
  <2>4. QED
    BY <1>4, <2>3, SimExtends
<1>5. QED
  BY <1>3, <1>4

\* The function that SimLeft chooses is the simulation.
LEMMA SimIs ==
  ASSUME NEW S, NEW g, Cardinality(S) \in Nat
  PROVE  Simulates(SimLeft(S, g), S, g, SlotsPerIteration * Cardinality(S))
<1>1. \E f : Simulates(f, S, g, SlotsPerIteration * Cardinality(S))
  <2>1. SlotsPerIteration * Cardinality(S) \in Nat
    BY DEF SlotsPerIteration
  <2>2. QED
    BY <2>1, SimExists
<1>2. SimLeft(S, g) = CHOOSE f : Simulates(f, S, g, SlotsPerIteration * Cardinality(S))
  BY DEF SimLeft, Simulates, Served
<1>3. QED
  BY <1>1, <1>2, Zenon

\* The slots of the simulation of an iteration after another.
Slots(S) == 0..(4 * Cardinality(S))

\* The simulation, slot by slot: every slot leaves a part of what it found.
LEMMA SimSteps ==
  ASSUME NEW S, S \subseteq Claims, NEW g \in [Claims -> Groups]
  PROVE  /\ Cardinality(S) \in Nat /\ IsFiniteSet(S)
         /\ SimLeft(S, g)[0] = S
         /\ \A t \in Slots(S) \ {0} :
              /\ t - 1 \in Slots(S)
              /\ SimLeft(S, g)[t] = Served(SimLeft(S, g)[t - 1], g, t)
<1>1. IsFiniteSet(S) /\ Cardinality(S) \in Nat
  BY ClaimsAssumption, FS_Subset, FS_CardinalityType
<1>2. PICK L : L = SimLeft(S, g)
  OBVIOUS
<1>3. Simulates(L, S, g, 4 * Cardinality(S))
  BY <1>1, <1>2, SimIs DEF SlotsPerIteration
<1>4. PICK n \in Nat : n = 4 * Cardinality(S)
  BY <1>1
<1>5. L = [t \in 0..n |-> IF t = 0 THEN S ELSE Served(L[t - 1], g, t)]
  BY <1>3, <1>4 DEF Simulates
<1>6. L[0] = S
  BY <1>5
<1>7. ASSUME NEW t \in (0..n) \ {0} PROVE t - 1 \in 0..n /\ L[t] = Served(L[t - 1], g, t)
  BY <1>5
<1>8. QED
  BY <1>1, <1>2, <1>4, <1>6, <1>7 DEF Slots

\* No claim comes back: a later slot finds no more than an earlier one.
LEMMA SimShrinks ==
  ASSUME NEW S, S \subseteq Claims, NEW g \in [Claims -> Groups], NEW u \in Slots(S)
  PROVE  \A t \in Slots(S) : u <= t => SimLeft(S, g)[t] \subseteq SimLeft(S, g)[u]
<1> DEFINE T == {t \in Slots(S) : u <= t /\ ~(SimLeft(S, g)[t] \subseteq SimLeft(S, g)[u])}
<1>1. SUFFICES ASSUME T # {} PROVE FALSE
  OBVIOUS
<1>2. Slots(S) \subseteq Nat
  BY DEF Slots
<1>3. PICK t \in T : \A y \in T : t <= y
  <2>1. T \subseteq Nat
    BY <1>2
  <2>2. QED
    BY <1>1, <2>1, LeastOf
<1>4. t \in Slots(S) /\ u <= t /\ t # u /\ t \in Nat /\ u \in Nat
  BY <1>2, <1>3
<1>5. t # 0 /\ u <= t - 1 /\ ~(t <= t - 1)
  BY <1>4
<1>6. t - 1 \in Slots(S) /\ SimLeft(S, g)[t] \subseteq SimLeft(S, g)[t - 1]
  BY <1>4, <1>5, SimSteps DEF Served
<1>7. t - 1 \notin T
  BY <1>3, <1>5
<1>8. SimLeft(S, g)[t - 1] \subseteq SimLeft(S, g)[u]
  BY <1>5, <1>6, <1>7
<1>9. QED
  BY <1>3, <1>6, <1>8

\* What a slot finds are claims of the snapshot.
LEMMA SimWithin ==
  ASSUME NEW S, S \subseteq Claims, NEW g \in [Claims -> Groups], NEW t \in Slots(S)
  PROVE  /\ SimLeft(S, g)[t] \subseteq S
         /\ IsFiniteSet(SimLeft(S, g)[t])
         /\ Cardinality(SimLeft(S, g)[t]) \in Nat
         /\ Cardinality(SimLeft(S, g)[t]) <= Cardinality(S)
<1>1. 0 \in Slots(S) /\ 0 <= t /\ SimLeft(S, g)[0] = S /\ IsFiniteSet(S)
  BY SimSteps DEF Slots
<1>2. SimLeft(S, g)[t] \subseteq S
  BY <1>1, SimShrinks
<1>3. QED
  BY <1>1, <1>2, FS_Subset, FS_CardinalityType

\* The last slot of an iteration always lets somebody out.
LEMMA SimLastSlot ==
  ASSUME NEW S, S \subseteq Claims, NEW g \in [Claims -> Groups],
         NEW t \in Slots(S), t % 4 = 0, t # 0,
         SimLeft(S, g)[t - 1] # {}
  PROVE  Cardinality(SimLeft(S, g)[t]) = Cardinality(SimLeft(S, g)[t - 1]) - 1
<1>1. PICK Z, Y : Z = SimLeft(S, g)[t - 1] /\ Y = SimLeft(S, g)[t]
  OBVIOUS
<1>2. t - 1 \in Slots(S) /\ Y = Served(Z, g, t)
  BY <1>1, SimSteps
<1>3. Z \subseteq Claims /\ IsFiniteSet(Z) /\ Z # {}
  BY <1>1, <1>2, SimWithin
<1>4. t \in Nat /\ ((t - 1) % 4) + 1 = 4
  BY DEF Slots
<1>5. Y = Z \ First(Z)
  BY <1>2, <1>3, <1>4, LastSlotPick DEF Served, SlotsPerIteration
<1>6. PICK h \in Z : First(Z) = {h}
  BY <1>3, FirstIs
<1>7. Cardinality(Z \ {h}) = Cardinality(Z) - 1
  BY <1>3, FS_RemoveElement
<1>8. QED
  BY <1>1, <1>5, <1>6, <1>7

\* After k iterations at least k claims are out, so the simulation ends with none left.
LEMMA SimEmpties ==
  ASSUME NEW S, S \subseteq Claims, NEW g \in [Claims -> Groups]
  PROVE  \A k \in 0..Cardinality(S) :
           Cardinality(SimLeft(S, g)[4 * k]) + k <= Cardinality(S)
<1>1. PICK n \in Nat : n = Cardinality(S)
  BY SimSteps
<1> DEFINE T == {k \in 0..n : ~(Cardinality(SimLeft(S, g)[4 * k]) + k <= n)}
<1>2. SUFFICES ASSUME T # {} PROVE FALSE
  BY <1>1
<1>3. PICK k \in T : \A y \in T : k <= y
  <2>1. T \subseteq Nat
    OBVIOUS
  <2>2. QED
    BY <1>2, <2>1, LeastOf
<1>4. k # 0
  <2>1. SimLeft(S, g)[4 * 0] = S
    BY SimSteps
  <2>2. SUFFICES ASSUME k = 0 PROVE FALSE
    OBVIOUS
  <2>3. Cardinality(SimLeft(S, g)[4 * k]) = n
    BY <1>1, <2>1, <2>2
  <2>4. QED
    BY <1>3, <2>2, <2>3
<1>5. PICK j \in Nat : k = j + 1 /\ j \in 0..n
  <2>1. k - 1 \in Nat /\ k = (k - 1) + 1 /\ k - 1 \in 0..n
    BY <1>3, <1>4
  <2>2. QED
    BY <2>1
<1>6. j \notin T
  BY <1>3, <1>5
<1>7. Cardinality(SimLeft(S, g)[4 * j]) + j <= n
  BY <1>5, <1>6
<1>8. PICK t : t = 4 * k
  OBVIOUS
<1>9. /\ t \in Slots(S) /\ t - 1 \in Slots(S) /\ 4 * j \in Slots(S)
      /\ t % 4 = 0 /\ t # 0 /\ 4 * j <= t - 1
  BY <1>1, <1>3, <1>5, <1>8 DEF Slots
<1>10. PICK Z, Y, X : Z = SimLeft(S, g)[t - 1] /\ Y = SimLeft(S, g)[t] /\ X = SimLeft(S, g)[4 * j]
  OBVIOUS
<1>11. /\ Cardinality(Z) \in Nat /\ Cardinality(Y) \in Nat /\ Cardinality(X) \in Nat
       /\ IsFiniteSet(X) /\ IsFiniteSet(Z)
  BY <1>9, <1>10, SimWithin
<1>12. Y \subseteq Z /\ Z \subseteq X
  <2>1. t - 1 <= t
    BY <1>9 DEF Slots
  <2>2. QED
    BY <1>9, <1>10, <2>1, SimShrinks
<1>13. Cardinality(Z) <= Cardinality(X)
  BY <1>11, <1>12, FS_Subset
<1>14. ~(Cardinality(Y) + k <= n)
  BY <1>3, <1>8, <1>10
<1>15. CASE Z = {}
  <2>1. Y = {}
    BY <1>12, <1>15
  <2>2. Cardinality(Y) = 0
    BY <2>1, FS_EmptySet
  <2>3. QED
    BY <1>3, <1>14, <2>2
<1>16. CASE Z # {}
  <2>1. Cardinality(Y) = Cardinality(Z) - 1
    BY <1>9, <1>10, <1>16, SimLastSlot
  <2>2. QED
    BY <1>5, <1>7, <1>10, <1>11, <1>13, <1>14, <2>1
<1>17. QED
  BY <1>15, <1>16

\* Slot t is the one that serves claim c.
Serves(S, g, c, t) ==
  /\ t \in 1..(4 * Cardinality(S))
  /\ c \in SimLeft(S, g)[t - 1]
  /\ c \notin SimLeft(S, g)[t]

\* Every claim of the snapshot is served by some slot of the simulation.
LEMMA SimServes ==
  ASSUME NEW S, S \subseteq Claims, NEW g \in [Claims -> Groups], NEW c \in S
  PROVE  \E t : Serves(S, g, c, t)
<1>1. PICK n \in Nat : n = Cardinality(S)
  BY SimSteps
<1> DEFINE T == {t \in Slots(S) : c \notin SimLeft(S, g)[t]}
<1>2. 4 * n \in T
  <2>1. 4 * n \in Slots(S) /\ n \in 0..n
    BY <1>1 DEF Slots
  <2>2. PICK Z : Z = SimLeft(S, g)[4 * n]
    OBVIOUS
  <2>3. Cardinality(Z) + n <= n
    BY <1>1, <2>1, <2>2, SimEmpties
  <2>4. IsFiniteSet(Z) /\ Cardinality(Z) \in Nat
    BY <2>1, <2>2, SimWithin
  <2>5. Cardinality(Z) = 0
    BY <2>3, <2>4
  <2>6. Z = {}
    BY <2>4, <2>5, FS_EmptySet
  <2>7. QED
    BY <2>1, <2>2, <2>6
<1>3. PICK t \in T : \A y \in T : t <= y
  <2>1. T \subseteq Nat
    BY DEF Slots
  <2>2. QED
    BY <1>2, <2>1, LeastOf
<1>4. t # 0
  BY <1>3, SimSteps
<1>5. t - 1 \in Slots(S) /\ ~(t <= t - 1) /\ t \in 1..(4 * n)
  BY <1>1, <1>3, <1>4 DEF Slots
<1>6. c \in SimLeft(S, g)[t - 1]
  BY <1>3, <1>5
<1>7. QED
  BY <1>1, <1>3, <1>5, <1>6 DEF Serves

\* It is served once.
LEMMA ServedOnce ==
  ASSUME NEW S, S \subseteq Claims, NEW g \in [Claims -> Groups], NEW c \in S,
         NEW t, Serves(S, g, c, t), NEW u, Serves(S, g, c, u)
  PROVE  t = u
<1>1. Cardinality(S) \in Nat
  BY SimSteps
<1>2. /\ t \in Slots(S) /\ t - 1 \in Slots(S) /\ u \in Slots(S) /\ u - 1 \in Slots(S)
      /\ t \in Nat /\ u \in Nat
  BY <1>1 DEF Serves, Slots
<1>3. ~(t <= u - 1)
  BY <1>2, SimShrinks DEF Serves
<1>4. ~(u <= t - 1)
  BY <1>2, SimShrinks DEF Serves
<1>5. QED
  BY <1>2, <1>3, <1>4

\* The estimate counts the claims served up to c, and the iterations they take.
LEMMA EstimateIs ==
  ASSUME NEW S, S \subseteq Claims, NEW g \in [Claims -> Groups], NEW c \in S,
         NEW t, Serves(S, g, c, t)
  PROVE  DrainEstimate(S, g, c) =
           [position   |-> Cardinality(S) - Cardinality(SimLeft(S, g)[t]),
            iterations |-> ((t - 1) \div 4) + 1]
<1> DEFINE P(u) == /\ u \in 1..(SlotsPerIteration * Cardinality(S))
                   /\ c \in SimLeft(S, g)[u - 1] /\ c \notin SimLeft(S, g)[u]
<1>1. \A u : P(u) <=> u = t
  <2>1. \A u : P(u) <=> Serves(S, g, c, u)
    BY DEF Serves, SlotsPerIteration
  <2>2. QED
    BY <2>1, ServedOnce
<1>2. PICK v : v = CHOOSE u \in 1..(SlotsPerIteration * Cardinality(S)) :
                     c \in SimLeft(S, g)[u - 1] /\ c \notin SimLeft(S, g)[u]
  OBVIOUS
<1>3. \E u \in 1..(SlotsPerIteration * Cardinality(S)) :
        c \in SimLeft(S, g)[u - 1] /\ c \notin SimLeft(S, g)[u]
  BY <1>1
<1>4. P(v)
  BY <1>2, <1>3, Zenon
<1>5. v = t
  BY <1>1, <1>4
<1>6. DrainEstimate(S, g, c) =
        [position   |-> Cardinality(S) - Cardinality(SimLeft(S, g)[v]),
         iterations |-> ((v - 1) \div SlotsPerIteration) + 1]
  BY <1>2, Zenon DEF DrainEstimate
<1>7. QED
  BY <1>5, <1>6 DEF SlotsPerIteration

\* One iteration takes out at least one claim.
LEMMA IterationServes ==
  ASSUME NEW S, S \subseteq Claims, S # {}, NEW g \in [Claims -> Groups]
  PROVE  /\ 4 \in Slots(S)
         /\ Cardinality(SimLeft(S, g)[4]) + 1 <= Cardinality(S)
<1>1. Cardinality(S) \in Nat /\ Cardinality(S) # 0
  BY SimSteps, FS_EmptySet
<1>2. 1 \in 0..Cardinality(S) /\ 4 * 1 = 4
  BY <1>1
<1>3. QED
  BY <1>1, <1>2, SimEmpties DEF Slots

\* Z is what one iteration leaves of the snapshot S with groups g; h are groups
\* that have not changed for the claims of S.
Leaves(S, g, h, Z) ==
  /\ S \subseteq Claims /\ S # {}
  /\ g \in [Claims -> Groups] /\ h \in [Claims -> Groups]
  /\ \A c \in S : g[c] = h[c]
  /\ Z = SimLeft(S, g)[4]

\* The simulation of what one iteration leaves is the rest of the simulation.
LEMMA SimShift ==
  ASSUME NEW S, NEW g, NEW h, NEW Z, Leaves(S, g, h, Z)
  PROVE  \A t \in Slots(Z) :
           t + 4 \in Slots(S) /\ SimLeft(Z, h)[t] = SimLeft(S, g)[t + 4]
<1>0. /\ S \subseteq Claims /\ S # {}
      /\ g \in [Claims -> Groups] /\ h \in [Claims -> Groups]
      /\ \A d \in S : g[d] = h[d]
      /\ Z = SimLeft(S, g)[4]
  BY DEF Leaves
<1>1. /\ Z \subseteq S /\ Z \subseteq Claims
      /\ Cardinality(Z) \in Nat /\ Cardinality(S) \in Nat
      /\ Cardinality(Z) + 1 <= Cardinality(S)
  BY <1>0, IterationServes, SimWithin, SimSteps
<1>2. \A t \in Slots(Z) : t + 4 \in Slots(S) /\ t \in Nat
  BY <1>1 DEF Slots
<1> DEFINE T == {t \in Slots(Z) : SimLeft(Z, h)[t] # SimLeft(S, g)[t + 4]}
<1>3. SUFFICES ASSUME T # {} PROVE FALSE
  BY <1>2
<1>4. PICK t \in T : \A y \in T : t <= y
  <2>1. T \subseteq Nat
    BY <1>2
  <2>2. QED
    BY <1>3, <2>1, LeastOf
<1>5. t \in Nat /\ t + 4 \in Slots(S)
  BY <1>2, <1>4
<1>6. t # 0
  <2>1. SimLeft(Z, h)[0] = Z
    BY <1>0, <1>1, SimSteps
  <2>2. SUFFICES ASSUME t = 0 PROVE FALSE
    OBVIOUS
  <2>3. t + 4 = 4
    BY <2>2
  <2>4. QED
    BY <1>0, <1>4, <2>1, <2>2, <2>3
<1>7. /\ t - 1 \in Slots(Z)
      /\ SimLeft(Z, h)[t] = Served(SimLeft(Z, h)[t - 1], h, t)
  BY <1>0, <1>1, <1>4, <1>6, SimSteps
<1>8. SimLeft(Z, h)[t - 1] = SimLeft(S, g)[t + 3]
  <2>1. ~(t <= t - 1) /\ (t - 1) + 4 = t + 3
    BY <1>5
  <2>2. t - 1 \notin T
    BY <1>4, <2>1
  <2>3. QED
    BY <1>7, <2>1, <2>2
<1>9. /\ t + 3 \in Slots(S)
      /\ SimLeft(S, g)[t + 4] = Served(SimLeft(S, g)[t + 3], g, t + 4)
  <2>1. t + 4 # 0 /\ (t + 4) - 1 = t + 3
    BY <1>5
  <2>2. QED
    BY <1>0, <1>5, <2>1, SimSteps
<1>10. PICK Y : Y = SimLeft(S, g)[t + 3]
  OBVIOUS
<1>11. Y \subseteq S
  BY <1>0, <1>9, <1>10, SimWithin
<1>12. PICK k \in 1..4 : k = ((t - 1) % 4) + 1 /\ k = (((t + 4) - 1) % 4) + 1
  <2>1. ((t - 1) % 4) + 1 \in 1..4 /\ ((t + 4) - 1) % 4 = (t - 1) % 4
    BY <1>5, <1>6
  <2>2. QED
    BY <2>1
<1>13. SimPick(Y, g, k) = SimPick(Y, h, k)
  BY <1>0, <1>11, SimPickSame
<1>14. Served(Y, h, t) = Served(Y, g, t + 4)
  <2>1. Served(Y, h, t) = Y \ SimPick(Y, h, k)
    BY <1>12 DEF Served, SlotsPerIteration
  <2>2. Served(Y, g, t + 4) = Y \ SimPick(Y, g, k)
    BY <1>12 DEF Served, SlotsPerIteration
  <2>3. QED
    BY <1>13, <2>1, <2>2
<1>15. QED
  BY <1>4, <1>7, <1>8, <1>9, <1>10, <1>14

\* What the estimate promises: a claim told "1 iteration" is out after one
\* iteration, and any other is then told one iteration less and as many
\* positions less as came out.
LEMMA EstimateHolds ==
  ASSUME NEW S, NEW g, NEW h, NEW Z, Leaves(S, g, h, Z), NEW c \in S
  PROVE  /\ Z \subseteq S
         /\ DrainEstimate(S, g, c).iterations = 1 <=> c \notin Z
         /\ c \in Z =>
              DrainEstimate(Z, h, c) =
                [position   |-> DrainEstimate(S, g, c).position - Cardinality(S \ Z),
                 iterations |-> DrainEstimate(S, g, c).iterations - 1]
<1>0. /\ S \subseteq Claims /\ S # {}
      /\ g \in [Claims -> Groups] /\ h \in [Claims -> Groups]
      /\ \A d \in S : g[d] = h[d]
      /\ Z = SimLeft(S, g)[4]
  BY DEF Leaves
<1>1. /\ Z \subseteq S /\ Z \subseteq Claims /\ IsFiniteSet(S) /\ 4 \in Slots(S)
      /\ Cardinality(Z) \in Nat /\ Cardinality(S) \in Nat
  BY <1>0, IterationServes, SimWithin, SimSteps
<1>2. CASE c \notin Z
  <2>1. PICK t : Serves(S, g, c, t)
    BY <1>0, SimServes
  <2>2. t \in Nat /\ t # 0 /\ t - 1 \in Slots(S) /\ c \in SimLeft(S, g)[t - 1]
    BY <1>1, <2>1 DEF Serves, Slots
  <2>3. ~(4 <= t - 1)
    BY <1>0, <1>1, <1>2, <2>2, SimShrinks
  <2>4. t \in 1..4
    BY <2>2, <2>3
  <2>5. ((t - 1) \div 4) + 1 = 1
    BY <2>4
  <2>6. DrainEstimate(S, g, c).iterations = 1
    <3>1. S \subseteq Claims /\ g \in [Claims -> Groups]
      BY <1>0
    <3>2. DrainEstimate(S, g, c) =
            [position   |-> Cardinality(S) - Cardinality(SimLeft(S, g)[t]),
             iterations |-> ((t - 1) \div 4) + 1]
      BY <2>1, <3>1, EstimateIs
    <3>3. QED
      BY <2>5, <3>2
  <2>7. QED
    BY <1>1, <1>2, <2>6
<1>3. CASE c \in Z
  <2>1. PICK t : Serves(Z, h, c, t)
    <3>1. Z \subseteq Claims /\ h \in [Claims -> Groups]
      BY <1>0, <1>1
    <3>2. QED
      BY <1>3, <3>1, SimServes
  <2>2. t \in Slots(Z) /\ t - 1 \in Slots(Z) /\ t \in Nat /\ t # 0
    BY <1>1, <2>1 DEF Serves, Slots
  <2>3. /\ t + 4 \in Slots(S)
        /\ SimLeft(Z, h)[t] = SimLeft(S, g)[t + 4]
        /\ SimLeft(Z, h)[t - 1] = SimLeft(S, g)[(t - 1) + 4]
    BY <2>2, SimShift
  <2>4. (t - 1) + 4 = (t + 4) - 1
    BY <2>2
  <2>5. PICK u \in Nat : u = t + 4
    BY <2>2
  <2>6. Serves(S, g, c, u)
    <3>1. u \in 1..(4 * Cardinality(S))
      BY <1>1, <2>2, <2>3, <2>5 DEF Slots
    <3>2. QED
      BY <2>1, <2>3, <2>4, <2>5, <3>1 DEF Serves
  <2>7. PICK m \in Nat : m = Cardinality(SimLeft(S, g)[u])
    BY <1>0, <2>3, <2>5, SimWithin
  <2>8. DrainEstimate(S, g, c) =
          [position |-> Cardinality(S) - m, iterations |-> ((u - 1) \div 4) + 1]
    <3>1. DrainEstimate(S, g, c) =
            [position   |-> Cardinality(S) - Cardinality(SimLeft(S, g)[u]),
             iterations |-> ((u - 1) \div 4) + 1]
      BY <1>0, <2>6, EstimateIs
    <3>2. QED
      BY <2>7, <3>1
  <2>9. DrainEstimate(Z, h, c) =
          [position |-> Cardinality(Z) - m, iterations |-> ((t - 1) \div 4) + 1]
    <3>1. DrainEstimate(Z, h, c) =
            [position   |-> Cardinality(Z) - Cardinality(SimLeft(Z, h)[t]),
             iterations |-> ((t - 1) \div 4) + 1]
      BY <1>0, <1>1, <1>3, <2>1, EstimateIs
    <3>2. QED
      BY <2>3, <2>5, <2>7, <3>1
  <2>10. PICK n \in Nat : n = Cardinality(S \ Z) /\ n = Cardinality(S) - Cardinality(Z)
    <3>1. S \cap Z = Z
      BY <1>1
    <3>2. Cardinality(S \ Z) = Cardinality(S) - Cardinality(S \cap Z) /\ IsFiniteSet(S \ Z)
      BY <1>1, FS_Difference
    <3>3. Cardinality(S \ Z) \in Nat
      BY <3>2, FS_CardinalityType
    <3>4. QED
      BY <3>1, <3>2, <3>3
  <2>11. PICK q \in Nat : q = (t - 1) \div 4
    BY <2>2
  <2>12. (u - 1) \div 4 = q + 1
    BY <2>2, <2>5, <2>11
  <2>13. /\ DrainEstimate(S, g, c).iterations = q + 2
         /\ DrainEstimate(S, g, c).position = Cardinality(S) - m
    BY <2>8, <2>12
  <2>14. /\ q + 2 # 1
         /\ (q + 2) - 1 = q + 1
         /\ (Cardinality(S) - m) - n = Cardinality(Z) - m
    BY <1>1, <2>10
  <2>15. DrainEstimate(Z, h, c) = [position |-> (Cardinality(S) - m) - n, iterations |-> (q + 2) - 1]
    BY <2>9, <2>11, <2>14
  <2>16. QED
    BY <1>1, <1>3, <2>10, <2>13, <2>14, <2>15
<1>4. QED
  BY <1>2, <1>3

--------------------------------------------------------------------------------
(* The estimate against the queue itself.                                  *)

\* What k slots leave of a snapshot.
LeftAfter(S, g, k) == IF S = {} THEN {} ELSE SimLeft(S, g)[k]

\* Advancer a follows the simulation over the snapshot S, with groups g, that
\* its quote was computed from, and nobody else has a statement open.
QuoteStands(a, S, g) ==
  /\ quote.told = Standing(S, g)
  /\ S \subseteq Queued \cup Left
  /\ \A c \in S : group[c] = g[c]
  /\ \A b \in Advancers \ {a} : hand[b] = {}
  /\ pc[a] \in {"pick", "commit"} => Queued = LeftAfter(S, g, slot[a] - 1)
  /\ pc[a] = "commit" => hand[a] = SimPick(Queued, g, slot[a])
  /\ pc[a] \in {"sleep", "acquire"} => Queued = LeftAfter(S, g, 4)

\* A new iteration starts with the first slot.
SlotsReset == \A a \in Advancers : pc[a] \notin {"pick", "commit"} => slot[a] = 1

\* The inductive part of QuotesHold: a quote is followed from the moment the slots
\* begin to be served until the next refresh.
Quoting == {"pick", "commit", "sleep", "acquire"}
QuotesStand ==
  \A a \in Advancers : quote.by = a /\ pc[a] \in Quoting =>
    \E S \in SUBSET Claims, g \in [Claims -> Groups] : QuoteStands(a, S, g)

\* The slots of the first iteration carry their own numbers.
LEMMA SlotNumber == \A k \in 1..4 : ((k - 1) % 4) + 1 = k
OBVIOUS

\* A slot of an iteration leaves what the simulation says.
LEMMA AfterSlot ==
  ASSUME NEW S \in SUBSET Claims, NEW g \in [Claims -> Groups], NEW k \in 1..4
  PROVE  /\ LeftAfter(S, g, k - 1) \subseteq S
         /\ LeftAfter(S, g, k) =
              LeftAfter(S, g, k - 1) \ SimPick(LeftAfter(S, g, k - 1), g, k)
<1>1. CASE S = {}
  BY <1>1 DEF LeftAfter
<1>2. CASE S # {}
  <2>1. Cardinality(S) \in Nat /\ 4 \in Slots(S)
    BY <1>2, SimSteps, IterationServes
  <2>2. k \in Slots(S) \ {0} /\ k - 1 \in Slots(S)
    BY <2>1 DEF Slots
  <2>3. PICK Z, Y : Z = SimLeft(S, g)[k - 1] /\ Y = SimLeft(S, g)[k]
    OBVIOUS
  <2>4. Z \subseteq S
    BY <2>2, <2>3, SimWithin
  <2>5. Y = Served(Z, g, k)
    BY <2>2, <2>3, SimSteps
  <2>6. ((k - 1) % 4) + 1 = k
    BY SlotNumber
  <2>7. Served(Z, g, k) = Z \ SimPick(Z, g, k)
    BY <2>6 DEF Served, SlotsPerIteration
  <2>8. QED
    BY <1>2, <2>3, <2>4, <2>5, <2>7 DEF LeftAfter
<1>3. QED
  BY <1>1, <1>2

\* Before its first slot the simulation has served nobody.
LEMMA AfterNone ==
  ASSUME NEW S \in SUBSET Claims, NEW g \in [Claims -> Groups]
  PROVE  LeftAfter(S, g, 0) = S
BY SimSteps DEF LeftAfter

\* With nobody else at work, a slot of the queue serves what the simulation serves.
LEMMA SlotFollows ==
  ASSUME TypeOK, PicksAreSound, NEW a \in Advancers, pc[a] = "pick",
         NEW S \in SUBSET Claims, NEW g \in [Claims -> Groups], QuoteStands(a, S, g)
  PROVE  First(Eligible(slot[a])) = SimPick(Queued, g, slot[a])
<1>1. slot[a] \in 1..4 /\ Queued \subseteq Claims
  BY DEF TypeOK, SlotsPerIteration, Queued
<1>2. Queued \subseteq S
  BY <1>1, AfterSlot DEF QuoteStands
<1>3. Held = {}
  <2>1. \A b \in Advancers : hand[b] = {}
    BY DEF QuoteStands, PicksAreSound, LastSlotServesAll
  <2>2. QED
    BY <2>1, Zenon DEF Held
<1>4. Eligible(slot[a]) = Eligibles(Queued, g, slot[a])
  BY <1>2, <1>3 DEF Eligible, Eligibles, QuoteStands
<1>5. QED
  BY <1>1, <1>4, SimPickIs

\* A step that leaves a quote, its advancer and the rows it is about as they are.
LEMMA QuoteFrame ==
  ASSUME TypeOK, NEW b \in Advancers, NEW S \in SUBSET Claims, NEW g \in [Claims -> Groups],
         QuoteStands(b, S, g), quote' = quote, Queued' = Queued, Left \subseteq Left',
         \A c \in Queued \cup Left : group'[c] = group[c],
         \A d \in Advancers \ {b} : hand'[d] = {},
         \/ pc'[b] = pc[b] /\ slot'[b] = slot[b] /\ hand'[b] = hand[b]
         \/ pc[b] \in {"sleep", "acquire"} /\ pc'[b] \in {"sleep", "acquire"}
  PROVE  QuoteStands(b, S, g)'
<1>1. S \subseteq (Queued \cup Left)'
  BY DEF QuoteStands
<1>2. \A c \in S : group'[c] = g[c]
  BY DEF QuoteStands
<1>3. /\ pc'[b] \in {"pick", "commit"} => Queued' = LeftAfter(S, g, slot'[b] - 1)
      /\ pc'[b] = "commit" => hand'[b] = SimPick(Queued', g, slot'[b])
      /\ pc'[b] \in {"sleep", "acquire"} => Queued' = LeftAfter(S, g, 4)
  BY DEF QuoteStands
<1>4. quote'.told = Standing(S, g)
  BY DEF QuoteStands
<1>5. QED
  BY <1>1, <1>2, <1>3, <1>4 DEF QuoteStands

\* A slot ends: on to the next one, or to the next iteration.
LEMMA QuoteAfterSlot ==
  ASSUME TypeOK, NEW b \in Advancers, NEW S \in SUBSET Claims, NEW g \in [Claims -> Groups],
         QuoteStands(b, S, g), pc[b] \in {"pick", "commit"},
         NextSlot(b), quote' = quote, group' = group,
         Queued' = Queued \ SimPick(Queued, g, slot[b]), Queued \cup Left \subseteq (Queued \cup Left)'
  PROVE  QuoteStands(b, S, g)'
<1>1. slot[b] \in 1..4 /\ slot[b] \in Nat
  BY DEF TypeOK, SlotsPerIteration
<1>2. Queued' = LeftAfter(S, g, slot[b])
  BY <1>1, AfterSlot DEF QuoteStands
<1>3. \A d \in Advancers \ {b} : hand'[d] = {}
  <2>1. hand' = [hand EXCEPT ![b] = {}]
    BY DEF NextSlot, Idle
  <2>2. QED
    BY <2>1 DEF QuoteStands, TypeOK
<1>4. CASE slot[b] = 4
  <2>1. pc' = [pc EXCEPT ![b] = "sleep"]
    BY <1>4 DEF NextSlot, Idle, SlotsPerIteration
  <2>2. pc'[b] = "sleep"
    BY <2>1 DEF TypeOK
  <2>3. Queued' = LeftAfter(S, g, 4)
    BY <1>2, <1>4
  <2>4. QED
    BY <1>3, <2>2, <2>3 DEF QuoteStands
<1>5. CASE slot[b] # 4
  <2>1. pc' = [pc EXCEPT ![b] = "pick"] /\ slot' = [slot EXCEPT ![b] = slot[b] + 1]
    BY <1>5 DEF NextSlot, SlotsPerIteration
  <2>2. pc'[b] = "pick" /\ slot'[b] = slot[b] + 1
    BY <2>1 DEF TypeOK
  <2>3. slot'[b] - 1 = slot[b]
    BY <1>1, <2>2
  <2>4. QED
    BY <1>2, <1>3, <2>2, <2>3 DEF QuoteStands
<1>6. QED
  BY <1>4, <1>5

\* The slots of a begin to be served: what it tells is computed from the queue as it is.
LEMMA QuoteAtStart ==
  ASSUME TypeOK, PicksAreSound, NEW a \in Advancers, quote' = Told(a),
         UNCHANGED <<row, group>>, pc' = [pc EXCEPT ![a] = "pick"], slot'[a] = 1,
         \A d \in Advancers : d = a \/ hand'[d] = hand[d]
  PROVE  QuotesStand'
<1>1. Queued' = Queued /\ Left' = Left /\ Queued \in SUBSET Claims /\ group \in [Claims -> Groups]
  BY DEF Queued, Left, TypeOK
<1>2. CASE Held # {}
  <2>1. quote'.by \notin Advancers
    BY <1>2, AdvancersAssumption DEF Told, NoQuote
  <2>2. QED
    BY <2>1 DEF QuotesStand
<1>3. CASE Held = {}
  <2>1. quote'.by = a /\ quote'.told = Standing(Queued, group)
    BY <1>3 DEF Told
  <2>2. pc'[a] = "pick"
    BY DEF TypeOK
  <2>3. \A d \in Advancers : hand[d] = {}
    BY <1>3, Zenon DEF Held
  <2>4. Queued = LeftAfter(Queued, group, 0)
    BY <1>1, AfterNone
  <2>5. PICK S \in SUBSET Claims, g \in [Claims -> Groups] : S = Queued /\ g = group
    BY <1>1
  <2>6. slot'[a] - 1 = 0
    OBVIOUS
  <2>7. QuoteStands(a, S, g)'
    BY <1>1, <2>1, <2>2, <2>3, <2>4, <2>5, <2>6 DEF QuoteStands
  <2>8. QED
    BY <2>1, <2>7 DEF QuotesStand
<1>4. QED
  BY <1>2, <1>3

\* At first nothing is promised.
LEMMA InitQuotes == Init => SlotsReset /\ QuotesStand
<1>1. Init => quote.by \notin Advancers
  BY AdvancersAssumption DEF Init, NoQuote
<1>2. QED
  BY <1>1 DEF Init, SlotsReset, QuotesStand

\* Nothing is promised any more.
LEMMA QuoteGone ==
  ASSUME quote' = NoQuote
  PROVE  QuotesStand'
BY AdvancersAssumption DEF QuotesStand, NoQuote

\* An advancer that leaves an iteration starts over.
LEMMA SlotsAfterIdle ==
  ASSUME TypeOK, SlotsReset, NEW a \in Advancers, NEW to \in PCs, Idle(a, to)
  PROVE  SlotsReset'
<1>1. /\ slot'[a] = 1
      /\ \A b \in Advancers : b # a => pc'[b] = pc[b] /\ slot'[b] = slot[b]
  BY DEF Idle, TypeOK
<1>2. QED
  BY <1>1 DEF SlotsReset

\* One that goes on is picking, or has ended its iteration.
LEMMA SlotsAfterNext ==
  ASSUME TypeOK, SlotsReset, NEW a \in Advancers, NextSlot(a)
  PROVE  SlotsReset'
<1>1. CASE slot[a] = SlotsPerIteration
  BY <1>1, SlotsAfterIdle DEF NextSlot, PCs
<1>2. CASE slot[a] # SlotsPerIteration
  <2>1. /\ pc' = [pc EXCEPT ![a] = "pick"]
        /\ slot' = [slot EXCEPT ![a] = slot[a] + 1]
    BY <1>2 DEF NextSlot
  <2>2. /\ pc'[a] = "pick"
        /\ \A b \in Advancers : b # a => pc'[b] = pc[b] /\ slot'[b] = slot[b]
    BY <2>1 DEF TypeOK
  <2>3. QED
    BY <2>2 DEF SlotsReset
<1>3. QED
  BY <1>1, <1>2

\* Every step keeps the numbering of the slots.
LEMMA StepSlots ==
  ASSUME TypeOK, SlotsReset, Next
  PROVE  SlotsReset'
<1>1. ASSUME UNCHANGED <<pc, slot>> PROVE SlotsReset'
  BY <1>1 DEF SlotsReset
<1>2. ASSUME \E c \in Claims : \/ IntakeGroup(c) \/ Enqueue(c)
                               \/ ReserveDirectly(c) \/ WriterTakes(c)
      PROVE  SlotsReset'
  BY <1>1, <1>2 DEF IntakeGroup, Enqueue, ReserveDirectly, WriterTakes, process
<1>3. ASSUME NEW x \in Accounts, BalanceMoves(x) PROVE SlotsReset'
  BY <1>1, <1>3 DEF BalanceMoves, process
<1>4. ASSUME LeaseExpires \/ GracePasses \/ Retire \/ Janitor PROVE SlotsReset'
  BY <1>1, <1>4 DEF LeaseExpires, GracePasses, Retire, Janitor, process
<1>5. ASSUME NEW a \in Advancers, NEW to \in PCs, Idle(a, to) PROVE SlotsReset'
  BY <1>5, SlotsAfterIdle
<1>6. ASSUME NEW a \in Advancers, NEW to \in {"sleep", "read", "update", "pick", "commit"},
             pc' = [pc EXCEPT ![a] = to], slot' = slot,
             pc[a] \in {"pick", "commit"} => to \in {"pick", "commit"}
      PROVE  SlotsReset'
  <2>1. pc'[a] = to /\ \A b \in Advancers : b # a => pc'[b] = pc[b]
    BY <1>6 DEF TypeOK
  <2>2. QED
    BY <1>6, <2>1 DEF SlotsReset
<1>7. ASSUME NEW a \in Advancers, AdvancerStep(a) PROVE SlotsReset'
  <2>1. CASE TryAcquire(a)
    BY <1>6, <2>1 DEF TryAcquire
  <2>2. CASE Renew(a)
    <3>1. CASE LeaseHeld(a)
      BY <1>6, <2>2, <3>1 DEF Renew
    <3>2. CASE ~LeaseHeld(a)
      BY <1>5, <2>2, <3>2 DEF Renew, PCs
    <3>3. QED
      BY <3>1, <3>2
  <2>3. CASE Read(a)
    <3>1. CASE ReadBalance(a)
      BY <1>1, <2>3, <3>1 DEF ReadBalance
    <3>2. CASE ~ReadBalance(a)
      BY <1>6, <2>3, <3>2 DEF Read
    <3>3. QED
      BY <3>1, <3>2
  <2>4. CASE Update(a)
    <3>1. CASE UpdateGroup(a)
      BY <1>1, <3>1 DEF UpdateGroup
    <3>2. CASE ~UpdateGroup(a)
      BY <1>6, <2>4, <3>2 DEF Update
    <3>3. QED
      BY <3>1, <3>2
  <2>5. CASE Pick(a)
    BY <1>6, <2>5 DEF Pick
  <2>6. CASE SkipSlot(a) \/ Commit(a)
    BY <2>6, SlotsAfterNext DEF SkipSlot, Commit
  <2>7. QED
    BY <1>7, <2>1, <2>2, <2>3, <2>4, <2>5, <2>6 DEF AdvancerStep
<1>8. ASSUME NEW a \in Advancers, \/ RenewalFails(a) \/ RefreshStops(a)
                                 \/ AdvanceErrs(a) \/ Crash(a) \/ Stop(a)
      PROVE  SlotsReset'
  <2>1. \E to \in PCs : Idle(a, to)
    BY <1>8 DEF RenewalFails, RefreshStops, AdvanceErrs, Crash, Stop, DropWork, PCs
  <2>2. QED
    BY <1>5, <2>1
<1>9. QED
  BY <1>2, <1>3, <1>4, <1>7, <1>8 DEF Next

\* A step that disturbs no quote.
LEMMA QuotesKept ==
  ASSUME TypeOK, QuotesStand, quote' = quote, Queued' = Queued, Left \subseteq Left',
         \A c \in Queued \cup Left : group'[c] = group[c],
         \A d \in Advancers : hand[d] = {} => hand'[d] = {},
         \A b \in Advancers : pc'[b] \in Quoting =>
            \/ pc'[b] = pc[b] /\ slot'[b] = slot[b] /\ hand'[b] = hand[b]
            \/ pc[b] \in {"sleep", "acquire"} /\ pc'[b] \in {"sleep", "acquire"}
  PROVE  QuotesStand'
<1>1. SUFFICES ASSUME NEW b \in Advancers, quote'.by = b, pc'[b] \in Quoting
               PROVE  \E S \in SUBSET Claims, g \in [Claims -> Groups] : QuoteStands(b, S, g)'
  BY DEF QuotesStand
<1>2. quote.by = b /\ pc[b] \in Quoting
  BY <1>1 DEF Quoting
<1>3. PICK S \in SUBSET Claims, g \in [Claims -> Groups] : QuoteStands(b, S, g)
  BY <1>2 DEF QuotesStand
<1>4. \A d \in Advancers \ {b} : hand'[d] = {}
  BY <1>3 DEF QuoteStands
<1>5. \/ pc'[b] = pc[b] /\ slot'[b] = slot[b] /\ hand'[b] = hand[b]
      \/ pc[b] \in {"sleep", "acquire"} /\ pc'[b] \in {"sleep", "acquire"}
  BY <1>1
<1>6. QuoteStands(b, S, g)'
  BY <1>3, <1>4, <1>5, QuoteFrame
<1>7. QED
  BY <1>6

\* A step outside the advancers keeps what is promised, or ends the promise.
LEMMA OutsideQuotes ==
  ASSUME TypeOK, QuotesStand,
         \/ \E c \in Claims : \/ IntakeGroup(c) \/ Enqueue(c)
                              \/ ReserveDirectly(c) \/ WriterTakes(c)
         \/ \E x \in Accounts : BalanceMoves(x)
         \/ LeaseExpires \/ GracePasses \/ Retire \/ Janitor
  PROVE  QuotesStand'
<1>1. ASSUME UNCHANGED <<process, ghosts>>, Queued' = Queued, Left \subseteq Left',
             \A c \in Queued \cup Left : group'[c] = group[c]
      PROVE  QuotesStand'
  <2>1. UNCHANGED <<pc, slot, hand, quote>>
    BY <1>1 DEF process, ghosts
  <2>2. QED
    BY <1>1, <2>1, QuotesKept
<1>2. ASSUME NEW c \in Claims, IntakeGroup(c) PROVE QuotesStand'
  <2>1. /\ row[c] = "NONE" /\ row' = [row EXCEPT ![c] = "CHECKED"]
        /\ \E v : group' = [group EXCEPT ![c] = v]
        /\ UNCHANGED <<process, ghosts>>
    BY <1>2 DEF IntakeGroup
  <2>2. Queued' = Queued /\ Left' = Left
    BY <2>1 DEF Queued, Left, TypeOK
  <2>3. \A d \in Queued \cup Left : group'[d] = group[d]
    BY <2>1 DEF Queued, Left, TypeOK
  <2>4. QED
    BY <1>1, <2>1, <2>2, <2>3
<1>3. ASSUME NEW c \in Claims, ReserveDirectly(c) \/ WriterTakes(c) PROVE QuotesStand'
  <2>1. /\ row[c] \in {"NONE", "RESERVED"}
        /\ \E v \in {"RESERVED", "TAKEN"} : row' = [row EXCEPT ![c] = v]
        /\ UNCHANGED <<group, process, ghosts>>
    BY <1>3 DEF ReserveDirectly, WriterTakes
  <2>2. Queued' = Queued /\ Left \subseteq Left'
    BY <2>1 DEF Queued, Left, TypeOK
  <2>3. QED
    BY <1>1, <2>1, <2>2
<1>4. ASSUME NEW c \in Claims, Enqueue(c) PROVE QuotesStand'
  BY <1>4, QuoteGone DEF Enqueue
<1>5. ASSUME Janitor PROVE QuotesStand'
  BY <1>5, QuoteGone DEF Janitor
<1>6. ASSUME \/ \E x \in Accounts : BalanceMoves(x)
             \/ LeaseExpires \/ GracePasses \/ Retire
      PROVE  QuotesStand'
  <2>1. UNCHANGED <<row, group, process, ghosts>>
    BY <1>6 DEF BalanceMoves, LeaseExpires, GracePasses, Retire, db
  <2>2. Queued' = Queued /\ Left' = Left
    BY <2>1 DEF Queued, Left
  <2>3. QED
    BY <1>1, <2>1, <2>2
<1>7. QED
  BY <1>2, <1>3, <1>4, <1>5, <1>6

\* A slot picks a row: the one the simulation serves.
LEMMA QuoteAfterPick ==
  ASSUME TypeOK, PicksAreSound, QuotesStand, NEW a \in Advancers, Pick(a)
  PROVE  QuotesStand'
<1>1. CASE quote.by # a
  BY <1>1, QuoteGone DEF Pick
<1>2. CASE quote.by = a
  <2>1. /\ pc[a] = "pick" /\ pc' = [pc EXCEPT ![a] = "commit"]
        /\ quote' = quote /\ UNCHANGED <<row, group, slot>>
    BY <1>2 DEF Pick, db
  <2>2. PICK h \in First(Eligible(slot[a])) : hand' = [hand EXCEPT ![a] = {h}]
    BY DEF Pick
  <2>3. PICK S \in SUBSET Claims, g \in [Claims -> Groups] : QuoteStands(a, S, g)
    BY <1>2, <2>1 DEF QuotesStand, Quoting
  <2>4. First(Eligible(slot[a])) = {h}
    <3>1. Eligible(slot[a]) \subseteq Claims /\ Eligible(slot[a]) # {}
      BY <2>2 DEF First, Eligible, Queued
    <3>2. \E e \in Eligible(slot[a]) : First(Eligible(slot[a])) = {e}
      BY <3>1, FirstIs
    <3>3. QED
      BY <2>2, <3>2
  <2>5. {h} = SimPick(Queued, g, slot[a])
    BY <2>1, <2>3, <2>4, SlotFollows
  <2>6. /\ hand'[a] = {h} /\ pc'[a] = "commit"
        /\ \A d \in Advancers \ {a} : hand'[d] = hand[d]
    BY <2>1, <2>2 DEF TypeOK
  <2>7. Queued' = Queued /\ Left' = Left
    BY <2>1 DEF Queued, Left
  <2>8. QuoteStands(a, S, g)'
    BY <2>1, <2>3, <2>5, <2>6, <2>7 DEF QuoteStands
  <2>9. quote'.by = a
    BY <1>2, <2>1
  <2>10. QED
    BY <2>8, <2>9 DEF QuotesStand
<1>3. QED
  BY <1>1, <1>2

\* A slot with nobody to serve: the simulation serves nobody either.
LEMMA QuoteAfterSkip ==
  ASSUME TypeOK, PicksAreSound, QuotesStand, NEW a \in Advancers, SkipSlot(a)
  PROVE  QuotesStand'
<1>1. /\ pc[a] = "pick" /\ Eligible(slot[a]) = {} /\ NextSlot(a)
      /\ UNCHANGED <<row, group, quote>>
  BY DEF SkipSlot, db
<1>2. Queued' = Queued /\ Left' = Left
  BY <1>1 DEF Queued, Left
<1>3. /\ hand' = [hand EXCEPT ![a] = {}]
      /\ \E to \in PCs : pc' = [pc EXCEPT ![a] = to]
      /\ \E k : slot' = [slot EXCEPT ![a] = k]
  BY <1>1 DEF NextSlot, Idle, PCs
<1>4. CASE quote.by # a
  <2>1. SUFFICES ASSUME NEW b \in Advancers, quote'.by = b, pc'[b] \in Quoting
                 PROVE  \E S \in SUBSET Claims, g \in [Claims -> Groups] : QuoteStands(b, S, g)'
    BY DEF QuotesStand
  <2>2. /\ b # a /\ quote.by = b
        /\ pc'[b] = pc[b] /\ slot'[b] = slot[b] /\ hand'[b] = hand[b]
    BY <1>1, <1>3, <1>4, <2>1 DEF TypeOK
  <2>3. PICK S \in SUBSET Claims, g \in [Claims -> Groups] : QuoteStands(b, S, g)
    BY <2>1, <2>2 DEF QuotesStand
  <2>4. \A d \in Advancers \ {b} : hand'[d] = {}
    BY <1>3, <2>3 DEF QuoteStands, TypeOK
  <2>5. QuoteStands(b, S, g)'
    BY <1>1, <1>2, <2>2, <2>3, <2>4, QuoteFrame
  <2>6. QED
    BY <2>5
<1>5. CASE quote.by = a
  <2>1. PICK S \in SUBSET Claims, g \in [Claims -> Groups] : QuoteStands(a, S, g)
    BY <1>1, <1>5 DEF QuotesStand, Quoting
  <2>2. First(Eligible(slot[a])) = SimPick(Queued, g, slot[a])
    BY <1>1, <2>1, SlotFollows
  <2>3. SimPick(Queued, g, slot[a]) = {}
    BY <1>1, <2>2 DEF First
  <2>4. Queued' = Queued \ SimPick(Queued, g, slot[a])
    BY <1>2, <2>3
  <2>5. QuoteStands(a, S, g)'
    BY <1>1, <1>2, <2>1, <2>4, QuoteAfterSlot
  <2>6. quote'.by = a
    BY <1>1, <1>5
  <2>7. QED
    BY <2>5, <2>6 DEF QuotesStand
<1>6. QED
  BY <1>4, <1>5

\* A statement commits: only the quoted advancer's can, and it promotes what the
\* simulation serves.
LEMMA QuoteAfterCommit ==
  ASSUME TypeOK, PicksAreSound, QuotesStand, NEW a \in Advancers, Commit(a)
  PROVE  QuotesStand'
<1>1. /\ pc[a] = "commit" /\ row' = Promoted(hand[a]) /\ NextSlot(a)
      /\ UNCHANGED <<group, quote>>
  BY DEF Commit
<1>2. hand[a] \subseteq Queued
  BY DEF PicksAreSound, RowsInHand
<1>3. Queued' = Queued \ hand[a] /\ Queued \cup Left \subseteq (Queued \cup Left)'
  BY <1>1, <1>2 DEF Queued, Left, Promoted, TypeOK
<1>4. SUFFICES ASSUME NEW b \in Advancers, quote'.by = b, pc'[b] \in Quoting
               PROVE  \E S \in SUBSET Claims, g \in [Claims -> Groups] : QuoteStands(b, S, g)'
  BY DEF QuotesStand
<1>5. quote.by = b
  BY <1>1, <1>4
<1>6. CASE b = a
  <2>1. PICK S \in SUBSET Claims, g \in [Claims -> Groups] : QuoteStands(a, S, g)
    BY <1>1, <1>5, <1>6 DEF QuotesStand, Quoting
  <2>2. Queued' = Queued \ SimPick(Queued, g, slot[a])
    BY <1>1, <1>3, <2>1 DEF QuoteStands
  <2>3. QuoteStands(a, S, g)'
    BY <1>1, <1>3, <2>1, <2>2, QuoteAfterSlot
  <2>4. QED
    BY <1>6, <2>3
<1>7. CASE b # a
  <2>1. pc' = [pc EXCEPT ![a] = pc'[a]]
    BY <1>1 DEF NextSlot, Idle, TypeOK
  <2>2. pc'[b] = pc[b]
    BY <1>7, <2>1 DEF TypeOK
  <2>3. PICK S \in SUBSET Claims, g \in [Claims -> Groups] : QuoteStands(b, S, g)
    BY <1>4, <1>5, <2>2 DEF QuotesStand
  <2>4. hand[a] = {}
    BY <1>7, <2>3 DEF QuoteStands
  <2>5. QED
    BY <1>1, <2>4 DEF PicksAreSound, LastSlotServesAll
<1>8. QED
  BY <1>6, <1>7

\* An advancer serves what its quote foresaw, or ends the promise.
LEMMA AdvancerQuotes ==
  ASSUME TypeOK, PicksAreSound, SlotsReset, QuotesStand, NEW a \in Advancers,
         \/ AdvancerStep(a) \/ RenewalFails(a) \/ RefreshStops(a)
         \/ AdvanceErrs(a) \/ Crash(a) \/ Stop(a)
  PROVE  QuotesStand'
<1>1. ASSUME UNCHANGED <<row, group, quote>>,
             \A d \in Advancers : d # a => hand'[d] = hand[d] /\ pc'[d] = pc[d] /\ slot'[d] = slot[d],
             hand[a] = {} => hand'[a] = {},
             pc'[a] \in Quoting => pc[a] \in {"sleep", "acquire"} /\ pc'[a] \in {"sleep", "acquire"}
      PROVE  QuotesStand'
  <2>1. Queued' = Queued /\ Left' = Left
    BY <1>1 DEF Queued, Left
  <2>2. \A d \in Advancers : hand[d] = {} => hand'[d] = {}
    BY <1>1
  <2>3. \A b \in Advancers : pc'[b] \in Quoting =>
            \/ pc'[b] = pc[b] /\ slot'[b] = slot[b] /\ hand'[b] = hand[b]
            \/ pc[b] \in {"sleep", "acquire"} /\ pc'[b] \in {"sleep", "acquire"}
    BY <1>1
  <2>4. QED
    BY <1>1, <2>1, <2>2, <2>3, QuotesKept
<1>2. CASE TryAcquire(a)
  <2>1. /\ pc[a] = "acquire" /\ pc' = [pc EXCEPT ![a] = "sleep"]
        /\ UNCHANGED <<row, group, quote, hand, slot>>
    BY <1>2 DEF TryAcquire, db, ghosts
  <2>2. pc'[a] = "sleep" /\ \A d \in Advancers : d # a => pc'[d] = pc[d]
    BY <2>1 DEF TypeOK
  <2>3. QED
    BY <1>1, <2>1, <2>2
<1>3. CASE Renew(a)
  <2>1. pc[a] = "sleep" /\ UNCHANGED <<row, group, quote>>
    BY <1>3 DEF Renew, db, ghosts
  <2>2. CASE LeaseHeld(a)
    <3>1. pc' = [pc EXCEPT ![a] = "read"] /\ UNCHANGED <<hand, slot>>
      BY <1>3, <2>2 DEF Renew
    <3>2. pc'[a] = "read" /\ \A d \in Advancers : d # a => pc'[d] = pc[d]
      BY <3>1 DEF TypeOK
    <3>3. QED
      BY <1>1, <2>1, <3>1, <3>2 DEF Quoting
  <2>3. CASE ~LeaseHeld(a)
    <3>1. Idle(a, "acquire")
      BY <1>3, <2>3 DEF Renew
    <3>2. /\ pc'[a] = "acquire" /\ hand'[a] = {}
          /\ \A d \in Advancers : d # a => hand'[d] = hand[d] /\ pc'[d] = pc[d] /\ slot'[d] = slot[d]
      BY <3>1 DEF Idle, TypeOK
    <3>3. QED
      BY <1>1, <2>1, <3>2
  <2>4. QED
    BY <2>2, <2>3
<1>4. CASE Read(a)
  <2>1. pc[a] = "read" /\ UNCHANGED <<row, group, quote, hand, slot>>
    BY <1>4 DEF Read, ReadBalance, db, ghosts
  <2>2. pc' \in {pc, [pc EXCEPT ![a] = "update"]}
    BY <1>4 DEF Read, ReadBalance
  <2>3. pc'[a] \in {"read", "update"} /\ \A d \in Advancers : d # a => pc'[d] = pc[d]
    BY <2>1, <2>2 DEF TypeOK
  <2>4. QED
    BY <1>1, <2>1, <2>3 DEF Quoting
<1>5. CASE Update(a)
  <2>1. CASE UpdateGroup(a)
    BY <2>1, QuoteGone DEF UpdateGroup
  <2>2. CASE ~UpdateGroup(a)
    <3>1. /\ pc[a] = "update" /\ pc' = [pc EXCEPT ![a] = "pick"]
          /\ quote' = Told(a) /\ UNCHANGED <<row, group, slot, hand>>
      BY <1>5, <2>2 DEF Update, db
    <3>2. slot'[a] = 1
      BY <3>1 DEF SlotsReset
    <3>3. QED
      BY <3>1, <3>2, QuoteAtStart
  <2>3. QED
    BY <2>1, <2>2
<1>6. CASE RefreshStops(a)
  <2>1. Idle(a, "pick") /\ UNCHANGED row
    BY <1>6 DEF RefreshStops
  <2>2. CASE group' # group
    BY <1>6, <2>2, QuoteGone DEF RefreshStops
  <2>3. CASE group' = group
    <3>1. quote' = Told(a)
      BY <1>6, <2>3 DEF RefreshStops
    <3>2. /\ pc' = [pc EXCEPT ![a] = "pick"] /\ slot'[a] = 1
          /\ \A d \in Advancers : d = a \/ hand'[d] = hand[d]
      BY <2>1 DEF Idle, TypeOK
    <3>3. QED
      BY <2>1, <2>3, <3>1, <3>2, QuoteAtStart
  <2>4. QED
    BY <2>2, <2>3
<1>7. CASE RenewalFails(a) \/ AdvanceErrs(a) \/ Crash(a) \/ Stop(a)
  BY <1>7, QuoteGone DEF RenewalFails, AdvanceErrs, Crash, Stop, DropWork
<1>8. QED
  BY <1>2, <1>3, <1>4, <1>5, <1>6, <1>7, QuoteAfterPick, QuoteAfterSkip, QuoteAfterCommit
  DEF AdvancerStep

\* Every step keeps the quotes.
LEMMA StepQuotes ==
  TypeOK /\ PicksAreSound /\ SlotsReset /\ QuotesStand /\ [Next]_vars
  => SlotsReset' /\ QuotesStand'
<1>1. ASSUME TypeOK, QuotesStand, SlotsReset, UNCHANGED vars PROVE SlotsReset' /\ QuotesStand'
  <2>1. UNCHANGED <<row, group, pc, slot, hand, quote>>
    BY <1>1 DEF vars, db, process, ghosts
  <2>2. Queued' = Queued /\ Left' = Left
    BY <2>1 DEF Queued, Left
  <2>3. QuotesStand'
    BY <1>1, <2>1, <2>2, QuotesKept
  <2>4. SlotsReset'
    BY <1>1, <2>1 DEF SlotsReset
  <2>5. QED
    BY <2>3, <2>4
<1>2. ASSUME TypeOK, PicksAreSound, SlotsReset, QuotesStand, Next PROVE SlotsReset' /\ QuotesStand'
  <2>1. SlotsReset'
    BY <1>2, StepSlots
  <2>2. QuotesStand'
    BY <1>2, AdvancerQuotes, OutsideQuotes DEF Next
  <2>3. QED
    BY <2>1, <2>2
<1>3. QED
  BY <1>1, <1>2

\* An iteration that has just followed the simulation has kept what was told.
LEMMA QuotesKeptWord ==
  ASSUME TypeOK, QuotesStand
  PROVE  QuotesHold
<1>1. SUFFICES ASSUME NEW a \in Advancers, pc[a] = "sleep", quote.by = a
               PROVE  LET told  == quote.told
                          gone  == DOMAIN told \cap Left
                          after == Standing(Queued, group)
                      IN  /\ gone = {c \in DOMAIN told : told[c].iterations = 1}
                          /\ \A c \in DOMAIN told \ gone :
                               after[c] = [position   |-> told[c].position - Cardinality(gone),
                                           iterations |-> told[c].iterations - 1]
  BY DEF QuotesHold
<1>2. PICK S \in SUBSET Claims, g \in [Claims -> Groups] : QuoteStands(a, S, g)
  BY <1>1 DEF QuotesStand, Quoting
<1>3. /\ quote.told = [c \in S |-> DrainEstimate(S, g, c)]
      /\ Queued = LeftAfter(S, g, 4) /\ S \subseteq Queued \cup Left
      /\ \A c \in S : g[c] = group[c]
  BY <1>1, <1>2 DEF QuoteStands, Standing
<1>4. group \in [Claims -> Groups] /\ Queued \cap Left = {}
  BY DEF TypeOK, Queued, Left
<1>5. CASE S = {}
  <2>1. DOMAIN quote.told = {}
    BY <1>3, <1>5
  <2>2. QED
    BY <2>1
<1>6. CASE S # {}
  <2>1. Queued = SimLeft(S, g)[4]
    BY <1>3, <1>6 DEF LeftAfter
  <2>2. Leaves(S, g, group, Queued)
    BY <1>3, <1>4, <1>6, <2>1 DEF Leaves
  <2>3. S \cap Left = S \ Queued
    BY <1>3, <1>4
  <2>4. PICK Z, n, D : Z = Queued /\ n = Cardinality(S \ Queued)
                       /\ D = [c \in S |-> DrainEstimate(S, g, c)]
    OBVIOUS
  <2>5. ASSUME NEW c \in S
        PROVE  /\ D[c].iterations = 1 <=> c \notin Z
               /\ c \in Z => DrainEstimate(Z, group, c) =
                    [position |-> D[c].position - n, iterations |-> D[c].iterations - 1]
    <3>1. D[c] = DrainEstimate(S, g, c)
      BY <2>4
    <3>2. /\ DrainEstimate(S, g, c).iterations = 1 <=> c \notin Z
          /\ c \in Z => DrainEstimate(Z, group, c) =
               [position   |-> DrainEstimate(S, g, c).position - Cardinality(S \ Z),
                iterations |-> DrainEstimate(S, g, c).iterations - 1]
      BY <2>2, <2>4, EstimateHolds
    <3>3. QED
      BY <2>4, <3>1, <3>2
  <2>6. S \ Z = {c \in S : D[c].iterations = 1}
    BY <2>5
  <2>7. ASSUME NEW c \in S, c \in Z
        PROVE  Standing(Z, group)[c] = [position |-> D[c].position - n, iterations |-> D[c].iterations - 1]
    BY <2>5, <2>7 DEF Standing
  <2>8. DOMAIN quote.told = S /\ quote.told = D
    BY <1>3, <2>4
  <2>9. DOMAIN quote.told \cap Left = S \ Z
    BY <2>3, <2>4, <2>8
  <2>10. S \ (S \ Z) \subseteq Z
    OBVIOUS
  <2>11. QED
    BY <2>4, <2>6, <2>7, <2>8, <2>9, <2>10
<1>7. QED
  BY <1>5, <1>6

\* The drain estimate keeps its word: for any number of claims, in any groups, an
\* undisturbed iteration promotes exactly the claims told "1 iteration", and tells
\* every other claim one iteration less and as many positions less as went.
THEOREM QuotesExact == Spec => []QuotesHold
<1>1. Init => SlotsReset /\ QuotesStand
  BY InitQuotes
<1>2. TypeOK /\ PicksAreSound /\ SlotsReset /\ QuotesStand /\ [Next]_vars
      => SlotsReset' /\ QuotesStand'
  BY StepQuotes
<1>3. TypeOK /\ QuotesStand => QuotesHold
  BY QuotesKeptWord
<1>4. QED
  BY <1>1, <1>2, <1>3, TypeCorrect, PicksSound, PTL DEF Spec
================================================================================
