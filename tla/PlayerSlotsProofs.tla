------------------------- MODULE PlayerSlotsProofs -------------------------
(***************************************************************************)
(* The safety of PlayerSlots.tla, for any players, sessions, matches and   *)
(* inputs.  HoldIsPublished: a hold slot is written from what a handler    *)
(* has in hand, which it took from a slot of its game loop, which a        *)
(* published tick or a hold slot wrote; the invariant says of all three    *)
(* that what they hold was published, and that a handler that saves a slot *)
(* finds one.  InputsCountOnce and the types follow in the second part,    *)
(* from an invariant on the inputs still queued.                           *)
(***************************************************************************)
EXTENDS PlayerSlots, TLAPS

NatSlot == [moves : Nat, connected : BOOLEAN]

\* The types the argument needs; that moves stay within MaxInputs is InputsCountOnce's.
SlotTypes == /\ pc \in [Session -> {"new", "auth", "asked", "answered", "deleting", "open", "holding", "gone"}]
             /\ loop \in [Session -> Match]
             /\ got \in [Session -> {None} \cup Nat]
             /\ match \in Match
             /\ slots \in [Match -> [Player -> {None} \cup NatSlot]]
             /\ inputs \in [Match -> [Player -> Nat]]
             /\ copy \in [Player -> {None} \cup NatSlot]
             /\ logged \in [Match -> [Player -> SUBSET Nat]]
             /\ hold \in [Player -> {None} \cup Nat]

OpenHasSlot == \A s \in Session : pc[s] \in {"deleting", "open"} => SlotOf(s) # None

SlotsArePublished == \A m \in Match, p \in Player :
                         slots[m][p] # None => WasPublished(p, slots[m][p].moves)

InHandIsPublished == \A s \in Session : got[s] # None => WasPublished(Owner[s], got[s])

IInv == /\ SlotTypes
        /\ OpenHasSlot
        /\ SlotsArePublished
        /\ InHandIsPublished
        /\ HoldIsPublished

\* A slot set by a handler is the only one that changes.
LEMMA SetSlotTyped ==
    ASSUME SlotTypes, NEW s \in Session, NEW slot \in NatSlot, SetSlot(s, slot)
    PROVE  /\ slots' \in [Match -> [Player -> {None} \cup NatSlot]]
           /\ slots'[loop[s]][Owner[s]] = slot
           /\ \A m \in Match, p \in Player :
                  m # loop[s] \/ p # Owner[s] => slots'[m][p] = slots[m][p]
           /\ slot # None
<1>1. loop[s] \in Match /\ Owner[s] \in Player
  BY OwnerAssumption DEF SlotTypes
<1>2. slot # None
  BY NoneAssumption DEF NatSlot
<1> QED BY <1>1, <1>2 DEF SlotTypes, SetSlot

\* The slot of a player who comes back without a hold slot.
LEMMA EnterSlotTyped ==
    ASSUME SlotTypes, NEW s \in Session, EnterSlot(s)
    PROVE  \E slot \in NatSlot : /\ SetSlot(s, slot)
                                 /\ slot.moves = IF SlotOf(s) = None THEN 0 ELSE SlotOf(s).moves
<1>1. SlotOf(s) \in {None} \cup NatSlot
  BY OwnerAssumption DEF SlotTypes, SlotOf
<1>2. CASE SlotOf(s) = None
  <2>1. NewSlot \in NatSlot /\ NewSlot.moves = 0
    BY DEF NewSlot, NatSlot
  <2> QED BY <1>2, <2>1 DEF EnterSlot
<1>3. CASE SlotOf(s) # None
  <2> DEFINE slot == [SlotOf(s) EXCEPT !.connected = TRUE]
  <2>1. slot \in NatSlot /\ slot.moves = SlotOf(s).moves
    BY <1>1, <1>3 DEF NatSlot
  <2>2. SetSlot(s, slot)
    BY <1>3 DEF EnterSlot
  <2> QED BY <1>3, <2>1, <2>2
<1> QED BY <1>2, <1>3

\* The initial states satisfy the invariant.
LEMMA InitInvariant == Init => IInv
<1> SUFFICES ASSUME Init PROVE IInv
  OBVIOUS
<1>1. 1 \in Match
  BY BoundAssumption DEF Match
<1>2. SlotTypes
  BY <1>1 DEF Init, SlotTypes, Empty
<1>3. OpenHasSlot
  BY DEF Init, OpenHasSlot
<1>4. SlotsArePublished /\ InHandIsPublished /\ HoldIsPublished
  BY DEF Init, SlotsArePublished, InHandIsPublished, HoldIsPublished, Empty
<1> QED BY <1>2, <1>3, <1>4 DEF IInv

\* What was published stays published.
LEMMA PublishedStays ==
    ASSUME SlotTypes, match' \in Match, match' >= match,
           \A m \in Match, p \in Player : logged[m][p] \subseteq logged'[m][p],
           NEW p \in Player, NEW n \in Nat, WasPublished(p, n)
    PROVE  WasPublished(p, n)'
<1>1. CASE n = 0
  BY <1>1 DEF WasPublished
<1>2. CASE n # 0
  <2>1. PICK m \in 1 .. match : n \in logged[m][p]
    BY <1>2 DEF WasPublished
  <2>2. m \in Match /\ m \in 1 .. match'
    <3>1. MaxMatches \in Nat /\ match \in 1 .. MaxMatches /\ match' \in 1 .. MaxMatches
      BY BoundAssumption DEF SlotTypes, Match
    <3> QED BY <3>1, <2>1 DEF Match
  <2> QED BY <2>1, <2>2 DEF WasPublished
<1> QED BY <1>1, <1>2

\* A handler that sets a slot to published moves disturbs nothing.
LEMMA SetSlotKeeps ==
    ASSUME SlotTypes, SlotsArePublished, UNCHANGED <<loop, logged, match>>,
           NEW s \in Session, NEW slot \in NatSlot, SetSlot(s, slot),
           WasPublished(Owner[s], slot.moves)
    PROVE  /\ SlotsArePublished'
           /\ SlotOf(s)' # None
           /\ \A t \in Session : SlotOf(t) # None => SlotOf(t)' # None
<1>1. /\ slots'[loop[s]][Owner[s]] = slot /\ slot # None
      /\ \A m \in Match, p \in Player : m # loop[s] \/ p # Owner[s] => slots'[m][p] = slots[m][p]
  BY SetSlotTyped
<1>2. \A t \in Session : loop[t] \in Match /\ Owner[t] \in Player
  BY OwnerAssumption DEF SlotTypes
<1> USE DEF WasPublished
<1>3. SlotsArePublished'
  <2> SUFFICES ASSUME NEW m \in Match, NEW p \in Player, slots'[m][p] # None
               PROVE  WasPublished(p, slots[m][p].moves)'
    BY DEF SlotsArePublished
  <2>1. CASE m = loop[s] /\ p = Owner[s]
    BY <1>1, <2>1 DEF NatSlot
  <2>2. CASE m # loop[s] \/ p # Owner[s]
    <3>1. slots'[m][p] = slots[m][p]
      BY <1>1, <2>2
    <3>2. slots[m][p] \in NatSlot
      BY <3>1 DEF SlotTypes
    <3> QED BY <3>1, <3>2 DEF SlotsArePublished, NatSlot
  <2> QED BY <2>1, <2>2
<1>4. SlotOf(s)' # None
  BY <1>1 DEF SlotOf
<1>5. \A t \in Session : SlotOf(t) # None => SlotOf(t)' # None
  <2> SUFFICES ASSUME NEW t \in Session, SlotOf(t) # None PROVE SlotOf(t)' # None
    OBVIOUS
  <2>1. CASE loop[t] = loop[s] /\ Owner[t] = Owner[s]
    BY <1>1, <2>1 DEF SlotOf
  <2>2. CASE loop[t] # loop[s] \/ Owner[t] # Owner[s]
    BY <1>1, <1>2, <2>2 DEF SlotOf
  <2> QED BY <2>1, <2>2
<1> QED BY <1>3, <1>4, <1>5

\* What a handler saves was published.
LEMMA SlotMoves ==
    ASSUME SlotTypes, SlotsArePublished, NEW s \in Session, SlotOf(s) # None
    PROVE  /\ SlotOf(s) \in NatSlot
           /\ SlotOf(s).moves \in Nat
           /\ WasPublished(Owner[s], SlotOf(s).moves)
<1>1. loop[s] \in Match /\ Owner[s] \in Player
  BY OwnerAssumption DEF SlotTypes
<1>2. SlotOf(s) \in NatSlot
  BY <1>1 DEF SlotTypes, SlotOf
<1> QED BY <1>1, <1>2 DEF SlotOf, SlotsArePublished, NatSlot

\* Each step of a session's handler keeps the invariant.
LEMMA HandlerStep == ASSUME IInv, NEW s \in Session, Handler(s) PROVE IInv'
<1> USE DEF IInv
<1>o. Owner[s] \in Player /\ loop[s] \in Match
  BY OwnerAssumption DEF SlotTypes
<1>1. CASE Accept(s)
  <2>1. UNCHANGED <<got, match, slots, inputs, copy, logged, hold>> /\ pc' = [pc EXCEPT ![s] = "auth"]
        /\ loop' = [loop EXCEPT ![s] = match]
    BY <1>1 DEF Accept, Goes, game
  <2>2. SlotTypes'
    BY <2>1 DEF SlotTypes
  <2>3. OpenHasSlot'
    BY <2>1 DEF SlotTypes, OpenHasSlot, SlotOf
  <2> QED BY <2>1, <2>2, <2>3 DEF SlotsArePublished, InHandIsPublished, HoldIsPublished, WasPublished
<1>2. CASE Join(s) \/ Breaks(s)
  <2>1. UNCHANGED <<loop, got, match, slots, inputs, copy, logged, hold>>
        /\ \E at \in {"asked", "gone"} : pc' = [pc EXCEPT ![s] = at]
    BY <1>2 DEF Join, Breaks, Goes, game
  <2>2. SlotTypes'
    BY <2>1 DEF SlotTypes
  <2>3. OpenHasSlot'
    BY <2>1 DEF SlotTypes, OpenHasSlot, SlotOf
  <2> QED BY <2>1, <2>2, <2>3 DEF SlotsArePublished, InHandIsPublished, HoldIsPublished, WasPublished
<1>3. CASE GetHold(s)
  <2>1. UNCHANGED <<loop, match, slots, inputs, copy, logged, hold>> /\ pc' = [pc EXCEPT ![s] = "answered"]
        /\ got' = [got EXCEPT ![s] = hold[Owner[s]]]
    BY <1>3 DEF GetHold, Goes, game
  <2>2. SlotTypes'
    BY <1>o, <2>1 DEF SlotTypes
  <2>3. OpenHasSlot'
    BY <2>1 DEF SlotTypes, OpenHasSlot, SlotOf
  <2>4. InHandIsPublished'
    BY <1>o, <2>1 DEF SlotTypes, InHandIsPublished, HoldIsPublished, WasPublished
  <2> QED BY <2>1, <2>2, <2>3, <2>4 DEF SlotsArePublished, HoldIsPublished, WasPublished
<1>4. CASE AddPlayer(s)
  <2>1. UNCHANGED <<loop, match, inputs, copy, logged, hold>> /\ got' = [got EXCEPT ![s] = None]
        /\ \E at \in {"deleting", "open"} : pc' = [pc EXCEPT ![s] = at]
    BY <1>4 DEF AddPlayer, Goes, game
  <2>2. \E slot \in NatSlot : SetSlot(s, slot) /\ WasPublished(Owner[s], slot.moves)
    <3>1. CASE got[s] # None
      <4>1. SetSlot(s, [moves |-> got[s], connected |-> TRUE])
        BY <1>4, <3>1 DEF AddPlayer, RestoreSlot
      <4>2. got[s] \in Nat
        BY <3>1 DEF SlotTypes
      <4>3. WasPublished(Owner[s], got[s])
        BY <3>1 DEF InHandIsPublished
      <4> DEFINE slot == [moves |-> got[s], connected |-> TRUE]
      <4>4. slot \in NatSlot /\ slot.moves = got[s]
        BY <4>2 DEF NatSlot
      <4> QED BY <4>1, <4>3, <4>4
    <3>2. CASE got[s] = None
      <4>1. EnterSlot(s)
        BY <1>4, <3>2 DEF AddPlayer
      <4>2. WasPublished(Owner[s], 0)
        BY DEF WasPublished
      <4> QED BY <4>1, <4>2, EnterSlotTyped, SlotMoves
    <3> QED BY <3>1, <3>2
  <2>3. slots' \in [Match -> [Player -> {None} \cup NatSlot]]
    BY <2>2, SetSlotTyped
  <2>4. SlotTypes'
    BY <2>1, <2>3 DEF SlotTypes
  <2>5. SlotsArePublished' /\ SlotOf(s)' # None /\ \A t \in Session : SlotOf(t) # None => SlotOf(t)' # None
    BY <2>1, <2>2, SetSlotKeeps
  <2>6. OpenHasSlot'
    BY <2>1, <2>5 DEF SlotTypes, OpenHasSlot
  <2>7. InHandIsPublished'
    BY <2>1 DEF SlotTypes, InHandIsPublished, WasPublished
  <2> QED BY <2>1, <2>4, <2>5, <2>6, <2>7 DEF HoldIsPublished, WasPublished
<1>5. CASE DeleteHold(s)
  <2>1. UNCHANGED <<loop, got, match, slots, inputs, copy, logged>> /\ pc[s] = "deleting"
        /\ pc' = [pc EXCEPT ![s] = "open"] /\ hold' = [hold EXCEPT ![Owner[s]] = None]
    BY <1>5 DEF DeleteHold, Goes, game
  <2>2. SlotTypes'
    BY <1>o, <2>1 DEF SlotTypes
  <2>3. OpenHasSlot'
    BY <2>1 DEF SlotTypes, OpenHasSlot, SlotOf
  <2>4. HoldIsPublished'
    BY <1>o, <2>1 DEF SlotTypes, HoldIsPublished, WasPublished
  <2> QED BY <2>1, <2>2, <2>3, <2>4 DEF SlotsArePublished, InHandIsPublished, WasPublished
<1>6. CASE AddRaises(s)
  <2>1. UNCHANGED <<loop, got, match, inputs, copy, logged, hold>>
    BY <1>6 DEF AddRaises, game
  <2>2. CASE pc' = [pc EXCEPT ![s] = "gone"] /\ UNCHANGED slots
    <3>1. SlotTypes'
      BY <2>1, <2>2 DEF SlotTypes
    <3>2. OpenHasSlot'
      BY <2>1, <2>2 DEF SlotTypes, OpenHasSlot, SlotOf
    <3> QED BY <2>1, <2>2, <3>1, <3>2 DEF SlotsArePublished, InHandIsPublished, HoldIsPublished, WasPublished
  <2>3. CASE pc' = [pc EXCEPT ![s] = "open"] /\ EnterSlot(s)
    <3>1. \E slot \in NatSlot : SetSlot(s, slot) /\ WasPublished(Owner[s], slot.moves)
      <4>1. WasPublished(Owner[s], 0)
        BY DEF WasPublished
      <4> QED BY <2>3, <4>1, EnterSlotTyped, SlotMoves
    <3>2. slots' \in [Match -> [Player -> {None} \cup NatSlot]]
      BY <3>1, SetSlotTyped
    <3>3. SlotTypes'
      BY <2>1, <2>3, <3>2 DEF SlotTypes
    <3>4. SlotsArePublished' /\ SlotOf(s)' # None /\ \A t \in Session : SlotOf(t) # None => SlotOf(t)' # None
      BY <2>1, <3>1, SetSlotKeeps
    <3>5. OpenHasSlot'
      BY <2>3, <3>4 DEF SlotTypes, OpenHasSlot
    <3> QED BY <2>1, <3>3, <3>4, <3>5 DEF InHandIsPublished, HoldIsPublished, WasPublished
  <2> QED BY <1>6, <2>2, <2>3 DEF AddRaises, Goes
<1>7. CASE Receive(s)
  <2>1. UNCHANGED <<pc, loop, got, match, slots, copy, logged, hold>>
        /\ inputs' = [inputs EXCEPT ![loop[s]][Owner[s]] = @ + 1]
    BY <1>7 DEF Receive, sessions, game
  <2>2. inputs' \in [Match -> [Player -> Nat]]
    BY <1>o, <2>1 DEF SlotTypes
  <2>3. SlotTypes'
    BY <2>1, <2>2 DEF SlotTypes
  <2> QED BY <2>1, <2>3 DEF OpenHasSlot, SlotOf, SlotsArePublished, InHandIsPublished, HoldIsPublished, WasPublished
<1>8. CASE Disconnect(s)
  <2>1. UNCHANGED <<loop, match, inputs, copy, logged, hold>> /\ pc[s] = "open"
        /\ pc' = [pc EXCEPT ![s] = "holding"] /\ got' = [got EXCEPT ![s] = SlotOf(s).moves]
    BY <1>8 DEF Disconnect, Goes, game, SavedSlot
  <2>2. SlotOf(s) \in NatSlot /\ SlotOf(s).moves \in Nat /\ WasPublished(Owner[s], SlotOf(s).moves)
    BY <2>1, SlotMoves DEF OpenHasSlot
  <2> DEFINE slot == [SlotOf(s) EXCEPT !.connected = FALSE]
  <2>3. slot \in NatSlot /\ slot.moves = SlotOf(s).moves
    BY <2>2 DEF NatSlot
  <2>4. SetSlot(s, slot) /\ WasPublished(Owner[s], slot.moves)
    BY <1>8, <2>2, <2>3 DEF Disconnect
  <2> HIDE DEF slot
  <2>5. slots' \in [Match -> [Player -> {None} \cup NatSlot]]
    BY <2>3, <2>4, SetSlotTyped
  <2>6. SlotTypes'
    BY <2>1, <2>2, <2>5 DEF SlotTypes
  <2>7. SlotsArePublished' /\ \A t \in Session : SlotOf(t) # None => SlotOf(t)' # None
    BY <2>1, <2>3, <2>4, SetSlotKeeps
  <2>8. OpenHasSlot'
    BY <2>1, <2>7 DEF SlotTypes, OpenHasSlot
  <2>9. InHandIsPublished'
    BY <2>1, <2>2 DEF SlotTypes, InHandIsPublished, WasPublished
  <2> QED BY <2>1, <2>6, <2>7, <2>8, <2>9 DEF HoldIsPublished, WasPublished
<1>9. CASE SaveHold(s)
  <2>1. UNCHANGED <<loop, match, slots, inputs, copy, logged>> /\ pc' = [pc EXCEPT ![s] = "gone"]
        /\ got' = [got EXCEPT ![s] = None]
        /\ (hold' = [hold EXCEPT ![Owner[s]] = got[s]] \/ UNCHANGED hold)
    BY <1>9 DEF SaveHold, Goes, game
  <2>2. SlotTypes'
    BY <1>o, <2>1 DEF SlotTypes
  <2>3. OpenHasSlot'
    BY <2>1 DEF SlotTypes, OpenHasSlot, SlotOf
  <2>4. HoldIsPublished'
    BY <1>o, <2>1 DEF SlotTypes, HoldIsPublished, InHandIsPublished, WasPublished
  <2>5. InHandIsPublished'
    BY <2>1 DEF SlotTypes, InHandIsPublished, WasPublished
  <2> QED BY <2>1, <2>2, <2>3, <2>4, <2>5 DEF SlotsArePublished, WasPublished
<1> QED BY <1>1, <1>2, <1>3, <1>4, <1>5, <1>6, <1>7, <1>8, <1>9 DEF Handler

\* Each step of the game loop keeps the invariant.
LEMMA GameLoopStep == ASSUME IInv, GameLoop PROVE IInv'
<1> USE DEF IInv
<1>1. CASE BeginTick \/ NotPublished
  <2>1. UNCHANGED <<pc, loop, got, match, slots, logged, hold>>
    BY <1>1 DEF BeginTick, NotPublished, sessions
  <2>2. inputs' \in [Match -> [Player -> Nat]]
    <3>1. CASE BeginTick
      BY <3>1 DEF BeginTick, Drained, SlotTypes
    <3>2. CASE NotPublished
      BY <3>2 DEF NotPublished, SlotTypes
    <3> QED BY <1>1, <3>1, <3>2
  <2>3. copy' \in [Player -> {None} \cup NatSlot]
    <3>1. CASE NotPublished
      BY <3>1 DEF NotPublished, Empty
    <3>2. CASE BeginTick
      <4> SUFFICES ASSUME NEW p \in Player PROVE Computed[p] \in {None} \cup NatSlot
        BY <3>2 DEF BeginTick, Computed
      <4>1. slots[match][p] \in {None} \cup NatSlot /\ inputs[match][p] \in Nat
        BY DEF SlotTypes
      <4>2. CASE slots[match][p] = None
        BY <4>1, <4>2 DEF Computed, NewSlot, NatSlot
      <4>3. CASE slots[match][p] # None
        BY <4>1, <4>3 DEF Computed, NatSlot
      <4> QED BY <4>2, <4>3
    <3> QED BY <1>1, <3>1, <3>2
  <2>4. SlotTypes'
    BY <2>1, <2>2, <2>3 DEF SlotTypes
  <2> QED BY <2>1, <2>4 DEF OpenHasSlot, SlotOf, SlotsArePublished, InHandIsPublished, HoldIsPublished, WasPublished
<1>2. CASE Published
  <2>1. UNCHANGED <<pc, loop, got, match, inputs, hold>> /\ copy' = Empty
        /\ slots' = [slots EXCEPT ![match] = [p \in Player |-> IF copy[p] = None THEN @[p] ELSE copy[p]]]
        /\ logged' = [logged EXCEPT ![match] = [p \in Player |->
                          IF copy[p] = None THEN @[p] ELSE @[p] \cup {copy[p].moves}]]
    BY <1>2 DEF Published, sessions
  <2>2. match \in Match /\ match \in 1 .. match /\ \A p \in Player : copy[p] # None => copy[p].moves \in Nat
    BY BoundAssumption DEF SlotTypes, NatSlot, Match
  <2>3. SlotTypes'
    <3>1. slots' \in [Match -> [Player -> {None} \cup NatSlot]]
      BY <2>1 DEF SlotTypes
    <3>2. logged' \in [Match -> [Player -> SUBSET Nat]]
      BY <2>1, <2>2 DEF SlotTypes
    <3> QED BY <2>1, <3>1, <3>2 DEF SlotTypes, Empty
  <2>4. \A m \in Match, p \in Player : logged[m][p] \subseteq logged'[m][p]
    BY <2>1 DEF SlotTypes
  <2>5. \A m \in Match, p \in Player : slots[m][p] # None => slots'[m][p] # None
    BY <2>1 DEF SlotTypes
  <2>6. OpenHasSlot'
    BY <2>1, <2>5, OwnerAssumption DEF OpenHasSlot, SlotOf, SlotTypes
  <2>7. \A p \in Player, n \in Nat : WasPublished(p, n) => WasPublished(p, n)'
    BY <2>1, <2>2, <2>4 DEF WasPublished, SlotTypes, Match
  <2>8. SlotsArePublished'
    <3> SUFFICES ASSUME NEW m \in Match, NEW p \in Player, (slots[m][p] # None)'
                 PROVE  WasPublished(p, slots[m][p].moves)'
      BY DEF SlotsArePublished
    <3>1. CASE m = match /\ copy[p] # None
      <4>1. slots'[m][p] = copy[p] /\ copy[p].moves \in logged'[m][p]
        BY <2>1, <2>2, <3>1 DEF SlotTypes
      <4> QED BY <2>1, <2>2, <3>1, <4>1 DEF WasPublished
    <3>2. CASE ~(m = match /\ copy[p] # None)
      <4>1. slots'[m][p] = slots[m][p]
        BY <2>1, <3>2 DEF SlotTypes
      <4>2. slots[m][p] # None /\ slots[m][p] \in NatSlot
        BY <4>1 DEF SlotTypes
      <4>3. WasPublished(p, slots[m][p].moves)
        BY <4>2 DEF SlotsArePublished
      <4> QED BY <2>1, <2>4, <4>1, <4>3, <2>2 DEF WasPublished, SlotTypes, Match
    <3> QED BY <3>1, <3>2
  <2>9. InHandIsPublished' /\ HoldIsPublished'
    <3>1. ASSUME NEW s \in Session, got[s] # None PROVE WasPublished(Owner[s], got[s])'
      <4>1. WasPublished(Owner[s], got[s]) /\ Owner[s] \in Player /\ got[s] \in Nat
        BY <3>1, OwnerAssumption DEF InHandIsPublished, SlotTypes
      <4> QED BY <2>1, <2>2, <2>4, <4>1 DEF WasPublished, SlotTypes, Match
    <3>2. ASSUME NEW p \in Player, hold[p] # None PROVE WasPublished(p, hold[p])'
      <4>1. WasPublished(p, hold[p])
        BY <3>2 DEF HoldIsPublished
      <4> QED BY <2>1, <2>2, <2>4, <4>1 DEF WasPublished, SlotTypes, Match
    <3> QED BY <2>1, <3>1, <3>2 DEF InHandIsPublished, HoldIsPublished
  <2> QED BY <2>3, <2>6, <2>8, <2>9
<1>3. CASE Stored \/ StoreRaises \/ ClearTable
  <2>1. UNCHANGED <<pc, loop, got, match, slots, inputs, copy, logged, hold>>
    BY <1>3 DEF Stored, StoreRaises, ClearTable, sessions
  <2>2. SlotTypes'
    BY <2>1 DEF SlotTypes
  <2> QED BY <2>1, <2>2 DEF OpenHasSlot, SlotOf, SlotsArePublished, InHandIsPublished, HoldIsPublished, WasPublished
<1>4. CASE LastTick
  <2>1. UNCHANGED <<pc, loop, got, match, inputs, copy, logged, hold>>
        /\ slots' = [slots EXCEPT ![match] = [p \in Player |-> Left(slots[match][p])]]
    BY <1>4 DEF LastTick, sessions
  <2>2. \A m \in Match, p \in Player :
            /\ slots[m][p] = None => slots'[m][p] = None
            /\ slots[m][p] # None => slots'[m][p] \in NatSlot /\ slots'[m][p].moves = slots[m][p].moves
    <3> SUFFICES ASSUME NEW m \in Match, NEW p \in Player
                 PROVE  /\ slots[m][p] = None => slots'[m][p] = None
                        /\ slots[m][p] # None => slots'[m][p] \in NatSlot /\ slots'[m][p].moves = slots[m][p].moves
      OBVIOUS
    <3>1. slots[m][p] \in {None} \cup NatSlot
      BY DEF SlotTypes
    <3>2. slots'[m][p] = IF m = match THEN Left(slots[m][p]) ELSE slots[m][p]
      BY <2>1 DEF SlotTypes
    <3> QED BY <3>1, <3>2 DEF Left, NatSlot
  <2>3. SlotTypes'
    <3>1. \A m \in Match, p \in Player : slots'[m][p] \in {None} \cup NatSlot
      BY <2>2
    <3>2. slots' = [m \in Match |-> [p \in Player |-> slots'[m][p]]]
      BY <2>1 DEF SlotTypes
    <3>3. slots' \in [Match -> [Player -> {None} \cup NatSlot]]
      BY <3>1, <3>2
    <3> QED BY <2>1, <3>3 DEF SlotTypes
  <2>4. OpenHasSlot'
    BY <2>1, <2>2, OwnerAssumption, NoneAssumption DEF OpenHasSlot, SlotOf, SlotTypes, NatSlot
  <2>5. SlotsArePublished'
    BY <2>1, <2>2 DEF SlotsArePublished, WasPublished
  <2> QED BY <2>1, <2>3, <2>4, <2>5 DEF InHandIsPublished, HoldIsPublished, WasPublished
<1>5. CASE NextMatch
  <2>1. UNCHANGED <<pc, loop, got, slots, inputs, copy, logged, hold>>
        /\ match' = match + 1 /\ match < MaxMatches
    BY <1>5 DEF NextMatch, sessions
  <2>2. match' \in Match /\ 1 .. match \subseteq 1 .. match'
    BY <2>1, BoundAssumption DEF SlotTypes, Match
  <2>3. SlotTypes'
    BY <2>1, <2>2 DEF SlotTypes
  <2> QED BY <2>1, <2>2, <2>3
          DEF OpenHasSlot, SlotOf, SlotsArePublished, InHandIsPublished, HoldIsPublished, WasPublished
<1> QED BY <1>1, <1>2, <1>3, <1>4, <1>5 DEF GameLoop

\* Every step keeps the invariant.
LEMMA NextInvariant == IInv /\ [Next]_vars => IInv'
<1> SUFFICES ASSUME IInv, [Next]_vars PROVE IInv'
  OBVIOUS
<1>1. ASSUME NEW s \in Session, Handler(s) PROVE IInv'
  BY <1>1, HandlerStep
<1>2. ASSUME NEW p \in Player, HoldGoes(p) PROVE IInv'
  <2>1. UNCHANGED <<pc, loop, got, match, slots, inputs, copy, logged>>
        /\ (UNCHANGED hold \/ hold' = [hold EXCEPT ![p] = None])
    BY <1>2 DEF HoldGoes, sessions, game
  <2>2. SlotTypes'
    BY <2>1 DEF IInv, SlotTypes
  <2>3. HoldIsPublished'
    BY <2>1 DEF IInv, SlotTypes, HoldIsPublished, WasPublished
  <2> QED BY <2>1, <2>2, <2>3 DEF IInv, OpenHasSlot, SlotOf, SlotsArePublished, InHandIsPublished, WasPublished
<1>3. CASE GameLoop
  BY <1>3, GameLoopStep
<1>4. CASE Broadcast \/ UNCHANGED vars
  <2>1. UNCHANGED <<pc, loop, got, match, slots, inputs, copy, logged, hold>>
    BY <1>4 DEF Broadcast, Send, sessions, game, vars
  <2>2. SlotTypes'
    BY <2>1 DEF IInv, SlotTypes
  <2> QED BY <2>1, <2>2 DEF IInv, OpenHasSlot, SlotOf, SlotsArePublished, InHandIsPublished, HoldIsPublished, WasPublished
<1> QED BY <1>1, <1>2, <1>3, <1>4 DEF Next

(***************************************************************************)
(* Whatever is saved to or restored from a hold slot was in a published    *)
(* event, with any number of sessions per player, ticks in flight, failing *)
(* calls and matches (HoldIsPublished: remove_player, add_player,          *)
(* _process_tick).                                                         *)
(***************************************************************************)
THEOREM HoldPublished == Spec => []HoldIsPublished
<1>1. IInv => HoldIsPublished
  BY DEF IInv
<1> QED BY <1>1, InitInvariant, NextInvariant, PTL DEF Spec

-----------------------------------------------------------------------------
(***************************************************************************)
(* InputsCountOnce, and the types that follow from it.  An input is in the *)
(* queue of one game loop until a tick takes it, so what any slot, hold    *)
(* slot, handler or tick in flight says of a player must fit beside the    *)
(* inputs still queued: those of the current match, which the next tick    *)
(* takes, together with those of any other match.                          *)
(***************************************************************************)

\* A match that has not begun has no sessions and no inputs.
NothingBefore == /\ \A s \in Session : loop[s] <= match
                 /\ \A m \in Match, p \in Player : m > match => inputs[m][p] = 0

Queued(p, m) == inputs[match][p] + (IF m = match THEN 0 ELSE inputs[m][p])
Fits(p, n) == \A m \in Match : n + Queued(p, m) <= sent[p]

Credited == \A p \in Player :
               /\ Fits(p, 0)
               /\ \A m \in Match : slots[m][p] # None => Fits(p, slots[m][p].moves)
               /\ copy[p] # None => Fits(p, copy[p].moves)
               /\ hold[p] # None => Fits(p, hold[p])
               /\ \A s \in Session : Owner[s] = p /\ got[s] # None => Fits(p, got[s])

\* The types IInv does not speak of, and those that hold because inputs are bounded.
OtherTypes == /\ socket \in [Player -> {None} \cup Session]
              /\ stage \in {"sleep", "publish", "store", "ending", "over"}
              /\ cast \in [unsent : SUBSET Player, dead : SUBSET Player, broken : BOOLEAN]
              /\ sent \in [Player -> Moves]
              /\ faults \in 0 .. MaxFaults

LoggedMoves == logged \in [Match -> [Player -> SUBSET Moves]]

CInv == OtherTypes /\ LoggedMoves /\ NothingBefore /\ Credited

-----------------------------------------------------------------------------
(* How a step changes the queues *)

\* Which steps change what has been queued and sent.
LEMMA QueueStep ==
    ASSUME Next
    PROVE  \/ UNCHANGED <<match, inputs, sent>>
           \/ \E s \in Session : Receive(s)
           \/ BeginTick
           \/ NextMatch
  BY DEF Next, Handler, Accept, Join, GetHold, AddPlayer, DeleteHold, AddRaises, Receive,
         Disconnect, SaveHold, Breaks, GameLoop, BeginTick, Published, NotPublished, Stored,
         StoreRaises, LastTick, ClearTable, NextMatch, HoldGoes, Broadcast, Send,
         sessions, game

LEMMA NothingBeforeStep == ASSUME IInv, CInv, Next PROVE NothingBefore'
<1> USE OwnerAssumption, BoundAssumption DEF IInv, CInv, SlotTypes, NothingBefore, Match
<1>1. \A s \in Session : loop'[s] \in {loop[s], match}
  BY DEF Next, Handler, Accept, Join, GetHold, AddPlayer, DeleteHold, AddRaises, Receive,
         Disconnect, SaveHold, Breaks, GameLoop, BeginTick, Published, NotPublished, Stored,
         StoreRaises, LastTick, ClearTable, NextMatch, HoldGoes, Broadcast, Send,
         sessions, game
<1>2. CASE UNCHANGED <<match, inputs, sent>>
  <2>1. ASSUME NEW s \in Session PROVE loop'[s] <= match'
    <3>1. loop[s] \in Nat /\ match \in Nat /\ loop[s] <= match /\ match' = match
      BY <1>2
    <3>2. loop'[s] = loop[s] \/ loop'[s] = match
      BY <1>1
    <3> QED BY <3>1, <3>2
  <2>2. ASSUME NEW m \in Match, NEW p \in Player, m > match' PROVE inputs'[m][p] = 0
    BY <1>2, <2>2
  <2> QED BY <2>1, <2>2
<1>3. ASSUME NEW s \in Session, Receive(s) PROVE NothingBefore'
  <2>1. UNCHANGED <<loop, match>> /\ inputs' = [inputs EXCEPT ![loop[s]][Owner[s]] = @ + 1]
    BY <1>3 DEF Receive, sessions, game
  <2>2. \A m \in Match, p \in Player : m # loop[s] => inputs'[m][p] = inputs[m][p]
    BY <2>1
  <2> QED BY <2>1, <2>2
<1>4. CASE BeginTick
  <2>1. UNCHANGED <<loop, match>> /\ inputs' = [inputs EXCEPT ![match] = [p \in Player |-> 0]]
    BY <1>4 DEF BeginTick, Drained, sessions
  <2> QED BY <2>1
<1>5. CASE NextMatch
  <2>1. UNCHANGED <<loop, inputs>> /\ match' = match + 1
    BY <1>5 DEF NextMatch, sessions
  <2> QED BY <2>1
<1> QED BY <1>2, <1>3, <1>4, <1>5, QueueStep

\* What fits stays so: a new input is sent as it is queued, and a tick only takes away.
LEMMA FitsStays ==
    ASSUME IInv, CInv, Next, NEW p \in Player, NEW n \in Nat, Fits(p, n)
    PROVE  Fits(p, n)'
<1> USE OwnerAssumption, BoundAssumption DEF IInv, CInv, SlotTypes
<1>0. /\ match \in Match /\ \A m \in Match : inputs[m][p] \in Nat
      /\ sent \in [Player -> Nat] /\ sent[p] \in Nat /\ Match \subseteq Nat
  BY DEF OtherTypes, Moves, Match
<1>1. CASE UNCHANGED <<match, inputs, sent>>
  BY <1>1 DEF Fits, Queued
<1>2. ASSUME NEW s \in Session, Receive(s) PROVE Fits(p, n)'
  <2>1. /\ match' = match
        /\ \A m \in Match : inputs'[m][p] = IF m = loop[s] /\ p = Owner[s] THEN inputs[m][p] + 1 ELSE inputs[m][p]
        /\ sent'[p] = IF p = Owner[s] THEN sent[p] + 1 ELSE sent[p]
    BY <1>0, <1>2 DEF Receive, game
  <2> QED BY <1>0, <2>1 DEF Fits, Queued
<1>3. CASE BeginTick
  <2>1. /\ match' = match /\ sent' = sent
        /\ \A m \in Match : inputs'[m][p] = IF m = match THEN 0 ELSE inputs[m][p]
    BY <1>3 DEF BeginTick, Drained
  <2> QED BY <1>0, <2>1 DEF Fits, Queued
<1>4. CASE NextMatch
  <2>1. match' = match + 1 /\ match' \in Match /\ UNCHANGED <<inputs, sent>>
    BY <1>0, <1>4 DEF NextMatch, Match
  <2>2. inputs[match'][p] = 0
    BY <1>0, <2>1 DEF NothingBefore
  <2> QED BY <1>0, <2>1, <2>2 DEF Fits, Queued
<1> QED BY <1>1, <1>2, <1>3, <1>4, QueueStep

-----------------------------------------------------------------------------
(* Where what is credited comes from *)

\* Whether a value of player p, in the next state, is one that fits already.
Known(p, n) == n \in Nat /\ Fits(p, n)

LEMMA ZeroKnown == ASSUME CInv, NEW p \in Player PROVE Known(p, 0)
  BY DEF CInv, Credited, Known

\* A slot is set by its handler, by a published tick, or keeps its moves.
LEMMA SlotStep ==
    ASSUME IInv, CInv, Next, NEW m \in Match, NEW p \in Player, slots'[m][p] # None
    PROVE  Known(p, slots'[m][p].moves)
<1> USE DEF IInv, CInv
<1>1. CASE UNCHANGED slots
  BY <1>1 DEF Credited, SlotTypes, NatSlot, Known
<1>2. ASSUME NEW s \in Session, NEW slot \in NatSlot, SetSlot(s, slot), Known(Owner[s], slot.moves)
      PROVE  Known(p, slots'[m][p].moves)
  <2>1. CASE m = loop[s] /\ p = Owner[s]
    BY <1>2, <2>1, SetSlotTyped
  <2>2. CASE m # loop[s] \/ p # Owner[s]
    <3>1. slots'[m][p] = slots[m][p]
      BY <1>2, <2>2, SetSlotTyped
    <3> QED BY <3>1 DEF Credited, SlotTypes, NatSlot, Known
  <2> QED BY <2>1, <2>2
<1>3. ASSUME NEW s \in Session, SlotOf(s) # None PROVE Known(Owner[s], SlotOf(s).moves)
  <2>1. loop[s] \in Match /\ Owner[s] \in Player
    BY OwnerAssumption DEF SlotTypes
  <2> QED BY <1>3, <2>1, SlotMoves DEF Credited, SlotOf, Known
<1>4. ASSUME NEW s \in Session, EnterSlot(s)
      PROVE  \E slot \in NatSlot : SetSlot(s, slot) /\ Known(Owner[s], slot.moves)
  <2>1. Known(Owner[s], 0)
    BY ZeroKnown, OwnerAssumption
  <2> QED BY <1>3, <1>4, <2>1, EnterSlotTyped
<1>5. ASSUME NEW s \in Session, AddPlayer(s) PROVE Known(p, slots'[m][p].moves)
  <2>1. CASE EnterSlot(s)
    BY <1>2, <1>4, <2>1
  <2>2. CASE got[s] # None /\ RestoreSlot(s)
    <3> DEFINE slot == [moves |-> got[s], connected |-> TRUE]
    <3>1. got[s] \in Nat /\ Owner[s] \in Player
      BY <2>2, OwnerAssumption DEF SlotTypes
    <3>2. Known(Owner[s], got[s])
      BY <2>2, <3>1 DEF Credited, Known
    <3>3. slot \in NatSlot /\ slot.moves = got[s]
      BY <3>1 DEF NatSlot
    <3>4. SetSlot(s, slot)
      BY <2>2 DEF RestoreSlot
    <3> QED BY <1>2, <3>2, <3>3, <3>4
  <2> QED BY <1>5, <2>1, <2>2 DEF AddPlayer
<1>6. ASSUME NEW s \in Session, AddRaises(s) PROVE Known(p, slots'[m][p].moves)
  BY <1>1, <1>2, <1>4, <1>6 DEF AddRaises
<1>7. ASSUME NEW s \in Session, Disconnect(s) PROVE Known(p, slots'[m][p].moves)
  <2> DEFINE slot == [SlotOf(s) EXCEPT !.connected = FALSE]
  <2>1. SlotOf(s) # None
    BY <1>7 DEF Disconnect, Goes, OpenHasSlot
  <2>2. SlotOf(s) \in NatSlot /\ Known(Owner[s], SlotOf(s).moves)
    BY <1>3, <2>1, SlotMoves
  <2>3. slot \in NatSlot /\ slot.moves = SlotOf(s).moves
    BY <2>2 DEF NatSlot
  <2>4. SetSlot(s, slot)
    BY <1>7 DEF Disconnect
  <2> QED BY <1>2, <2>2, <2>3, <2>4
<1>8. CASE Published
  <2>1. slots'[m][p] = IF m = match /\ copy[p] # None THEN copy[p] ELSE slots[m][p]
    BY <1>8 DEF Published, SlotTypes
  <2>2. CASE m = match /\ copy[p] # None
    BY <2>1, <2>2 DEF Credited, SlotTypes, NatSlot, Known
  <2>3. CASE ~(m = match /\ copy[p] # None)
    BY <2>1, <2>3 DEF Credited, SlotTypes, NatSlot, Known
  <2> QED BY <2>2, <2>3
<1>9. CASE LastTick
  <2>1. slots'[m][p] = IF m = match THEN Left(slots[m][p]) ELSE slots[m][p]
    BY <1>9 DEF LastTick, SlotTypes
  <2>2. slots[m][p] # None /\ slots'[m][p].moves = slots[m][p].moves
    BY <2>1 DEF Left, SlotTypes, NatSlot
  <2> QED BY <2>2 DEF Credited, SlotTypes, NatSlot, Known
<1> QED
  BY <1>1, <1>5, <1>6, <1>7, <1>8, <1>9
  DEF Next, Handler, Accept, Join, GetHold, DeleteHold, Receive, SaveHold, Breaks,
      GameLoop, BeginTick, NotPublished, Stored, StoreRaises, ClearTable, NextMatch,
      HoldGoes, Broadcast, Send, sessions, game

\* A handler takes what it has in hand from a hold slot or from a slot.
LEMMA GotStep ==
    ASSUME IInv, CInv, Next, NEW s \in Session, got'[s] # None
    PROVE  Known(Owner[s], got'[s])
<1> USE DEF IInv, CInv
<1>o. Owner[s] \in Player
  BY OwnerAssumption
<1>1. CASE got'[s] = got[s]
  BY <1>1, <1>o DEF Credited, SlotTypes, Known
<1>2. ASSUME NEW t \in Session, GetHold(t) PROVE Known(Owner[s], got'[s])
  <2>1. got' = [got EXCEPT ![t] = hold[Owner[t]]]
    BY <1>2 DEF GetHold
  <2>2. CASE s = t
    BY <1>o, <2>1, <2>2 DEF Credited, SlotTypes, Known
  <2>3. CASE s # t
    BY <1>1, <2>1, <2>3 DEF SlotTypes
  <2> QED BY <2>2, <2>3
<1>3. ASSUME NEW t \in Session, Disconnect(t) PROVE Known(Owner[s], got'[s])
  <2>1. got' = [got EXCEPT ![t] = SlotOf(t).moves] /\ SlotOf(t) # None
    BY <1>3 DEF Disconnect, SavedSlot, Goes, OpenHasSlot
  <2>2. loop[t] \in Match /\ Owner[t] \in Player
    BY OwnerAssumption DEF SlotTypes
  <2>3. Known(Owner[t], SlotOf(t).moves)
    BY <2>1, <2>2, SlotMoves DEF Credited, SlotOf, Known
  <2>4. CASE s = t
    BY <2>1, <2>3, <2>4 DEF SlotTypes
  <2>5. CASE s # t
    BY <1>1, <2>1, <2>5 DEF SlotTypes
  <2> QED BY <2>4, <2>5
<1>4. ASSUME NEW t \in Session, AddPlayer(t) \/ SaveHold(t) PROVE Known(Owner[s], got'[s])
  <2>1. got' = [got EXCEPT ![t] = None]
    BY <1>4 DEF AddPlayer, SaveHold
  <2> QED BY <1>1, <2>1 DEF SlotTypes
<1>5. CASE UNCHANGED got
  BY <1>1, <1>5
<1> QED
  BY <1>2, <1>3, <1>4, <1>5
  DEF Next, Handler, Accept, Join, DeleteHold, AddRaises, Receive, Breaks,
      GameLoop, BeginTick, Published, NotPublished, Stored, StoreRaises, LastTick, ClearTable,
      NextMatch, HoldGoes, Broadcast, Send, sessions, game

\* A hold slot is deleted, or set to what a handler has in hand.
LEMMA HoldStep ==
    ASSUME IInv, CInv, Next, NEW p \in Player, hold'[p] # None
    PROVE  Known(p, hold'[p])
<1> USE DEF IInv, CInv
<1>1. CASE hold'[p] = hold[p]
  BY <1>1 DEF Credited, SlotTypes, Known
<1>2. ASSUME NEW s \in Session, SaveHold(s) PROVE Known(p, hold'[p])
  <2>1. CASE UNCHANGED hold
    BY <1>1, <2>1
  <2>2. CASE hold' = [hold EXCEPT ![Owner[s]] = got[s]]
    <3>1. CASE p = Owner[s]
      BY <2>2, <3>1 DEF Credited, SlotTypes, Known
    <3>2. CASE p # Owner[s]
      BY <1>1, <2>2, <3>2 DEF SlotTypes
    <3> QED BY <3>1, <3>2
  <2> QED BY <1>2, <2>1, <2>2 DEF SaveHold
<1>3. ASSUME NEW q \in Player, hold' = [hold EXCEPT ![q] = None] PROVE Known(p, hold'[p])
  BY <1>1, <1>3 DEF SlotTypes
<1>4. ASSUME NEW s \in Session, DeleteHold(s) PROVE Known(p, hold'[p])
  BY <1>3, <1>4, OwnerAssumption DEF DeleteHold
<1>5. ASSUME NEW q \in Player, HoldGoes(q) PROVE Known(p, hold'[p])
  BY <1>1, <1>3, <1>5 DEF HoldGoes
<1>6. CASE UNCHANGED hold
  BY <1>1, <1>6
<1> QED
  BY <1>2, <1>4, <1>5, <1>6
  DEF Next, Handler, Accept, Join, GetHold, AddPlayer, AddRaises, Receive, Disconnect, Breaks,
      GameLoop, BeginTick, Published, NotPublished, Stored, StoreRaises, LastTick, ClearTable,
      NextMatch, Broadcast, Send, sessions, game

\* A tick in flight is credited with what it takes out of the queue.
LEMMA CopyStep ==
    ASSUME IInv, CInv, Next, NEW p \in Player, copy'[p] # None
    PROVE  Fits(p, copy[p].moves)' /\ copy'[p].moves \in Nat
<1> USE DEF IInv, CInv
<1>1. CASE BeginTick
  <2> DEFINE old == slots[match][p]
             n == inputs[match][p]
             before == IF old = None THEN 0 ELSE old.moves
  <2>1. match \in Match /\ \A m \in Match : inputs[m][p] \in Nat
    BY DEF SlotTypes
  <2>2. old \in {None} \cup NatSlot /\ n \in Nat
    BY <2>1 DEF SlotTypes
  <2>3. before \in Nat /\ Fits(p, before)
    BY <2>1, <2>2 DEF Credited, NatSlot
  <2>4. copy'[p] = Computed[p]
    BY <1>1 DEF BeginTick
  <2>5. copy'[p].moves = before + n
    <3>1. CASE old = None
      BY <2>2, <2>4, <3>1 DEF Computed, NewSlot
    <3>2. CASE old # None
      BY <2>2, <2>4, <3>2 DEF Computed, NatSlot
    <3> QED BY <3>1, <3>2
  <2>6. /\ match' = match /\ sent' = sent
        /\ \A m \in Match : inputs'[m][p] = IF m = match THEN 0 ELSE inputs[m][p]
    BY <1>1 DEF BeginTick, Drained, SlotTypes
  <2>7. sent[p] \in Nat
    BY DEF OtherTypes, Moves
  <2> HIDE DEF before
  <2>8. \A m \in Match : before + n + (IF m = match THEN 0 ELSE inputs[m][p]) <= sent[p]
    BY <2>1, <2>2, <2>3, <2>7 DEF Fits, Queued
  <2> QED BY <2>1, <2>2, <2>3, <2>5, <2>6, <2>7, <2>8 DEF Fits, Queued
<1>2. CASE UNCHANGED copy
  <2>1. copy[p].moves \in Nat /\ Fits(p, copy[p].moves)
    BY <1>2 DEF Credited, SlotTypes, NatSlot
  <2>2. Fits(p, copy[p].moves)'
    <3> DEFINE n == copy[p].moves
    <3>1. \A k \in Nat : Fits(p, k) => Fits(p, k)'
      BY FitsStays
    <3> QED BY <1>2, <2>1, <3>1 DEF Fits
  <2> QED BY <1>2, <2>1, <2>2
<1>3. CASE copy' = Empty
  BY <1>3 DEF Empty
<1> QED
  BY <1>1, <1>2, <1>3
  DEF Next, Handler, Accept, Join, GetHold, AddPlayer, DeleteHold, AddRaises, Receive, Disconnect,
      SaveHold, Breaks, GameLoop, Published, NotPublished, Stored, StoreRaises, LastTick,
      ClearTable, NextMatch, HoldGoes, Broadcast, Send, sessions, game

-----------------------------------------------------------------------------
(* The strengthened invariant *)

LEMMA CreditedStep == ASSUME IInv, CInv, Next PROVE Credited'
<1> SUFFICES ASSUME NEW p \in Player
             PROVE  /\ Fits(p, 0)'
                    /\ \A m \in Match : slots'[m][p] # None => Fits(p, slots[m][p].moves)'
                    /\ copy'[p] # None => Fits(p, copy[p].moves)'
                    /\ hold'[p] # None => Fits(p, hold[p])'
                    /\ \A s \in Session : Owner[s] = p /\ got'[s] # None => Fits(p, got[s])'
  BY DEF Credited
<1>1. \A k \in Nat : Fits(p, k) => Fits(p, k)'
  BY FitsStays
<1>2. \A k : Known(p, k) => \A m \in Match : k + Queued(p, m)' <= sent'[p]
  BY <1>1 DEF Known, Fits
<1>3. Fits(p, 0)'
  BY <1>2, ZeroKnown DEF Fits
<1>4. ASSUME NEW m \in Match, slots'[m][p] # None PROVE Fits(p, slots[m][p].moves)'
  BY <1>2, <1>4, SlotStep DEF Fits
<1>5. ASSUME hold'[p] # None PROVE Fits(p, hold[p])'
  BY <1>2, <1>5, HoldStep DEF Fits
<1>6. ASSUME NEW s \in Session, Owner[s] = p, got'[s] # None PROVE Fits(p, got[s])'
  BY <1>2, <1>6, GotStep DEF Fits
<1> QED BY <1>3, <1>4, <1>5, <1>6, CopyStep

\* The broadcast in progress only ever lists players.
LEMMA TableTyped ==
    ASSUME OtherTypes, NEW new \in [Player -> {None} \cup Session], Table(new)
    PROVE  /\ socket' \in [Player -> {None} \cup Session]
           /\ cast' \in [unsent : SUBSET Player, dead : SUBSET Player, broken : BOOLEAN]
  BY DEF Table, OtherTypes

LEMMA OtherTypesStep == ASSUME IInv, CInv, Next PROVE OtherTypes'
<1> USE DEF CInv
<1>1. stage' \in {"sleep", "publish", "store", "ending", "over"}
  BY DEF OtherTypes, Next, Handler, Accept, Join, GetHold, AddPlayer, DeleteHold, AddRaises, Receive,
         Disconnect, SaveHold, Breaks, GameLoop, BeginTick, Published, NotPublished, Stored,
         StoreRaises, LastTick, ClearTable, NextMatch, HoldGoes, Broadcast, Send,
         sessions, game
<1>2. faults' \in 0 .. MaxFaults
  <2>1. NoFault \/ Fault
    BY DEF Next, Handler, Accept, Join, GetHold, AddPlayer, DeleteHold, AddRaises, Receive,
           Disconnect, SaveHold, Breaks, GameLoop, BeginTick, Published, NotPublished, Stored,
           StoreRaises, LastTick, ClearTable, NextMatch, HoldGoes, Broadcast, Send
  <2> QED BY <2>1, BoundAssumption DEF OtherTypes, NoFault, Fault
<1>3. sent' \in [Player -> Moves]
  <2>1. ASSUME NEW s \in Session, Receive(s) PROVE sent' \in [Player -> Moves]
    <3>1. /\ sent' = [sent EXCEPT ![Owner[s]] = @ + 1]
          /\ sent[Owner[s]] < MaxInputs /\ Owner[s] \in Player
      BY <2>1, OwnerAssumption DEF Receive
    <3>2. sent[Owner[s]] + 1 \in Moves
      BY <3>1, BoundAssumption DEF OtherTypes, Moves
    <3> QED BY <3>1, <3>2 DEF OtherTypes
  <2>2. CASE UNCHANGED sent
    BY <2>2 DEF OtherTypes
  <2> QED BY <2>1, <2>2, QueueStep DEF BeginTick, NextMatch
<1>4. /\ socket' \in [Player -> {None} \cup Session]
      /\ cast' \in [unsent : SUBSET Player, dead : SUBSET Player, broken : BOOLEAN]
  <2>1. ASSUME NEW s \in Session, Join(s) \/ Disconnect(s) \/ Breaks(s)
        PROVE  \E new \in [Player -> {None} \cup Session] : Table(new)
    <3>1. [socket EXCEPT ![Owner[s]] = s] \in [Player -> {None} \cup Session]
          /\ Without(Owner[s]) \in [Player -> {None} \cup Session]
      BY DEF OtherTypes, Without
    <3> QED BY <2>1, <3>1 DEF Join, Disconnect, Breaks
  <2>2. CASE ClearTable
    <3>1. Empty \in [Player -> {None} \cup Session] /\ Table(Empty)
      BY <2>2 DEF ClearTable, Empty
    <3> QED BY <3>1, TableTyped
  <2>3. CASE Stored \/ LastTick
    <3>1. ASSUME NEW unsent \in SUBSET Player
          PROVE  [NoCast EXCEPT !.unsent = unsent]
                 \in [unsent : SUBSET Player, dead : SUBSET Player, broken : BOOLEAN]
      BY DEF NoCast
    <3>2. {p \in Player : socket[p] # None} \in SUBSET Player
      OBVIOUS
    <3> QED BY <2>3, <3>1, <3>2 DEF Stored, LastTick, BeginCast, OtherTypes
  <2>4. ASSUME NEW p \in Player, Send(p)
        PROVE  /\ socket' \in [Player -> {None} \cup Session]
               /\ cast' \in [unsent : SUBSET Player, dead : SUBSET Player, broken : BOOLEAN]
    <3>1. NoCast \in [unsent : SUBSET Player, dead : SUBSET Player, broken : BOOLEAN]
      BY DEF NoCast
    <3>2. ASSUME NEW dead \in SUBSET Player
          PROVE  [cast EXCEPT !.unsent = @ \ {p}, !.dead = dead]
                 \in [unsent : SUBSET Player, dead : SUBSET Player, broken : BOOLEAN]
      BY DEF OtherTypes
    <3>3. \A dead \in {cast.dead, cast.dead \cup {p}} : dead \in SUBSET Player
      BY DEF OtherTypes
    <3> QED BY <2>4, <3>1, <3>2, <3>3 DEF Send, DropDead, OtherTypes
  <2>5. CASE UNCHANGED <<socket, cast>>
    BY <2>5 DEF OtherTypes
  <2> QED
    BY <2>1, <2>2, <2>3, <2>4, <2>5, TableTyped
    DEF Next, Handler, Accept, GetHold, AddPlayer, DeleteHold, AddRaises, Receive, SaveHold,
        GameLoop, BeginTick, Published, NotPublished, StoreRaises, NextMatch,
        HoldGoes, Broadcast
<1> QED BY <1>1, <1>2, <1>3, <1>4 DEF OtherTypes

\* What fits is no more than what was sent.
LEMMA FitsMoves ==
    ASSUME IInv, CInv, NEW p \in Player, NEW n \in Nat, Fits(p, n)
    PROVE  n \in Moves
<1>1. match \in Match /\ inputs[match][p] \in Nat /\ sent[p] \in Nat /\ sent[p] <= MaxInputs
  BY BoundAssumption DEF IInv, CInv, SlotTypes, OtherTypes, Moves
<1>2. n + inputs[match][p] <= sent[p]
  BY <1>1 DEF Fits, Queued
<1> QED BY <1>1, <1>2, BoundAssumption DEF Moves

LEMMA LoggedMovesStep == ASSUME IInv, CInv, Next PROVE LoggedMoves'
<1> USE DEF IInv, CInv
<1>1. CASE Published
  <2>1. logged' = [logged EXCEPT ![match] =
                       [p \in Player |-> IF copy[p] = None THEN @[p] ELSE @[p] \cup {copy[p].moves}]]
    BY <1>1 DEF Published
  <2>2. \A p \in Player : copy[p] # None => copy[p].moves \in Moves
    BY FitsMoves DEF Credited, SlotTypes, NatSlot
  <2> QED BY <2>1, <2>2 DEF LoggedMoves, SlotTypes
<1>2. CASE UNCHANGED logged
  BY <1>2 DEF LoggedMoves
<1> QED
  BY <1>1, <1>2
  DEF Next, Handler, Accept, Join, GetHold, AddPlayer, DeleteHold, AddRaises, Receive, Disconnect,
      SaveHold, Breaks, GameLoop, BeginTick, NotPublished, Stored, StoreRaises, LastTick,
      ClearTable, NextMatch, HoldGoes, Broadcast, Send, sessions, game

LEMMA InitCredit == Init => CInv
<1> SUFFICES ASSUME Init PROVE CInv
  OBVIOUS
<1>1. 1 \in Match /\ 0 \in Moves /\ 0 \in 0 .. MaxFaults
  BY BoundAssumption DEF Match, Moves
<1>2. OtherTypes
  BY <1>1 DEF Init, OtherTypes, Empty, NoCast
<1>3. LoggedMoves
  BY DEF Init, LoggedMoves
<1>4. NothingBefore
  BY <1>1 DEF Init, NothingBefore
<1>5. Credited
  <2>1. ASSUME NEW p \in Player PROVE Fits(p, 0)
    BY <1>1 DEF Init, Fits, Queued
  <2>2. /\ \A p \in Player : copy[p] = None /\ hold[p] = None
        /\ \A m \in Match, p \in Player : slots[m][p] = None
        /\ \A s \in Session : got[s] = None
    BY DEF Init, Empty
  <2> QED BY <2>1, <2>2 DEF Credited
<1> QED BY <1>2, <1>3, <1>4, <1>5 DEF CInv

LEMMA CreditInvariant == IInv /\ CInv /\ [Next]_vars => CInv'
<1> SUFFICES ASSUME IInv, CInv, [Next]_vars PROVE CInv'
  OBVIOUS
<1>1. CASE Next
  BY <1>1, NothingBeforeStep, CreditedStep, OtherTypesStep, LoggedMovesStep DEF CInv
<1>2. CASE UNCHANGED vars
  BY <1>2 DEF vars, sessions, game, CInv, OtherTypes, LoggedMoves, NothingBefore, Credited, Fits, Queued
<1> QED BY <1>1, <1>2

-----------------------------------------------------------------------------
(***************************************************************************)
(* No input is credited twice, and none that was not sent: with any number *)
(* of sessions per player, failing ticks, hold slots and matches, what a   *)
(* slot reflects and what is queued beside it is at most what its player   *)
(* sent (InputsCountOnce: _process_tick, add_player, remove_player).       *)
(***************************************************************************)
THEOREM InputsCorrect == Spec => []InputsCountOnce
<1>1. IInv /\ CInv => InputsCountOnce
  <2> SUFFICES ASSUME IInv, CInv, NEW m \in Match, NEW p \in Player, slots[m][p] # None
               PROVE  slots[m][p].moves + inputs[m][p] <= sent[p]
    BY DEF InputsCountOnce
  <2>1. slots[m][p].moves \in Nat /\ inputs[m][p] \in Nat /\ inputs[match][p] \in Nat /\ sent[p] \in Nat
    BY DEF IInv, CInv, SlotTypes, NatSlot, OtherTypes, Moves
  <2>2. slots[m][p].moves + Queued(p, m) <= sent[p]
    BY DEF CInv, Credited, Fits
  <2> QED BY <2>1, <2>2 DEF Queued
<1> QED BY <1>1, InitInvariant, NextInvariant, InitCredit, CreditInvariant, PTL DEF Spec

(***************************************************************************)
(* Every variable stays of its type.  That the counts of inputs stay       *)
(* within their bound is a consequence of crediting none twice.            *)
(***************************************************************************)
THEOREM TypeCorrect == Spec => []TypeOK
<1>1. IInv /\ CInv => TypeOK
  <2> SUFFICES ASSUME IInv, CInv PROVE TypeOK
    OBVIOUS
  <2> USE DEF IInv, CInv
  <2>1. slots \in [Match -> [Player -> {None} \cup Slot]]
    <3>1. ASSUME NEW m \in Match, NEW p \in Player PROVE slots[m][p] \in {None} \cup Slot
      <4>1. slots[m][p] # None => slots[m][p] \in NatSlot /\ slots[m][p].moves \in Moves
        BY FitsMoves DEF Credited, SlotTypes, NatSlot
      <4> QED BY <4>1 DEF NatSlot, Slot
    <3> QED BY <3>1 DEF SlotTypes
  <2>2. copy \in [Player -> {None} \cup Slot]
    <3>1. ASSUME NEW p \in Player PROVE copy[p] \in {None} \cup Slot
      <4>1. copy[p] # None => copy[p] \in NatSlot /\ copy[p].moves \in Moves
        BY FitsMoves DEF Credited, SlotTypes, NatSlot
      <4> QED BY <4>1 DEF NatSlot, Slot
    <3> QED BY <3>1 DEF SlotTypes
  <2>3. hold \in [Player -> {None} \cup Moves]
    BY FitsMoves DEF Credited, SlotTypes
  <2>4. got \in [Session -> {None} \cup Moves]
    BY FitsMoves, OwnerAssumption DEF Credited, SlotTypes
  <2>5. inputs \in [Match -> [Player -> Moves]]
    <3>1. ASSUME NEW m \in Match, NEW p \in Player PROVE inputs[m][p] \in Moves
      <4>1. inputs[m][p] \in Nat /\ inputs[match][p] \in Nat /\ sent[p] \in Nat /\ sent[p] <= MaxInputs
        BY BoundAssumption DEF SlotTypes, OtherTypes, Moves
      <4>2. 0 + Queued(p, m) <= sent[p]
        BY DEF Credited, Fits
      <4> QED BY <4>1, <4>2, BoundAssumption DEF Queued, Moves
    <3> QED BY <3>1 DEF SlotTypes
  <2> QED BY <2>1, <2>2, <2>3, <2>4, <2>5 DEF TypeOK, SlotTypes, OtherTypes, LoggedMoves
<1> QED BY <1>1, InitInvariant, NextInvariant, InitCredit, CreditInvariant, PTL DEF Spec
=============================================================================
