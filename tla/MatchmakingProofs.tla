------------------------- MODULE MatchmakingProofs -------------------------
(***************************************************************************)
(* Proofs about Matchmaking: match_tick leaves nobody who could play, a    *)
(* room is claimed once, a request is in one place and the deficit counts  *)
(* the lobbies that wait; and, from "The notifications" on, about          *)
(* Notification, which delivers what the workers announce: a client that   *)
(* stays connected hears.                                                  *)
(***************************************************************************)
EXTENDS Matchmaking, Notification, FiniteSetTheorems, WellFoundedInduction, TLAPS


-----------------------------------------------------------------------------
(* match_tick *)

\* A set of natural numbers has a least member.
LEMMA SmallestNat ==
    ASSUME NEW S \in SUBSET Nat, S # {}
    PROVE  \E n \in S : \A m \in S : n <= m
<1> DEFINE R == OpToRel(<, Nat)
<1>1. PICK n \in S : \A m \in S : <<m, n>> \notin R
  <2> HIDE DEF R
  <2> QED BY WFMin, NatLessThanWellFounded DEF R
<1>2. ASSUME NEW m \in S PROVE n <= m
  <2>1. m \in Nat /\ n \in Nat /\ ~(m < n) BY <1>1 DEF OpToRel
  <2> QED BY <2>1
<1> QED
  BY <1>2

\* The function Lobbies defines exists.
LEMMA LobbiesRecursion ==
    ASSUME NEW order, NEW waited, Len(order) \in Nat
    PROVE  /\ Lobbies(order, waited)[0] = {}
           /\ \A i \in 1 .. Len(order) :
                Lobbies(order, waited)[i] = Anchor(order, waited, Lobbies(order, waited)[i - 1], i)
<1> DEFINE A(lobbies, i) == Anchor(order, waited, lobbies, i)
           Up(n, f) == f = [i \in 0 .. n |-> IF i = 0 THEN {} ELSE A(f[i - 1], i)]
           Bad == {n \in Nat : \A f : ~Up(n, f)}
<1>1. \A lobbies, i : A(lobbies, i) = Anchor(order, waited, lobbies, i)
  OBVIOUS
<1> HIDE DEF A
<1>2. Bad = {}
  <2> SUFFICES ASSUME Bad # {} PROVE FALSE
    OBVIOUS
  <2>1. PICK n \in Bad : \A m \in Bad : n <= m
    BY SmallestNat
  <2>2. CASE n = 0
    <3>1. Up(0, [i \in 0 .. 0 |-> {}])
      OBVIOUS
    <3> QED BY <2>1, <2>2, <3>1
  <2>3. CASE n # 0
    <3>0. n \in Nat /\ n - 1 \in Nat /\ n - 1 < n
      BY <2>3
    <3>1. n - 1 \notin Bad
      <4> HIDE DEF Bad
      <4> QED BY <2>1, <3>0
    <3>2. PICK f : Up(n - 1, f)
      BY <3>0, <3>1
    <3> DEFINE g == [i \in 0 .. n |-> IF i = n THEN A(f[n - 1], n) ELSE f[i]]
    <3>3. \A i \in 0 .. n - 1 : f[i] = IF i = 0 THEN {} ELSE A(f[i - 1], i)
      BY <3>0, <3>2
    <3>4. \A i \in 0 .. n : g[i] = IF i = 0 THEN {} ELSE A(g[i - 1], i)
      <4> TAKE i \in 0 .. n
      <4>1. CASE i = n
        <5>1. g[n - 1] = f[n - 1] /\ g[n] = A(f[n - 1], n) BY <3>0
        <5> QED BY <4>1, <5>1, <2>3
      <4>2. CASE i = 0
        BY <4>2, <3>0, <3>3, <2>3
      <4>3. CASE i # n /\ i # 0
        <5>1. i \in 0 .. n - 1 /\ i - 1 \in 0 .. n /\ i - 1 # n BY <4>3, <3>0
        <5>2. g[i] = f[i] /\ g[i - 1] = f[i - 1] BY <5>1, <4>3
        <5> QED BY <5>1, <5>2, <4>3, <3>3
      <4> QED BY <4>1, <4>2, <4>3
    <3>5. Up(n, g)
      <4> HIDE DEF g
      <4>1. g = [i \in 0 .. n |-> g[i]] BY DEF g
      <4> QED BY <3>4, <4>1
    <3> QED BY <2>1, <3>5
  <2> QED BY <2>2, <2>3
<1>3. \E f : Up(Len(order), f)
  BY <1>2
<1> DEFINE L == CHOOSE f : Up(Len(order), f)
<1>4. Lobbies(order, waited) = L
  BY DEF Lobbies, A
<1>5. Up(Len(order), L)
  BY <1>3
<1> HIDE DEF L
<1>6. \A i \in 0 .. Len(order) : L[i] = IF i = 0 THEN {} ELSE A(L[i - 1], i)
  BY <1>5
<1> QED
  BY <1>1, <1>4, <1>6

\* The first n of fewer than n positions are all of them.
LEMMA FirstAll ==
    ASSUME NEW C \in SUBSET Nat, IsFiniteSet(C), NEW n \in Nat, Cardinality(First(C, n)) < n
    PROVE  First(C, n) = C
<1>1. First(C, n) \subseteq C /\ IsFiniteSet(First(C, n)) /\ C \ First(C, n) \subseteq Nat
  BY FS_Subset DEF First
<1> SUFFICES ASSUME C \ First(C, n) # {} PROVE FALSE
  BY <1>1
<1>2. PICK k \in C \ First(C, n) : \A m \in C \ First(C, n) : k <= m
  BY <1>1, SmallestNat
<1> DEFINE Before == {j \in C : j < k}
<1>3. Before \subseteq First(C, n)
  <2> SUFFICES ASSUME NEW j \in C, j < k, j \notin First(C, n) PROVE FALSE
    OBVIOUS
  <2>1. k <= j /\ j \in Nat /\ k \in Nat BY <1>2
  <2> QED BY <2>1
<1>4. Cardinality(Before) <= Cardinality(First(C, n)) /\ Cardinality(Before) \in Nat /\ Cardinality(First(C, n)) \in Nat
  BY <1>1, <1>3, FS_Subset, FS_CardinalityType
<1>5. Cardinality(Before) < n
  BY <1>4
<1>6. k \in First(C, n)
  BY <1>2, <1>5 DEF First
<1> QED BY <1>2, <1>6

\* Whom the request at position i may be joined by.
Candidates(order, waited, used, i) ==
    {j \in i + 1 .. Len(order) : j \notin used /\ Close(order[i], order[j], waited)}

LEMMA LobbyOfIs ==
    ASSUME NEW order, NEW waited, NEW used, Len(order) \in Nat, NEW i \in 1 .. Len(order)
    PROVE  /\ i \in LobbyOf(order, waited, used, i)
           /\ LobbyOf(order, waited, used, i) \subseteq i .. Len(order)
           /\ \A j \in LobbyOf(order, waited, used, i) : j # i => j \notin used
           /\ Candidates(order, waited, used, i) \subseteq i + 1 .. Len(order)
  BY DEF LobbyOf, Candidates, First

\* A lobby that is not too small.
Sound(order, lobby) == /\ lobby \subseteq 1 .. Len(order)
                       /\ lobby # {}
                       /\ LargeEnough(lobby)

Apart(lobbies) == \A K, L \in lobbies : K = L \/ K \cap L = {}

\* One position more: the lobbies stay, stay apart, and a new one is large enough.
LEMMA AnchorKeeps ==
    ASSUME NEW order, NEW waited, NEW lobbies, Len(order) \in Nat, NEW i \in 1 .. Len(order),
           IsFiniteSet(lobbies), Apart(lobbies), \A K \in lobbies : Sound(order, K)
    PROVE  LET after == Anchor(order, waited, lobbies, i)
           IN  /\ lobbies \subseteq after
               /\ IsFiniteSet(after) /\ Apart(after) /\ \A K \in after : Sound(order, K)
<1> DEFINE used == UNION lobbies
           lobby == LobbyOf(order, waited, used, i)
<1>1. CASE i \notin used /\ LargeEnough(lobby)
  <2>1. Anchor(order, waited, lobbies, i) = lobbies \cup {lobby}
    BY <1>1 DEF Anchor
  <2>2. i \in lobby /\ lobby \subseteq i .. Len(order) /\ \A j \in lobby : j # i => j \notin used
    BY LobbyOfIs
  <2> HIDE DEF lobby
  <2>3. Sound(order, lobby)
    <3>1. lobby # {} /\ lobby \subseteq 1 .. Len(order) BY <2>2
    <3> QED BY <1>1, <3>1 DEF Sound
  <2>4. \A K \in lobbies : K \cap lobby = {}
    <3> SUFFICES ASSUME NEW K \in lobbies, NEW j \in K, j \in lobby PROVE FALSE OBVIOUS
    <3>1. j \in UNION lobbies OBVIOUS
    <3> QED BY <1>1, <2>2, <3>1
  <2>5. Apart(lobbies \cup {lobby})
    BY <2>4 DEF Apart
  <2>6. IsFiniteSet(lobbies \cup {lobby})
    BY FS_AddElement
  <2> QED BY <2>1, <2>3, <2>5, <2>6
<1>2. CASE ~(i \notin used /\ LargeEnough(lobby))
  BY <1>2 DEF Anchor
<1> QED BY <1>1, <1>2

\* So are the lobbies of the first i positions, for every i.
LEMMA LobbiesSound ==
    ASSUME NEW order, NEW waited, Len(order) \in Nat
    PROVE  \A i \in 0 .. Len(order) :
              LET lobbies == Lobbies(order, waited)[i]
              IN  /\ IsFiniteSet(lobbies) /\ Apart(lobbies) /\ \A K \in lobbies : Sound(order, K)
                  /\ \A k \in 0 .. i : Lobbies(order, waited)[k] \subseteq lobbies
<1> DEFINE L(i) == Lobbies(order, waited)[i]
           Good(i) == /\ IsFiniteSet(L(i)) /\ Apart(L(i)) /\ \A K \in L(i) : Sound(order, K)
                      /\ \A k \in 0 .. i : L(k) \subseteq L(i)
           Bad == {i \in 0 .. Len(order) : ~Good(i)}
<1>1. L(0) = {} /\ \A i \in 1 .. Len(order) : L(i) = Anchor(order, waited, L(i - 1), i)
  BY LobbiesRecursion
<1> HIDE DEF L
<1>2. Good(0)
  BY <1>1, FS_EmptySet DEF Apart
<1>3. ASSUME NEW i \in 1 .. Len(order), Good(i - 1) PROVE Good(i)
  <2>1. /\ L(i - 1) \subseteq L(i)
        /\ IsFiniteSet(L(i)) /\ Apart(L(i)) /\ \A K \in L(i) : Sound(order, K)
    BY <1>1, <1>3, AnchorKeeps
  <2>2. \A k \in 0 .. i : k \in 0 .. i - 1 \/ k = i
    OBVIOUS
  <2> QED BY <1>3, <2>1, <2>2
<1> HIDE DEF Good
<1>4. Bad = {}
  <2> SUFFICES ASSUME Bad # {} PROVE FALSE
    OBVIOUS
  <2>1. PICK i \in Bad : \A m \in Bad : i <= m
    <3>1. Bad \in SUBSET Nat OBVIOUS
    <3> HIDE DEF Bad
    <3> QED BY <3>1, SmallestNat
  <2>2. i \in 0 .. Len(order) /\ ~Good(i) /\ i # 0
    BY <2>1, <1>2
  <2>3. i \in 1 .. Len(order) /\ i - 1 \in 0 .. Len(order) /\ ~(i <= i - 1)
    BY <2>2
  <2>4. i - 1 \notin Bad
    <3> HIDE DEF Bad
    <3> QED BY <2>1, <2>3
  <2> QED BY <1>3, <2>2, <2>3, <2>4
<1> QED
  BY <1>4 DEF Good, L

\* pending.sort leaves the same requests, one at each position.
LEMMA SortedIs ==
    ASSUME NEW S, IsFiniteSet(S), NEW order \in Sorted(S)
    PROVE  /\ Len(order) \in Nat /\ order \in [1 .. Len(order) -> S]
           /\ \A i, j \in 1 .. Len(order) : order[i] = order[j] => i = j
           /\ \A q \in S : \E i \in 1 .. Len(order) : order[i] = q
<1> DEFINE n == Cardinality(S)
<1>1. n \in Nat /\ order \in [1 .. n -> S] /\ \A i, j \in 1 .. n : i # j => order[i] # order[j]
  BY FS_CardinalityType DEF Sorted, SetToSeqs
<1>2. IsFiniteSet(1 .. n) /\ Cardinality(1 .. n) = n
  BY <1>1, FS_Interval
<1>3. order \in Seq(S) /\ Len(order) = n
  BY <1>1
<1>4. order \in Injection(1 .. n, S)
  BY <1>1 DEF Injection, IsInjective
<1>5. order \in Surjection(1 .. n, S)
  <2> HIDE DEF n
  <2> QED BY <1>2, <1>4, FS_Injection DEF n
<1> QED
  BY <1>1, <1>3, <1>5 DEF Surjection

\* The requests at some positions.
At(order, K) == {order[i] : i \in K}

\* The lobbies of a tick are disjoint, of waiting requests, and not empty.
LEMMA TickLobbies ==
    ASSUME NEW S, IsFiniteSet(S), NEW order \in Sorted(S), NEW waited
    PROVE  /\ IsFiniteSet(MatchTick(order, waited))
           /\ \A m \in MatchTick(order, waited) : m \subseteq S /\ m # {}
           /\ Apart(MatchTick(order, waited))
<1> DEFINE L == Lobbies(order, waited)[Len(order)]
           T == {At(order, K) : K \in L}
<1>1. /\ Len(order) \in Nat /\ order \in [1 .. Len(order) -> S]
      /\ \A i, j \in 1 .. Len(order) : order[i] = order[j] => i = j
  BY SortedIs
<1>2. MatchTick(order, waited) = T
  BY DEF MatchTick, At
<1>3. IsFiniteSet(L) /\ Apart(L) /\ \A K \in L : K \subseteq 1 .. Len(order) /\ K # {}
  BY <1>1, LobbiesSound DEF Sound
<1> HIDE DEF L
<1>4. IsFiniteSet(T)
  <2>1. [K \in L |-> At(order, K)] \in Surjection(L, T)
    BY DEF Surjection
  <2> QED BY <1>3, <2>1, FS_Surjection
<1>5. \A K \in L : At(order, K) \subseteq S /\ At(order, K) # {}
  BY <1>1, <1>3 DEF At
<1>6. Apart(T)
  <2> SUFFICES ASSUME NEW K \in L, NEW M \in L, At(order, K) # At(order, M)
               PROVE  At(order, K) \cap At(order, M) = {}
    BY DEF Apart
  <2>1. K \cap M = {} BY <1>3 DEF Apart
  <2> QED BY <1>1, <1>3, <2>1 DEF At
<1> QED BY <1>2, <1>4, <1>5, <1>6

\* Who stays pending was too far from the others, or too few were left.
LEMMA TickLeavesNobody ==
    ASSUME NEW S \in SUBSET Request, IsFiniteSet(S), NEW order \in Sorted(S), NEW waited \in [S -> Windows],
           NEW P \in SUBSET (S \ UNION MatchTick(order, waited))
    PROVE  ~Playable(P)
<1> SUFFICES ASSUME Playable(P) PROVE FALSE
  OBVIOUS
<1> DEFINE n == Len(order)
           L(i) == Lobbies(order, waited)[i]
           Free == {i \in 1 .. n : order[i] \in P}
<1>1. /\ n \in Nat /\ order \in [1 .. n -> S]
      /\ \A i, j \in 1 .. n : order[i] = order[j] => i = j
      /\ \A q \in S : \E i \in 1 .. n : order[i] = q
  BY SortedIs
<1>2. MinLobby \in Nat /\ MaxLobby \in Nat /\ 2 <= MinLobby /\ MinLobby <= MaxLobby
      /\ EloRange \in Nat /\ EloExpand \in Nat /\ Elo \in [Request -> Nat]
  BY LobbyAssumption, SizeAssumption, EloAssumption
<1>3. /\ \A i \in 1 .. n : L(i) = Anchor(order, waited, L(i - 1), i)
      /\ \A i \in 0 .. n : \A k \in 0 .. i : L(k) \subseteq L(i)
      /\ \A K \in L(n) : K \subseteq 1 .. n
  <2>1. \A i \in 1 .. n : L(i) = Anchor(order, waited, L(i - 1), i)
    BY <1>1, LobbiesRecursion
  <2>2. \A i \in 0 .. n : \A k \in 0 .. i : L(k) \subseteq L(i)
    BY <1>1, LobbiesSound
  <2>3. \A K \in L(n) : K \subseteq 1 .. n
    <3>1. n \in 0 .. n BY <1>1
    <3> QED BY <1>1, <3>1, LobbiesSound DEF Sound
  <2> QED BY <2>1, <2>2, <2>3
<1>4. \A i \in Free : i \notin UNION L(n)
  BY DEF MatchTick
<1> HIDE DEF L
<1>5. Cardinality(Free) = MinLobby /\ IsFiniteSet(Free) /\ IsFiniteSet(P)
  <2>1. IsFiniteSet(P) /\ Cardinality(P) = MinLobby
    BY FS_Subset DEF Playable
  <2>2. [i \in Free |-> order[i]] \in Injection(Free, P) /\ [i \in Free |-> order[i]] \in Surjection(Free, P)
    BY <1>1 DEF Injection, Surjection, IsInjective
  <2> HIDE DEF Free
  <2> QED BY <2>1, <2>2, FS_Injection
<1>6. Free # {} /\ Free \subseteq Nat
  BY <1>1, <1>2, <1>5, FS_EmptySet
<1>7. PICK i \in Free : \A j \in Free : i <= j
  BY <1>6, SmallestNat
<1>8. i \in 1 .. n /\ i - 1 \in 0 .. n /\ n \in 0 .. n
  BY <1>1, <1>7
<1> DEFINE used == UNION L(i - 1)
           c == Candidates(order, waited, used, i)
           lobby == LobbyOf(order, waited, used, i)
<1>9. used \subseteq UNION L(n) /\ L(i) \subseteq L(n)
  BY <1>3, <1>8
<1>10. i \in lobby /\ lobby = {i} \cup First(c, MaxLobby - 1) /\ c \subseteq i + 1 .. n
  <2>1. n \in Nat BY <1>1
  <2>2. i \in 1 .. Len(order) /\ Len(order) \in Nat BY <1>8, <2>1
  <2> HIDE DEF Free, used, n
  <2>3. lobby = {i} \cup First(c, MaxLobby - 1) BY DEF LobbyOf, Candidates
  <2>4. i \in lobby BY <2>2, LobbyOfIs
  <2>5. c \subseteq i + 1 .. Len(order) BY <2>2, LobbyOfIs
  <2> QED BY <2>3, <2>4, <2>5 DEF n
<1>11. ~LargeEnough(lobby)
  <2> SUFFICES ASSUME LargeEnough(lobby) PROVE FALSE
    OBVIOUS
  <2>1. i \notin used BY <1>4, <1>7, <1>9
  <2>2. L(i) = L(i - 1) \cup {lobby} BY <1>3, <1>8, <2>1 DEF Anchor
  <2> HIDE DEF lobby
  <2>3. i \in UNION L(n) BY <1>9, <1>10, <2>2
  <2> QED BY <1>4, <1>7, <2>3
<1>12. Free \ {i} \subseteq c
  <2> SUFFICES ASSUME NEW j \in Free, j # i PROVE j \in c
    OBVIOUS
  <2>1. j \in i + 1 .. n BY <1>1, <1>7
  <2>2. j \notin used BY <1>4, <1>9
  <2>3. Gap(order[i], order[j]) <= EloRange BY <1>7 DEF Playable
  <2>4. Close(order[i], order[j], waited)
    <3>1. order[i] \in S /\ order[j] \in S /\ waited[order[i]] \in Nat
      BY <1>1, <1>8 DEF Windows
    <3>2. Gap(order[i], order[j]) \in Nat BY <1>2, <3>1 DEF Gap
    <3>3. waited[order[i]] * EloExpand \in Nat BY <1>2, <3>1
    <3> QED BY <1>2, <2>3, <3>2, <3>3 DEF Close
  <2> QED BY <2>1, <2>2, <2>4 DEF Candidates
<1> HIDE DEF c, used, lobby, Free
<1>13. IsFiniteSet(c) /\ c \in SUBSET Nat /\ i \notin c
  <2>1. i \in Nat /\ n \in Nat BY <1>1, <1>8
  <2>2. IsFiniteSet(i + 1 .. n) BY <2>1, FS_Interval
  <2>3. IsFiniteSet(c) BY <1>10, <2>2, FS_Subset
  <2>4. c \subseteq Nat /\ i \notin c BY <1>10, <2>1
  <2> QED BY <2>3, <2>4
<1>14. MaxLobby - 1 \in Nat /\ First(c, MaxLobby - 1) \subseteq c
  BY <1>2 DEF First
<1>15. IsFiniteSet(First(c, MaxLobby - 1)) /\ i \notin First(c, MaxLobby - 1)
       /\ Cardinality(First(c, MaxLobby - 1)) \in Nat
  BY <1>13, <1>14, FS_Subset, FS_CardinalityType
<1>16. Cardinality(lobby) = Cardinality(First(c, MaxLobby - 1)) + 1
  <2>1. lobby = First(c, MaxLobby - 1) \cup {i} BY <1>10
  <2> QED BY <1>15, <2>1, FS_AddElement
<1>17. Cardinality(First(c, MaxLobby - 1)) + 1 < MinLobby
  BY <1>2, <1>11, <1>15, <1>16 DEF LargeEnough
<1>18. First(c, MaxLobby - 1) = c
  BY <1>2, <1>13, <1>14, <1>15, <1>17, FirstAll
<1>19. Cardinality(Free \ {i}) = MinLobby - 1 /\ Cardinality(Free \ {i}) <= Cardinality(c)
  BY <1>5, <1>7, <1>12, <1>13, FS_RemoveElement, FS_Subset
<1> QED
  BY <1>2, <1>15, <1>17, <1>18, <1>19

-----------------------------------------------------------------------------
(* Types *)

\* What a matcher holds is sorted by SetToSeqs, which lists finite sets only.
PendingFinite == \A w \in Worker : IsFiniteSet(pending[w])

Typed == MatchmakingTypeOK /\ PendingFinite

NeverNothing == Nothing \notin Room /\ Nothing \notin Lobby

LEMMA NothingElse == NeverNothing
  BY NothingAssumption DEF NeverNothing, Lobby

\* A worker with a claim has a lobby in hand.
LEMMA ClaimIs ==
    ASSUME MatchmakingTypeOK, NEW w \in Worker
    PROVE  /\ Idle(w) => claim[w].lobby = Nothing /\ claim[w].room = Nothing /\ claim[w].listed = {}
           /\ ~Idle(w) => claim[w].lobby \in Lobby
           /\ claim[w] \in Claim
  BY DEF MatchmakingTypeOK, Idle, NoClaim

LEMMA RecordsTyped ==
    /\ NoClaim \in Claim
    /\ \A l \in Lobby : /\ l.members \in SUBSET Request /\ l.retry \in 0 .. MaxRetries
                        /\ \A S \in SUBSET Room : [lobby |-> l, room |-> Nothing, listed |-> S] \in Claim
                        /\ l.retry < MaxRetries => /\ Later(l) \in Lobby /\ Later(l).members = l.members
                                                   /\ Later(l).retry = l.retry + 1
    /\ \A m \in SUBSET Request : [members |-> m, retry |-> 0] \in Lobby
<1>1. MaxRetries \in Nat BY SizeAssumption
<1> QED BY <1>1 DEF NoClaim, Claim, Lobby, Later

LEMMA InitTyped == MatchmakingInit => Typed
<1>1. NoClaim \in Claim BY RecordsTyped
<1> QED BY <1>1, SizeAssumption, FS_EmptySet DEF MatchmakingInit, Typed, MatchmakingTypeOK, PendingFinite, Idle

\* The requests and their places.
RequestsOK == /\ queue \subseteq Request
              /\ unacked \in [Worker -> SUBSET Request]
              /\ pending \in [Worker -> SUBSET Request]
              /\ ended \subseteq Request /\ lost \subseteq Request /\ doubled \subseteq Request
              /\ found \subseteq [members : SUBSET Request, room : Room, by : Worker]
\* What the loop of a worker holds.
LoopsOK == /\ backlog \in [Worker -> SUBSET Lobby]
           /\ stage \in [Worker -> {"sleep", "retry", "match"}]
           /\ todo \in [Worker -> SUBSET Lobby]
           /\ still \in [Worker -> SUBSET Lobby]
           /\ deficit \in [Worker -> Nat]
ClaimsOK == /\ claim \in [Worker -> Claim]
            /\ \A w \in Worker : ~Idle(w) => claim[w].lobby \in Lobby
RoomsOK == /\ rooms \in [Room -> {"absent", "available", "in-use"}]
           /\ handed \in [Room -> Nat]
           /\ registrations \in 0 .. MaxRegistrations
           /\ failures \in 0 .. MaxFailures

LEMMA TypeParts == /\ MatchmakingTypeOK <=> RequestsOK /\ LoopsOK /\ ClaimsOK /\ RoomsOK
                   /\ MatchmakingTypeOK' <=> RequestsOK' /\ LoopsOK' /\ ClaimsOK' /\ RoomsOK'
  BY DEF MatchmakingTypeOK, RequestsOK, LoopsOK, ClaimsOK, RoomsOK, Idle

LEMMA FailureTyped ==
    ASSUME MatchmakingTypeOK, NEW S \in SUBSET Request, NEW D \in SUBSET Request, Failure(S, D)
    PROVE  failures' \in 0 .. MaxFailures /\ lost' \subseteq Request /\ doubled' \subseteq Request
  BY SizeAssumption DEF MatchmakingTypeOK, Failure

\* Whom failures are about.
LEMMA MembersTyped ==
    ASSUME NEW L \in SUBSET Lobby PROVE Members(L) \in SUBSET Request
  BY RecordsTyped DEF Members

LEMMA WorkerTyped ==
    ASSUME Typed, NEW w \in Worker, Step(w)
    PROVE  MatchmakingTypeOK'
<1> MatchmakingTypeOK BY DEF Typed
<1> USE DEF consumer, loop, pool, Gets, Loses, NoFailure
<1>t. RequestsOK /\ LoopsOK /\ ClaimsOK /\ RoomsOK BY TypeParts
<1>c. /\ Idle(w) => claim[w].room = Nothing /\ claim[w].listed = {}
      /\ ~Idle(w) => claim[w].lobby \in Lobby
      /\ claim[w] \in Claim
  BY ClaimIs
<1>0. NoFailure /\ MatchmakingTypeOK => failures' \in 0 .. MaxFailures /\ lost' \subseteq Request /\ doubled' \subseteq Request
  BY DEF MatchmakingTypeOK
<1>1. ASSUME NEW q \in Request, Deliver(w, q) \/ Refuse(w, q) \/ AddRequest(w, q) \/ Redeliver(w, q)
      PROVE  MatchmakingTypeOK'
  <2>1. failures' \in 0 .. MaxFailures /\ lost' \subseteq Request /\ doubled' \subseteq Request
    BY <1>1, <1>0, FailureTyped DEF Deliver, Refuse, AddRequest, Redeliver
  <2>2. RequestsOK'
    BY <1>1, <1>t, <2>1 DEF Deliver, Refuse, AddRequest, Redeliver, RequestsOK
  <2>3. LoopsOK' /\ ClaimsOK'
    BY <1>1, <1>t DEF Deliver, Refuse, AddRequest, Redeliver, LoopsOK, ClaimsOK, Idle
  <2>4. RoomsOK'
    BY <1>1, <1>t, <2>1 DEF Deliver, Refuse, AddRequest, Redeliver, RoomsOK
  <2> QED BY <2>2, <2>3, <2>4, TypeParts
<1>2. ASSUME NEW old \in SUBSET Request, BeginTick(w, old) PROVE MatchmakingTypeOK'
  <2>1. RequestsOK' /\ RoomsOK'
    BY <1>2, <1>t DEF BeginTick, RequestsOK, RoomsOK
  <2>2. LoopsOK' /\ ClaimsOK'
    BY <1>2, <1>t DEF BeginTick, LoopsOK, ClaimsOK, Idle
  <2> QED BY <2>1, <2>2, TypeParts
<1>3. ASSUME NEW l \in todo[w], ListRooms(w, l) PROVE MatchmakingTypeOK'
  <2>1. RequestsOK' /\ RoomsOK'
    BY <1>3, <1>t DEF ListRooms, RequestsOK, RoomsOK
  <2>2. LoopsOK'
    BY <1>3, <1>t DEF ListRooms, LoopsOK
  <2>3. l \in Lobby BY <1>t DEF LoopsOK
  <2>4. [lobby |-> l, room |-> Nothing, listed |-> {r \in Room : rooms[r] = "available"}] \in Claim
    BY <2>3, RecordsTyped
  <2>5. ClaimsOK'
    BY <1>3, <1>t, <2>3, <2>4 DEF ListRooms, ClaimsOK, Idle
  <2> QED BY <2>1, <2>2, <2>5, TypeParts
<1>4. ASSUME NEW l \in todo[w], ListRaises(w, l) PROVE MatchmakingTypeOK'
  <2>1. /\ Members(todo[w]) \in SUBSET Request
        /\ Members(backlog[w]) \ Members(todo[w] \cup still[w]) \in SUBSET Request
    BY <1>t, MembersTyped DEF LoopsOK
  <2>2. failures' \in 0 .. MaxFailures /\ lost' \subseteq Request /\ doubled' \subseteq Request
    <3>1. \/ Failure(Members(todo[w]), {})
          \/ Failure({}, Members(backlog[w]) \ Members(todo[w] \cup still[w]))
      BY <1>4 DEF ListRaises
    <3>2. {} \in SUBSET Request OBVIOUS
    <3> QED BY <2>1, <3>1, <3>2, FailureTyped
  <2>3. RequestsOK' /\ RoomsOK'
    BY <1>4, <1>t, <2>2 DEF ListRaises, RequestsOK, RoomsOK
  <2>4. LoopsOK' /\ ClaimsOK'
    BY <1>4, <1>t DEF ListRaises, LoopsOK, ClaimsOK, Idle
  <2> QED BY <2>3, <2>4, TypeParts
<1>5. ASSUME NEW r \in Room, TryRoom(w, r) \/ ClaimRaises(w, r) PROVE MatchmakingTypeOK'
  <2>1. failures' \in 0 .. MaxFailures /\ lost' \subseteq Request /\ doubled' \subseteq Request
    BY <1>5, <1>0, FailureTyped DEF TryRoom, ClaimRaises
  <2>2. RequestsOK' /\ LoopsOK'
    BY <1>5, <1>t, <2>1 DEF TryRoom, ClaimRaises, RequestsOK, LoopsOK
  <2>3. RoomsOK'
    BY <1>5, <1>t, <2>1 DEF TryRoom, ClaimRaises, RoomsOK
  <2>4. ClaimsOK'
    <3>1. claim[w].lobby \in Lobby BY <1>5, <1>c DEF TryRoom, ClaimRaises
    <3>2. /\ [claim[w] EXCEPT !.room = r] \in Claim /\ [claim[w] EXCEPT !.room = r].lobby = claim[w].lobby
          /\ [claim[w] EXCEPT !.listed = @ \ {r}] \in Claim /\ [claim[w] EXCEPT !.listed = @ \ {r}].lobby = claim[w].lobby
      BY <1>c DEF Claim
    <3>3. \/ claim' = [claim EXCEPT ![w] = [claim[w] EXCEPT !.room = r]]
          \/ claim' = [claim EXCEPT ![w] = [claim[w] EXCEPT !.listed = @ \ {r}]]
      BY <1>5 DEF TryRoom, ClaimRaises
    <3> QED BY <1>t, <3>1, <3>2, <3>3 DEF ClaimsOK, Idle
  <2> QED BY <2>2, <2>3, <2>4, TypeParts
<1>6. ASSUME NoRoomYet(w) \/ StillNoRoom(w) PROVE MatchmakingTypeOK'
  <2>1. claim[w].lobby \in Lobby BY <1>6, <1>c DEF NoRoomYet, StillNoRoom
  <2>2. RequestsOK' /\ RoomsOK'
    BY <1>6, <1>t, <2>1, RecordsTyped DEF NoRoomYet, StillNoRoom, RequestsOK, RoomsOK
  <2>3. ClaimsOK'
    BY <1>6, <1>t, RecordsTyped DEF NoRoomYet, StillNoRoom, ClaimsOK, Idle
  <2>4. LoopsOK'
    BY <1>6, <1>t, <2>1, RecordsTyped DEF NoRoomYet, StillNoRoom, LoopsOK, Less
  <2> QED BY <2>2, <2>3, <2>4, TypeParts
<1>7. ASSUME Notify(w) PROVE MatchmakingTypeOK'
  <2>1. claim[w].lobby \in Lobby /\ claim[w].room \in Room
    BY <1>7, <1>c DEF Notify, Claim
  <2>2. claim[w].lobby.members \in SUBSET Request BY <2>1, RecordsTyped
  <2>3. failures' \in 0 .. MaxFailures /\ lost' \subseteq Request /\ doubled' \subseteq Request
    BY <1>7, <1>0, <2>2, FailureTyped DEF Notify
  <2>4. RequestsOK' /\ RoomsOK'
    BY <1>7, <1>t, <2>1, <2>2, <2>3 DEF Notify, Announcement, RequestsOK, RoomsOK
  <2>5. LoopsOK' /\ ClaimsOK'
    BY <1>7, <1>t, RecordsTyped DEF Notify, LoopsOK, ClaimsOK, Idle, DeficitAfter, Less
  <2> QED BY <2>4, <2>5, TypeParts
<1>8. ASSUME EndRetry(w) PROVE MatchmakingTypeOK'
  <2>1. PICK order \in Sorted(pending[w]), waited \in [pending[w] -> Windows] :
            /\ todo' = [todo EXCEPT ![w] = {[members |-> m, retry |-> 0] : m \in MatchTick(order, waited)}]
            /\ pending' = Loses(pending, w, UNION MatchTick(order, waited))
    BY <1>8 DEF EndRetry
  <2> DEFINE T == MatchTick(order, waited)
             fresh == {[members |-> m, retry |-> 0] : m \in T}
  <2>2. \A m \in T : m \in SUBSET Request
    <3>1. \A m \in T : m \subseteq pending[w] BY <2>1, TickLobbies DEF Typed, PendingFinite
    <3> QED BY <1>t, <3>1 DEF RequestsOK
  <2> HIDE DEF T
  <2>3. fresh \in SUBSET Lobby BY <2>2, RecordsTyped
  <2> HIDE DEF fresh
  <2>4. todo' = [todo EXCEPT ![w] = fresh] BY <2>1 DEF fresh, T
  <2>5. RequestsOK' /\ RoomsOK' /\ ClaimsOK'
    BY <1>8, <1>t, <2>1 DEF EndRetry, RequestsOK, RoomsOK, ClaimsOK, Idle
  <2>6. LoopsOK'
    BY <1>8, <1>t, <2>3, <2>4 DEF EndRetry, KeepPending, LoopsOK
  <2> QED BY <2>5, <2>6, TypeParts
<1>9. ASSUME EndTick(w) PROVE MatchmakingTypeOK'
  BY <1>9, <1>t, TypeParts DEF EndTick, RequestsOK, RoomsOK, LoopsOK, ClaimsOK, Idle
<1>10. ASSUME WorkerCrash(w) PROVE MatchmakingTypeOK'
  <2>1. pending[w] \cup Members(LobbiesOf(w)) \in SUBSET Request /\ unacked[w] \in SUBSET Request
    <3>1. LobbiesOf(w) \in SUBSET Lobby BY <1>t, <1>c DEF LobbiesOf, LoopsOK
    <3> QED BY <1>t, <3>1, MembersTyped DEF RequestsOK
  <2>2. failures' \in 0 .. MaxFailures /\ lost' \subseteq Request /\ doubled' \subseteq Request
    BY <1>10, <2>1, FailureTyped DEF WorkerCrash
  <2>3. RequestsOK' /\ RoomsOK'
    BY <1>10, <1>t, <2>1, <2>2 DEF WorkerCrash, RequestsOK, RoomsOK
  <2>4. LoopsOK' /\ ClaimsOK'
    BY <1>10, <1>t, RecordsTyped DEF WorkerCrash, LoopsOK, ClaimsOK, Idle
  <2> QED BY <2>3, <2>4, TypeParts
<1> QED BY <1>1, <1>2, <1>3, <1>4, <1>5, <1>6, <1>7, <1>8, <1>9, <1>10 DEF Step

LEMMA RoomTyped ==
    ASSUME MatchmakingTypeOK, NEW r \in Room, Register(r) \/ RemoveRoom(r)
    PROVE  MatchmakingTypeOK'
<1> USE DEF consumer, loop, pool, NoFailure
<1>t. RequestsOK /\ LoopsOK /\ ClaimsOK /\ RoomsOK BY TypeParts
<1>1. RequestsOK' /\ LoopsOK' /\ ClaimsOK'
  BY <1>t DEF Register, RemoveRoom, RequestsOK, LoopsOK, ClaimsOK, Idle
<1>2. RoomsOK'
  BY <1>t, SizeAssumption DEF Register, RemoveRoom, RoomsOK
<1> QED BY <1>1, <1>2, TypeParts

\* How a step changes what a matcher holds.
LEMMA PendingStep ==
    ASSUME MatchmakingTypeOK, MatchmakingNext, NEW w \in Worker
    PROVE  pending'[w] \subseteq pending[w] \/ \E q \in Request : pending'[w] = pending[w] \cup {q}
<1>t. pending \in [Worker -> SUBSET Request] BY DEF MatchmakingTypeOK
<1> USE DEF consumer, loop, pool, Gets, Loses
<1>1. ASSUME NEW r \in Room, Register(r) \/ RemoveRoom(r) PROVE pending' = pending
  BY <1>1 DEF Register, RemoveRoom
<1>2. ASSUME NEW v \in Worker, Step(v)
      PROVE  \/ \E S : pending' = [pending EXCEPT ![v] = @ \ S]
             \/ \E q \in Request : pending' = [pending EXCEPT ![v] = @ \cup {q}]
             \/ pending' = pending
  <2>1. CASE \E q \in Request : Deliver(v, q) \/ Refuse(v, q) \/ AddRequest(v, q) \/ Redeliver(v, q)
    BY <2>1 DEF Deliver, Refuse, AddRequest, Redeliver
  <2>2. CASE \E old \in SUBSET Request : BeginTick(v, old)
    BY <2>2 DEF BeginTick
  <2>3. CASE \E l \in todo[v] : ListRooms(v, l) \/ ListRaises(v, l)
    BY <2>3 DEF ListRooms, ListRaises
  <2>4. CASE \E r \in Room : TryRoom(v, r) \/ ClaimRaises(v, r)
    BY <2>4 DEF TryRoom, ClaimRaises
  <2>5. CASE NoRoomYet(v) \/ StillNoRoom(v) \/ Notify(v) \/ EndTick(v)
    BY <2>5 DEF NoRoomYet, StillNoRoom, Notify, EndTick
  <2>6. CASE EndRetry(v)
    BY <2>6 DEF EndRetry
  <2>7. CASE WorkerCrash(v)
    <3>1. pending' = [pending EXCEPT ![v] = @ \ pending[v]] BY <1>t, <2>7 DEF WorkerCrash
    <3> QED BY <3>1
  <2> QED BY <1>2, <2>1, <2>2, <2>3, <2>4, <2>5, <2>6, <2>7 DEF Step
<1>3. \/ pending' = pending
      \/ \E v \in Worker : \/ \E S : pending' = [pending EXCEPT ![v] = @ \ S]
                           \/ \E q \in Request : pending' = [pending EXCEPT ![v] = @ \cup {q}]
  BY <1>1, <1>2 DEF MatchmakingNext
<1> QED BY <1>t, <1>3

\* How a step changes where a loop is.
LEMMA StageStep ==
    ASSUME MatchmakingTypeOK, MatchmakingNext
    PROVE  \/ UNCHANGED stage
           \/ \E w \in Worker :
                 \/ \E old \in SUBSET Request : BeginTick(w, old) /\ stage' = [stage EXCEPT ![w] = "retry"]
                 \/ EndRetry(w) /\ stage' = [stage EXCEPT ![w] = "match"]
                 \/ EndTick(w) /\ stage' = [stage EXCEPT ![w] = "sleep"]
                 \/ \E l \in todo[w] : ListRaises(w, l) /\ stage' = [stage EXCEPT ![w] = "sleep"]
                 \/ WorkerCrash(w) /\ stage' = [stage EXCEPT ![w] = "sleep"]
<1> DEFINE Change(w) ==
                 \/ \E old \in SUBSET Request : BeginTick(w, old) /\ stage' = [stage EXCEPT ![w] = "retry"]
                 \/ EndRetry(w) /\ stage' = [stage EXCEPT ![w] = "match"]
                 \/ EndTick(w) /\ stage' = [stage EXCEPT ![w] = "sleep"]
                 \/ \E l \in todo[w] : ListRaises(w, l) /\ stage' = [stage EXCEPT ![w] = "sleep"]
                 \/ WorkerCrash(w) /\ stage' = [stage EXCEPT ![w] = "sleep"]
<1> USE DEF consumer, loop, pool
<1>1. ASSUME NEW r \in Room, Register(r) \/ RemoveRoom(r) PROVE UNCHANGED stage
  BY <1>1 DEF Register, RemoveRoom
<1>2. ASSUME NEW w \in Worker, Step(w) PROVE UNCHANGED stage \/ Change(w)
  <2>1. CASE \E q \in Request : Deliver(w, q) \/ Refuse(w, q) \/ AddRequest(w, q) \/ Redeliver(w, q)
    BY <2>1 DEF Deliver, Refuse, AddRequest, Redeliver
  <2>2. CASE \E old \in SUBSET Request : BeginTick(w, old)
    BY <2>2 DEF BeginTick
  <2>3. CASE \E l \in todo[w] : ListRooms(w, l) \/ ListRaises(w, l)
    BY <2>3 DEF ListRooms, ListRaises
  <2>4. CASE \E r \in Room : TryRoom(w, r) \/ ClaimRaises(w, r)
    BY <2>4 DEF TryRoom, ClaimRaises
  <2>5. CASE NoRoomYet(w) \/ StillNoRoom(w) \/ Notify(w)
    BY <2>5 DEF NoRoomYet, StillNoRoom, Notify
  <2>6. CASE EndRetry(w) \/ EndTick(w) \/ WorkerCrash(w)
    BY <2>6 DEF EndRetry, EndTick, WorkerCrash
  <2> QED BY <1>2, <2>1, <2>2, <2>3, <2>4, <2>5, <2>6 DEF Step
<1> QED BY <1>1, <1>2 DEF MatchmakingNext

\* Every step keeps the types, and what a matcher holds finite.
LEMMA TypedStep == Typed /\ [MatchmakingNext]_matchVars => Typed'
<1> SUFFICES ASSUME Typed, [MatchmakingNext]_matchVars PROVE Typed'
  OBVIOUS
<1> MatchmakingTypeOK BY DEF Typed
<1>1. CASE MatchmakingNext
  <2>1. MatchmakingTypeOK'
    BY <1>1, WorkerTyped, RoomTyped DEF MatchmakingNext
  <2>2. ASSUME NEW w \in Worker PROVE IsFiniteSet(pending'[w])
    <3>1. IsFiniteSet(pending[w]) BY DEF Typed, PendingFinite
    <3>2. CASE pending'[w] \subseteq pending[w] BY <3>1, <3>2, FS_Subset
    <3>3. ASSUME NEW q \in Request, pending'[w] = pending[w] \cup {q} PROVE IsFiniteSet(pending'[w])
      BY <3>1, <3>3, FS_AddElement
    <3> QED BY <1>1, <3>2, <3>3, PendingStep
  <2> QED BY <2>1, <2>2 DEF Typed, PendingFinite
<1>2. CASE UNCHANGED matchVars
  <2>1. MatchmakingTypeOK' BY <1>2 DEF matchVars, MatchmakingTypeOK, Idle
  <2> QED BY <1>2, <2>1 DEF matchVars, Typed, PendingFinite
<1> QED BY <1>1, <1>2

LEMMA AlwaysTyped == MatchmakingSpec => []Typed
  BY InitTyped, TypedStep, PTL DEF MatchmakingSpec

(***************************************************************************)
(* The state of matchmaking keeps its types, for any number of workers,    *)
(* requests and rooms: what a loop has in hand are lobbies of requests     *)
(* with no more retries than _MAX_SCALE_RETRIES.                           *)
(***************************************************************************)
THEOREM MatchmakingTypeCorrect == MatchmakingSpec => []MatchmakingTypeOK
<1>1. Typed => MatchmakingTypeOK BY DEF Typed
<1> QED BY <1>1, AlwaysTyped, PTL

(***************************************************************************)
(* match_tick leaves nobody waiting who could play: for any lobby sizes,   *)
(* ratings and numbers of requests, in whatever order of equal ratings.    *)
(***************************************************************************)
THEOREM NobodyLeft == MatchmakingSpec => NobodyLeftWhoCouldPlay
<1>1. ASSUME Typed, [MatchmakingNext]_matchVars
      PROVE  [\A w \in Worker : stage[w] = "retry" /\ stage'[w] = "match"
                                => \A S \in SUBSET pending'[w] : ~Playable(S)]_matchVars
  <2> SUFFICES ASSUME MatchmakingNext, NEW w \in Worker, stage[w] = "retry", stage'[w] = "match",
                      NEW S \in SUBSET pending'[w]
               PROVE  ~Playable(S)
    BY <1>1
  <2>1. EndRetry(w)
    BY <1>1, StageStep DEF Typed, MatchmakingTypeOK
  <2>2. PICK order \in Sorted(pending[w]), waited \in [pending[w] -> Windows] :
            pending'[w] = pending[w] \ UNION MatchTick(order, waited)
    BY <1>1, <2>1 DEF EndRetry, Loses, Typed, MatchmakingTypeOK
  <2>3. pending[w] \in SUBSET Request /\ IsFiniteSet(pending[w])
    BY <1>1 DEF Typed, MatchmakingTypeOK, PendingFinite
  <2> QED BY <2>2, <2>3, TickLeavesNobody
<1> QED BY <1>1, AlwaysTyped, PTL DEF MatchmakingSpec, NobodyLeftWhoCouldPlay

-----------------------------------------------------------------------------
(* Rooms *)

\* A room is registered when nobody has claimed it since.
AvailableIsNew == \A r \in Room : rooms[r] = "available" => handed[r] = 0

\* Every step keeps available rooms unclaimed, and the others claimed once.
LEMMA RoomStep ==
    ASSUME Typed, AvailableIsNew, ClaimedOnce, MatchmakingNext
    PROVE  AvailableIsNew' /\ ClaimedOnce'
<1> USE DEF consumer, loop, pool, NoFailure, StillAvailable
<1>t. RoomsOK BY TypeParts DEF Typed
<1>1. CASE UNCHANGED <<rooms, handed>>
  BY <1>1 DEF AvailableIsNew, ClaimedOnce
<1>2. ASSUME NEW r \in Room, rooms[r] = "available",
             rooms' = [rooms EXCEPT ![r] = "in-use"], handed' = [handed EXCEPT ![r] = @ + 1]
      PROVE  AvailableIsNew' /\ ClaimedOnce'
  BY <1>t, <1>2 DEF RoomsOK, AvailableIsNew, ClaimedOnce
<1>3. ASSUME NEW r \in Room, rooms' = [rooms EXCEPT ![r] = "available"], handed' = [handed EXCEPT ![r] = 0]
      PROVE  AvailableIsNew' /\ ClaimedOnce'
  BY <1>t, <1>3 DEF RoomsOK, AvailableIsNew, ClaimedOnce
<1>4. ASSUME NEW r \in Room, Register(r) \/ RemoveRoom(r) PROVE AvailableIsNew' /\ ClaimedOnce'
  BY <1>t, <1>3, <1>4 DEF Register, RemoveRoom, RoomsOK, AvailableIsNew, ClaimedOnce
<1>5. ASSUME NEW w \in Worker, Step(w) PROVE AvailableIsNew' /\ ClaimedOnce'
  <2>1. CASE \E q \in Request : Deliver(w, q) \/ Refuse(w, q) \/ AddRequest(w, q) \/ Redeliver(w, q)
    BY <1>1, <2>1 DEF Deliver, Refuse, AddRequest, Redeliver
  <2>2. CASE \E old \in SUBSET Request : BeginTick(w, old)
    BY <1>1, <2>2 DEF BeginTick
  <2>3. CASE \E l \in todo[w] : ListRooms(w, l) \/ ListRaises(w, l)
    BY <1>1, <2>3 DEF ListRooms, ListRaises
  <2>4. CASE \E r \in Room : TryRoom(w, r) \/ ClaimRaises(w, r)
    BY <1>1, <1>2, <2>4 DEF TryRoom, ClaimRaises
  <2>5. CASE Notify(w)
    <3>1. claim[w].room \in Room
      BY <2>5, ClaimIs DEF Notify, Claim, Typed
    <3>2. \/ UNCHANGED <<rooms, handed>>
          \/ /\ rooms' = [rooms EXCEPT ![claim[w].room] = "available"]
             /\ handed' = [handed EXCEPT ![claim[w].room] = 0]
      BY <2>5 DEF Notify
    <3> QED BY <1>1, <1>3, <3>1, <3>2
  <2>6. CASE NoRoomYet(w) \/ StillNoRoom(w) \/ EndRetry(w) \/ EndTick(w) \/ WorkerCrash(w)
    BY <1>1, <2>6 DEF NoRoomYet, StillNoRoom, EndRetry, EndTick, WorkerCrash
  <2> QED BY <1>5, <2>1, <2>2, <2>3, <2>4, <2>5, <2>6 DEF Step
<1> QED BY <1>4, <1>5 DEF MatchmakingNext

(***************************************************************************)
(* Any number of workers never claim a room twice between two of its       *)
(* registrations, whatever they list in between and whichever of their     *)
(* transactions fail after having been carried out.                        *)
(***************************************************************************)
THEOREM RoomsClaimedOnce == MatchmakingSpec => []ClaimedOnce
<1>1. MatchmakingInit => AvailableIsNew /\ ClaimedOnce
  BY DEF MatchmakingInit, AvailableIsNew, ClaimedOnce
<1>2. Typed /\ AvailableIsNew /\ ClaimedOnce /\ [MatchmakingNext]_matchVars => AvailableIsNew' /\ ClaimedOnce'
  <2>1. UNCHANGED matchVars /\ AvailableIsNew /\ ClaimedOnce => AvailableIsNew' /\ ClaimedOnce'
    BY DEF matchVars, AvailableIsNew, ClaimedOnce
  <2> QED BY <2>1, RoomStep
<1> QED BY <1>1, <1>2, AlwaysTyped, PTL DEF MatchmakingSpec

-----------------------------------------------------------------------------
(* Where a request is *)

\* A loop has lobbies in hand in its stages only; what it retries comes from
\* the backlog, which it replaces at the end.
LoopSound(w) ==
    /\ stage[w] = "sleep" => todo[w] = {} /\ Idle(w)
    /\ stage[w] # "retry" => still[w] = {}
    /\ stage[w] = "retry" => /\ todo[w] \subseteq backlog[w]
                             /\ ~Idle(w) => claim[w].lobby \in backlog[w]
                             /\ \A l \in still[w] : \E b \in backlog[w] : l.members = b.members
LoopsSound == \A w \in Worker : LoopSound(w)

\* The places outside the workers, and those at worker w.
Outside(q, k, x) == \/ k = "queue" /\ x = Nothing /\ q \in queue
                    \/ k = "ended" /\ x = Nothing /\ q \in ended
                    \/ k = "found" /\ x \in found /\ q \in x.members
Inside(q, k, w, x) == \/ k = "unacked" /\ x = Nothing /\ q \in unacked[w]
                      \/ k = "pending" /\ x = Nothing /\ q \in pending[w]
                      \/ k = "claim" /\ x = Nothing /\ ~Idle(w) /\ q \in claim[w].lobby.members
                      \/ k = "todo" /\ x \in todo[w] /\ q \in x.members
                      \/ k = "still" /\ x \in still[w] /\ q \in x.members
                      \/ k = "backlog" /\ stage[w] # "retry" /\ x \in backlog[w] /\ q \in x.members
Holds(q, k, w, x) == (w = Nothing /\ Outside(q, k, x)) \/ (w \in Worker /\ Inside(q, k, w, x))

OnePlace(q) == \E k, w, x : \A j, v, y : Holds(q, j, v, y) <=> j = k /\ v = w /\ y = x

\* What is retried is in one lobby of the backlog.
OneLobby(q) == \A w \in Worker : stage[w] = "retry" =>
                   \A a, b \in backlog[w] : q \in a.members /\ q \in b.members => a = b

\* A lost request is nowhere.
NowhereAt(q, w) == /\ q \notin unacked[w] /\ q \notin pending[w]
                   /\ \A l \in LobbiesOf(w) : q \notin l.members
Nowhere(q) == /\ q \notin queue /\ q \notin ended /\ \A f \in found : q \notin f.members
              /\ \A w \in Worker : NowhereAt(q, w)

WherePlaced(q) == IF q \in lost THEN Nowhere(q) ELSE OnePlace(q)
PlacesInv == LoopsSound /\ \A q \in Request \ doubled : WherePlaced(q) /\ OneLobby(q)

\* What the other workers hold stays as it is.
SameAt(w) == /\ unacked'[w] = unacked[w] /\ pending'[w] = pending[w]
             /\ backlog'[w] = backlog[w] /\ stage'[w] = stage[w]
             /\ todo'[w] = todo[w] /\ still'[w] = still[w]
             /\ claim'[w] = claim[w] /\ deficit'[w] = deficit[w]

LEMMA OthersStay ==
    ASSUME MatchmakingTypeOK, NEW v \in Worker, Step(v), NEW w \in Worker, w # v
    PROVE  SameAt(w)
<1>t. RequestsOK /\ LoopsOK /\ ClaimsOK BY TypeParts
<1> USE <1>t DEF consumer, loop, pool, Gets, Loses, RequestsOK, LoopsOK, ClaimsOK, SameAt
<1>1. CASE \E q \in Request : Deliver(v, q) \/ Refuse(v, q) \/ AddRequest(v, q) \/ Redeliver(v, q)
  BY <1>1 DEF Deliver, Refuse, AddRequest, Redeliver
<1>2. CASE \E old \in SUBSET Request : BeginTick(v, old)
  BY <1>2 DEF BeginTick
<1>3. CASE \E l \in todo[v] : ListRooms(v, l) \/ ListRaises(v, l)
  BY <1>3 DEF ListRooms, ListRaises
<1>4. CASE \E r \in Room : TryRoom(v, r) \/ ClaimRaises(v, r)
  BY <1>4 DEF TryRoom, ClaimRaises
<1>5. CASE NoRoomYet(v) \/ StillNoRoom(v) \/ Notify(v)
  BY <1>5 DEF NoRoomYet, StillNoRoom, Notify
<1>6. CASE EndRetry(v)
  <2>1. PICK fresh, gone : /\ todo' = [todo EXCEPT ![v] = fresh]
                           /\ pending' = [pending EXCEPT ![v] = @ \ gone]
    BY <1>6 DEF EndRetry
  <2> QED BY <1>6, <2>1 DEF EndRetry, KeepPending
<1>7. CASE EndTick(v) \/ WorkerCrash(v)
  BY <1>7 DEF EndTick, WorkerCrash
<1> QED BY <1>1, <1>2, <1>3, <1>4, <1>5, <1>6, <1>7 DEF Step

\* Every step of a worker keeps its loop sound.
LEMMA LoopStep ==
    ASSUME MatchmakingTypeOK, NEW w \in Worker, LoopSound(w), Step(w)
    PROVE  LoopSound(w)'
<1>t. RequestsOK /\ LoopsOK /\ ClaimsOK BY TypeParts
<1>c. Idle(w) => claim[w].room = Nothing /\ claim[w].listed = {} /\ claim[w].lobby = Nothing
  BY ClaimIs
<1>n. Nothing \notin Room /\ Nothing \notin Lobby BY NothingElse DEF NeverNothing
<1> USE DEF consumer, loop, pool, Gets, Loses, LoopSound, Idle
<1>1. CASE \E q \in Request : Deliver(w, q) \/ Refuse(w, q) \/ AddRequest(w, q) \/ Redeliver(w, q)
  BY <1>1 DEF Deliver, Refuse, AddRequest, Redeliver
<1>2. CASE \E old \in SUBSET Request : BeginTick(w, old)
  BY <1>t, <1>2 DEF BeginTick, LoopsOK
<1>3. ASSUME NEW l \in todo[w], ListRooms(w, l) PROVE LoopSound(w)'
  BY <1>t, <1>3 DEF ListRooms, LoopsOK, ClaimsOK
<1>4. ASSUME NEW l \in todo[w], ListRaises(w, l) PROVE LoopSound(w)'
  BY <1>t, <1>4 DEF ListRaises, LoopsOK, ClaimsOK
<1>5. ASSUME NEW r \in Room, TryRoom(w, r) \/ ClaimRaises(w, r) PROVE LoopSound(w)'
  <2>1. ~Idle(w) BY <1>c, <1>5 DEF TryRoom, ClaimRaises
  <2>2. claim'[w].lobby = claim[w].lobby
    BY <1>t, <1>5 DEF TryRoom, ClaimRaises, ClaimsOK, Claim
  <2> QED BY <1>5, <2>1, <2>2 DEF TryRoom, ClaimRaises
<1>6. CASE NoRoomYet(w)
  BY <1>t, <1>6 DEF NoRoomYet, LoopsOK, ClaimsOK
<1>7. CASE StillNoRoom(w)
  <2>1. claim[w].lobby \in Lobby BY <1>t, <1>7 DEF StillNoRoom, ClaimsOK
  <2>2. /\ stage[w] = "retry" /\ stage' = stage /\ todo' = todo /\ backlog' = backlog
        /\ claim' = [claim EXCEPT ![w] = NoClaim]
        /\ claim[w].lobby \in backlog[w]
    BY <1>7 DEF StillNoRoom
  <2>3. CASE claim[w].lobby.retry < MaxRetries /\ still' = [still EXCEPT ![w] = @ \cup {Later(claim[w].lobby)}]
    <3>1. Later(claim[w].lobby).members = claim[w].lobby.members BY <2>1, <2>3, RecordsTyped
    <3> QED BY <1>t, <2>2, <2>3, <3>1 DEF LoopsOK, ClaimsOK
  <2>4. CASE still' = still
    BY <1>t, <2>2, <2>4 DEF LoopsOK, ClaimsOK
  <2> QED BY <1>7, <2>3, <2>4 DEF StillNoRoom
<1>8. CASE Notify(w)
  BY <1>t, <1>c, <1>8 DEF Notify, LoopsOK, ClaimsOK
<1>9. CASE EndRetry(w)
  <2>1. stage'[w] = "match" /\ still'[w] = {}
    BY <1>t, <1>9 DEF EndRetry, LoopsOK
  <2> QED BY <2>1
<1>10. CASE EndTick(w)
  BY <1>t, <1>10 DEF EndTick, LoopsOK
<1>11. CASE WorkerCrash(w)
  BY <1>t, <1>11 DEF WorkerCrash, LoopsOK, ClaimsOK
<1> QED BY <1>1, <1>2, <1>3, <1>4, <1>5, <1>6, <1>7, <1>8, <1>9, <1>10, <1>11 DEF Step

\* A request is in no second place.
LEMMA NoOther ==
    ASSUME NEW q, OnePlace(q), NEW k, NEW w, NEW x, Holds(q, k, w, x)
    PROVE  \A j, v, y : Holds(q, j, v, y) => j = k /\ v = w /\ y = x
  BY DEF OnePlace

\* A request that stays, and one that moves.
LEMMA Stays ==
    ASSUME NEW q, OnePlace(q), \A k, w, x : Holds(q, k, w, x)' <=> Holds(q, k, w, x)
    PROVE  OnePlace(q)'
<1>1. PICK k, w, x : \A j, v, y : Holds(q, j, v, y) <=> j = k /\ v = w /\ y = x
  BY DEF OnePlace
<1>2. \A j, v, y : Holds(q, j, v, y)' <=> j = k /\ v = w /\ y = x
  BY <1>1
<1> QED BY <1>2 DEF OnePlace

LEMMA MovesTo ==
    ASSUME NEW q, NEW k, NEW w, NEW x, Holds(q, k, w, x)',
           \A j, v, y : Holds(q, j, v, y)' => j = k /\ v = w /\ y = x
    PROVE  OnePlace(q)'
<1>1. \A j, v, y : Holds(q, j, v, y)' <=> j = k /\ v = w /\ y = x
  <2> TAKE j, v, y
  <2>1. CASE j = k /\ v = w /\ y = x BY <2>1
  <2>2. CASE ~(j = k /\ v = w /\ y = x) BY <2>2
  <2> QED BY <2>1, <2>2
<1> QED BY <1>1 DEF OnePlace

\* The other workers hold what they held, and no kind of place is both in and out.
LEMMA OthersHold ==
    ASSUME MatchmakingTypeOK, NEW w \in Worker, Step(w), NEW v \in Worker, v # w, NEW q, NEW k, NEW x
    PROVE  Inside(q, k, v, x)' <=> Inside(q, k, v, x)
  BY OthersStay DEF SameAt, Inside, Idle

LEMMA KindsDiffer == \A q, k, w, x, y : Outside(q, k, x) => ~Inside(q, k, w, y)
  BY DEF Outside, Inside

\* A request that is in one place is nowhere else.
LEMMA OnlyInside ==
    ASSUME NEW q, OnePlace(q), NEW w \in Worker, NEW k, NEW x, Inside(q, k, w, x)
    PROVE  /\ \A j, y : ~Outside(q, j, y)
           /\ \A j, y : Inside(q, j, w, y) => j = k /\ y = x
           /\ \A j, y : \A v \in Worker \ {w} : ~Inside(q, j, v, y)
<1>1. \A j, v, y : Holds(q, j, v, y) => j = k /\ v = w /\ y = x
  <2>1. Holds(q, k, w, x) BY DEF Holds
  <2> QED BY <2>1, NoOther
<1>2. ASSUME NEW j, NEW y, Outside(q, j, y) PROVE FALSE
  <2>1. Holds(q, j, Nothing, y) BY <1>2 DEF Holds
  <2>2. j = k BY <1>1, <2>1
  <2> QED BY <1>2, <2>2, KindsDiffer
<1>3. ASSUME NEW j, NEW y, NEW v \in Worker, Inside(q, j, v, y) PROVE j = k /\ v = w /\ y = x
  <2>1. Holds(q, j, v, y) BY <1>3 DEF Holds
  <2> QED BY <1>1, <2>1
<1> QED BY <1>2, <1>3

LEMMA OnlyOutside ==
    ASSUME NEW q, OnePlace(q), NEW k, NEW x, Outside(q, k, x)
    PROVE  /\ \A j, y : Outside(q, j, y) => j = k /\ y = x
           /\ \A j, y : \A v \in Worker : ~Inside(q, j, v, y)
<1>1. \A j, v, y : Holds(q, j, v, y) => j = k /\ v = Nothing /\ y = x
  <2>1. Holds(q, k, Nothing, x) BY DEF Holds
  <2> QED BY <2>1, NoOther
<1>2. ASSUME NEW j, NEW y, Outside(q, j, y) PROVE j = k /\ y = x
  <2>1. Holds(q, j, Nothing, y) BY <1>2 DEF Holds
  <2> QED BY <1>1, <2>1
<1>3. ASSUME NEW j, NEW y, NEW v \in Worker, Inside(q, j, v, y) PROVE FALSE
  <2>1. Holds(q, j, v, y) BY <1>3 DEF Holds
  <2>2. j = k BY <1>1, <2>1
  <2> QED BY <1>3, <2>2, KindsDiffer
<1> QED BY <1>2, <1>3

\* A step of worker w that does not move a request, and one that does.
LEMMA StaysAt ==
    ASSUME MatchmakingTypeOK, NEW w \in Worker, Step(w), NEW q, OnePlace(q),
           \A k, x : Outside(q, k, x)' <=> Outside(q, k, x),
           \A k, x : Inside(q, k, w, x)' <=> Inside(q, k, w, x)
    PROVE  OnePlace(q)'
<1>1. ASSUME NEW k, NEW v, NEW x PROVE Holds(q, k, v, x)' <=> Holds(q, k, v, x)
  BY OthersHold DEF Holds
<1> QED BY <1>1, Stays

LEMMA MovesInside ==
    ASSUME MatchmakingTypeOK, NEW w \in Worker, Step(w), NEW q, OnePlace(q),
           NEW i, NEW z, Inside(q, i, w, z) \/ Outside(q, i, z),
           \A j, y : ~Outside(q, j, y)',
           NEW k, NEW x, Inside(q, k, w, x)',
           \A j, y : Inside(q, j, w, y)' => j = k /\ y = x
    PROVE  OnePlace(q)'
<1>1. ASSUME NEW j, NEW v, NEW y, Holds(q, j, v, y)' PROVE j = k /\ v = w /\ y = x
  <2>1. CASE v \in Worker /\ v # w /\ Inside(q, j, v, y)'
    BY <2>1, OthersHold, OnlyInside, OnlyOutside
  <2>2. CASE v = w /\ Inside(q, j, v, y)'
    BY <2>2
  <2> QED BY <1>1, <2>1, <2>2 DEF Holds
<1>2. Holds(q, k, w, x)'
  BY DEF Holds
<1> QED BY <1>1, <1>2, MovesTo

LEMMA MovesOutside ==
    ASSUME MatchmakingTypeOK, NEW w \in Worker, Step(w), NEW q, OnePlace(q),
           NEW i, NEW z, Inside(q, i, w, z),
           \A j, y : ~Inside(q, j, w, y)',
           NEW k, NEW x, Outside(q, k, x)',
           \A j, y : Outside(q, j, y)' => j = k /\ y = x
    PROVE  OnePlace(q)'
<1>1. ASSUME NEW j, NEW v, NEW y, Holds(q, j, v, y)' PROVE j = k /\ v = Nothing /\ y = x
  <2>1. CASE v \in Worker /\ v # w /\ Inside(q, j, v, y)'
    BY <2>1, OthersHold, OnlyInside
  <2> QED BY <1>1, <2>1 DEF Holds
<1>2. Holds(q, k, Nothing, x)'
  BY DEF Holds
<1> QED BY <1>1, <1>2, MovesTo

\* The steps of the consumer: a request is delivered, refused, queued for the matcher, or comes back.
LEMMA ConsumerPlaces ==
    ASSUME MatchmakingTypeOK, NEW w \in Worker, Step(w), NEW q \in Request, OnePlace(q), q \notin doubled',
           NEW p \in Request, Deliver(w, p) \/ Refuse(w, p) \/ AddRequest(w, p) \/ Redeliver(w, p)
    PROVE  OnePlace(q)'
<1>t. RequestsOK BY TypeParts
<1> USE <1>t DEF consumer, loop, pool, Gets, Loses, NoFailure, RequestsOK
<1>1. CASE p # q
  <2>1. \A k, x : Outside(q, k, x)' <=> Outside(q, k, x)
    BY <1>1 DEF Deliver, Refuse, AddRequest, Redeliver, Outside
  <2>2. \A k, x : Inside(q, k, w, x)' <=> Inside(q, k, w, x)
    BY <1>1 DEF Deliver, Refuse, AddRequest, Redeliver, Inside, Idle
  <2> QED BY <2>1, <2>2, StaysAt
<1>2. CASE Deliver(w, q)
  <2>1. Outside(q, "queue", Nothing) BY <1>2 DEF Deliver, Outside
  <2>2. /\ \A k, x : Outside(q, k, x) => k = "queue"
        /\ \A k, x : ~Inside(q, k, w, x)
    BY <2>1, OnlyOutside
  <2>3. \A k, x : ~Outside(q, k, x)'
    <3>1. \A k, x : Outside(q, k, x)' => Outside(q, k, x) BY <1>2 DEF Deliver, Outside
    <3>2. \A x : ~Outside(q, "queue", x)' BY <1>2 DEF Deliver, Outside
    <3> QED BY <2>2, <3>1, <3>2
  <2>4. Inside(q, "unacked", w, Nothing)' BY <1>2 DEF Deliver, Inside
  <2>5. \A k, x : Inside(q, k, w, x)' => k = "unacked" /\ x = Nothing
    <3>1. \A k, x : Inside(q, k, w, x)' => Inside(q, k, w, x) \/ (k = "unacked" /\ x = Nothing)
      BY <1>2 DEF Deliver, Inside, Idle
    <3> QED BY <2>2, <3>1
  <2> QED BY <2>1, <2>3, <2>4, <2>5, MovesInside
<1>3. CASE Refuse(w, q)
  <2>1. Inside(q, "unacked", w, Nothing) BY <1>3 DEF Refuse, Inside
  <2>2. /\ \A k, x : ~Outside(q, k, x)
        /\ \A k, x : Inside(q, k, w, x) => k = "unacked"
    BY <2>1, OnlyInside
  <2>3. \A k, x : ~Inside(q, k, w, x)'
    <3>1. \A k, x : Inside(q, k, w, x)' => Inside(q, k, w, x) BY <1>3 DEF Refuse, Inside, Idle
    <3>2. \A x : ~Inside(q, "unacked", w, x)' BY <1>3 DEF Refuse, Inside
    <3> QED BY <2>2, <3>1, <3>2
  <2>4. Outside(q, "ended", Nothing)' BY <1>3 DEF Refuse, Outside
  <2>5. \A k, x : Outside(q, k, x)' => k = "ended" /\ x = Nothing
    <3>1. \A k, x : Outside(q, k, x)' => Outside(q, k, x) \/ (k = "ended" /\ x = Nothing)
      BY <1>3 DEF Refuse, Outside
    <3> QED BY <2>2, <3>1
  <2> QED BY <2>1, <2>3, <2>4, <2>5, MovesOutside
<1>4. CASE AddRequest(w, q)
  <2>1. Inside(q, "unacked", w, Nothing) BY <1>4 DEF AddRequest, Inside
  <2>2. /\ \A k, x : ~Outside(q, k, x)
        /\ \A k, x : Inside(q, k, w, x) => k = "unacked"
    BY <2>1, OnlyInside
  <2>3. \A k, x : ~Outside(q, k, x)'
    BY <1>4, <2>2 DEF AddRequest, Outside
  <2>4. Inside(q, "pending", w, Nothing)' BY <1>4 DEF AddRequest, Inside
  <2>5. \A k, x : Inside(q, k, w, x)' => k = "pending" /\ x = Nothing
    <3>1. \A k, x : Inside(q, k, w, x)' => Inside(q, k, w, x) \/ (k = "pending" /\ x = Nothing)
      BY <1>4 DEF AddRequest, Inside, Idle
    <3>2. \A x : ~Inside(q, "unacked", w, x)' BY <1>4 DEF AddRequest, Inside
    <3> QED BY <2>2, <3>1, <3>2
  <2> QED BY <2>1, <2>3, <2>4, <2>5, MovesInside
<1>5. CASE Redeliver(w, q)
  <2>0. pending' = pending BY <1>5 DEF Redeliver, Failure
  <2>1. Inside(q, "unacked", w, Nothing) BY <1>5 DEF Redeliver, Inside
  <2>2. /\ \A k, x : ~Outside(q, k, x)
        /\ \A k, x : Inside(q, k, w, x) => k = "unacked"
    BY <2>1, OnlyInside
  <2>3. \A k, x : ~Inside(q, k, w, x)'
    <3>1. \A k, x : Inside(q, k, w, x)' => Inside(q, k, w, x) BY <1>5, <2>0 DEF Redeliver, Inside, Idle
    <3>2. \A x : ~Inside(q, "unacked", w, x)' BY <1>5 DEF Redeliver, Inside
    <3> QED BY <2>2, <3>1, <3>2
  <2>4. Outside(q, "queue", Nothing)' BY <1>5 DEF Redeliver, Outside
  <2>5. \A k, x : Outside(q, k, x)' => k = "queue" /\ x = Nothing
    <3>1. \A k, x : Outside(q, k, x)' => Outside(q, k, x) \/ (k = "queue" /\ x = Nothing)
      BY <1>5 DEF Redeliver, Outside
    <3> QED BY <2>2, <3>1
  <2> QED BY <2>1, <2>3, <2>4, <2>5, MovesOutside
<1> QED BY <1>1, <1>2, <1>3, <1>4, <1>5

\* A tick begins: old requests end, and the backlog becomes what is retried.
LEMMA BeginPlaces ==
    ASSUME MatchmakingTypeOK, NEW w \in Worker, Step(w), NEW q \in Request, OnePlace(q), LoopSound(w),
           NEW old \in SUBSET Request, BeginTick(w, old)
    PROVE  OnePlace(q)'
<1>t. RequestsOK /\ LoopsOK BY TypeParts
<1> USE <1>t DEF consumer, loop, pool, Gets, Loses, NoFailure, RequestsOK, LoopsOK
<1>0. /\ unacked' = unacked /\ claim' = claim /\ backlog' = backlog /\ queue' = queue /\ found' = found
      /\ pending'[w] = pending[w] \ old /\ ended' = ended \cup old /\ old \subseteq pending[w]
      /\ stage[w] = "sleep" /\ stage'[w] = "retry" /\ todo[w] = {} /\ todo'[w] = backlog[w]
      /\ still[w] = {} /\ still'[w] = {}
  BY DEF BeginTick, LoopSound
<1>1. \A k, x : Inside(q, k, w, x)' =>
          \/ Inside(q, k, w, x)
          \/ k = "todo" /\ Inside(q, "backlog", w, x)
  BY <1>0 DEF Inside, Idle
<1>2. \A k, x : Inside(q, k, w, x)' => k # "backlog" /\ (k = "pending" => q \notin old)
  BY <1>0 DEF Inside
<1>3. \A x : Inside(q, "backlog", w, x) => Inside(q, "todo", w, x)'
  BY <1>0 DEF Inside
<1>4. \A k, x : Outside(q, k, x)' <=> Outside(q, k, x) \/ (k = "ended" /\ x = Nothing /\ q \in old)
  BY <1>0 DEF Outside
<1>5. CASE q \in old
  <2>1. Inside(q, "pending", w, Nothing) BY <1>0, <1>5 DEF Inside
  <2>2. /\ \A k, x : ~Outside(q, k, x)
        /\ \A k, x : Inside(q, k, w, x) => k = "pending" /\ x = Nothing
    BY <2>1, OnlyInside
  <2>3. \A k, x : ~Inside(q, k, w, x)' BY <1>1, <1>2, <1>5, <2>2
  <2>4. Outside(q, "ended", Nothing)' BY <1>4, <1>5
  <2>5. \A k, x : Outside(q, k, x)' => k = "ended" /\ x = Nothing BY <1>4, <2>2
  <2> QED BY <2>1, <2>3, <2>4, <2>5, MovesOutside
<1>6. ASSUME q \notin old, NEW x, Inside(q, "backlog", w, x) PROVE OnePlace(q)'
  <2>2. /\ \A k, y : ~Outside(q, k, y)
        /\ \A k, y : Inside(q, k, w, y) => k = "backlog" /\ y = x
    BY <1>6, OnlyInside
  <2>3. \A k, y : ~Outside(q, k, y)' BY <1>4, <1>6, <2>2
  <2>4. Inside(q, "todo", w, x)' BY <1>3, <1>6
  <2>5. \A k, y : Inside(q, k, w, y)' => k = "todo" /\ y = x BY <1>1, <1>2, <2>2
  <2> QED BY <1>6, <2>3, <2>4, <2>5, MovesInside
<1>7. CASE q \notin old /\ \A x : ~Inside(q, "backlog", w, x)
  <2>1. \A k, x : Outside(q, k, x)' <=> Outside(q, k, x) BY <1>4, <1>7
  <2>2. \A k, x : Inside(q, k, w, x) => Inside(q, k, w, x)'
    <3>1. \A k, x : Inside(q, k, w, x) => k # "backlog" BY <1>7
    <3>2. \A k, x : Inside(q, k, w, x) /\ k # "backlog" => Inside(q, k, w, x)'
      BY <1>0, <1>7 DEF Inside, Idle
    <3> QED BY <3>1, <3>2
  <2> QED BY <1>1, <1>7, <2>1, <2>2, StaysAt
<1> QED BY <1>5, <1>6, <1>7

LEMMA ClaimPlaces ==
    ASSUME MatchmakingTypeOK, NEW w \in Worker, Step(w), NEW q \in Request, OnePlace(q),
           \/ \E l \in todo[w] : ListRooms(w, l)
           \/ \E r \in Room : TryRoom(w, r) \/ ClaimRaises(w, r)
    PROVE  OnePlace(q)'
<1>t. LoopsOK /\ ClaimsOK BY TypeParts
<1>c. Idle(w) => claim[w].room = Nothing /\ claim[w].listed = {} /\ claim[w].lobby = Nothing
  BY ClaimIs
<1>n. Nothing \notin Lobby BY NothingElse DEF NeverNothing
<1> USE <1>t DEF consumer, loop, pool, Gets, Loses, NoFailure, LoopsOK, ClaimsOK
<1>1. ASSUME NEW l \in todo[w], ListRooms(w, l) PROVE OnePlace(q)'
  <2>0. /\ Idle(w) /\ ~Idle(w)' /\ claim'[w].lobby = l /\ todo'[w] = todo[w] \ {l}
        /\ UNCHANGED <<queue, unacked, pending, backlog, stage, still, found, ended>>
    BY <1>1, <1>n DEF ListRooms, Idle, NoClaim
  <2>1. \A k, x : Outside(q, k, x)' <=> Outside(q, k, x)
    BY <2>0 DEF Outside
  <2>2. CASE q \in l.members
    <3>1. Inside(q, "todo", w, l) BY <2>2 DEF Inside
    <3>2. /\ \A k, x : ~Outside(q, k, x)
          /\ \A k, x : Inside(q, k, w, x) => k = "todo" /\ x = l
      BY <3>1, OnlyInside
    <3>3. Inside(q, "claim", w, Nothing)' BY <2>0, <2>2 DEF Inside
    <3>4. \A k, x : Inside(q, k, w, x)' => k = "claim" /\ x = Nothing
      <4>1. \A k, x : Inside(q, k, w, x)' => Inside(q, k, w, x) \/ (k = "claim" /\ x = Nothing)
        BY <2>0 DEF Inside
      <4>2. ~Inside(q, "todo", w, l)' BY <2>0 DEF Inside
      <4> QED BY <3>2, <4>1, <4>2
    <3> QED BY <2>1, <3>1, <3>2, <3>3, <3>4, MovesInside
  <2>3. CASE q \notin l.members
    <3>1. \A k, x : Inside(q, k, w, x)' <=> Inside(q, k, w, x)
      BY <2>0, <2>3 DEF Inside
    <3> QED BY <2>1, <3>1, StaysAt
  <2> QED BY <2>2, <2>3
<1>2. ASSUME NEW r \in Room, TryRoom(w, r) \/ ClaimRaises(w, r) PROVE OnePlace(q)'
  <2>1. ~Idle(w) /\ claim[w].lobby \in Lobby BY <1>c, <1>2 DEF TryRoom, ClaimRaises
  <2>2. claim'[w].lobby = claim[w].lobby
    BY <1>2 DEF TryRoom, ClaimRaises, Claim
  <2>3. ~Idle(w)' BY <1>n, <2>1, <2>2 DEF Idle, NoClaim
  <2>4. UNCHANGED <<queue, unacked, pending, backlog, stage, todo, still, found, ended>>
    BY <1>2 DEF TryRoom, ClaimRaises
  <2>5. \A k, x : Outside(q, k, x)' <=> Outside(q, k, x)
    BY <2>4 DEF Outside
  <2>6. \A k, x : Inside(q, k, w, x)' <=> Inside(q, k, w, x)
    BY <2>1, <2>2, <2>3, <2>4 DEF Inside
  <2> QED BY <2>5, <2>6, StaysAt
<1> QED BY <1>1, <1>2

\* The claim of a worker is over: its lobby goes elsewhere, and with it q.
LEMMA ClaimEnds ==
    ASSUME MatchmakingTypeOK, NEW w \in Worker, NEW q, OnePlace(q), ~Idle(w), q \in claim[w].lobby.members
    PROVE  /\ Inside(q, "claim", w, Nothing)
           /\ \A k, x : ~Outside(q, k, x)
           /\ \A k, x : Inside(q, k, w, x) => k = "claim" /\ x = Nothing
<1>1. Inside(q, "claim", w, Nothing) BY DEF Inside
<1> QED BY <1>1, OnlyInside

\* A lobby that finds no room waits, or ends with its members.
LEMMA NoRoomPlaces ==
    ASSUME MatchmakingTypeOK, NEW w \in Worker, Step(w), NEW q \in Request, OnePlace(q),
           NoRoomYet(w) \/ StillNoRoom(w), NEW l, l = claim[w].lobby
    PROVE  OnePlace(q)'
<1>t. LoopsOK /\ ClaimsOK BY TypeParts
<1> USE <1>t DEF consumer, loop, pool, Gets, Loses, NoFailure, LoopsOK, ClaimsOK
<1>0. /\ ~Idle(w) /\ l \in Lobby /\ Idle(w)'
      /\ UNCHANGED <<queue, unacked, pending, stage, todo, found>>
  BY DEF NoRoomYet, StillNoRoom, Idle
<1>1. CASE NoRoomYet(w)
  <2>0. backlog'[w] = backlog[w] \cup {l} /\ still' = still /\ ended' = ended /\ stage[w] = "match"
    BY <1>1 DEF NoRoomYet
  <2>1. \A k, x : Outside(q, k, x)' <=> Outside(q, k, x)
    BY <1>0, <2>0 DEF Outside
  <2>2. \A k, x : Inside(q, k, w, x)' <=>
            \/ Inside(q, k, w, x) /\ k # "claim"
            \/ k = "backlog" /\ x = l /\ q \in l.members
    BY <1>0, <2>0 DEF Inside
  <2>3. CASE q \in l.members
    <3>1. /\ Inside(q, "claim", w, Nothing)
          /\ \A k, x : ~Outside(q, k, x)
          /\ \A k, x : Inside(q, k, w, x) => k = "claim" /\ x = Nothing
      BY <1>0, <2>3, ClaimEnds
    <3>2. Inside(q, "backlog", w, l)' BY <2>2, <2>3
    <3>3. \A k, x : Inside(q, k, w, x)' => k = "backlog" /\ x = l BY <2>2, <3>1
    <3> QED BY <2>1, <3>1, <3>2, <3>3, MovesInside
  <2>4. CASE q \notin l.members
    <3>1. \A x : ~Inside(q, "claim", w, x) BY <2>4 DEF Inside
    <3> QED BY <2>1, <2>2, <2>4, <3>1, StaysAt
  <2> QED BY <2>3, <2>4
<1>2. CASE StillNoRoom(w) /\ l.retry < MaxRetries
  <2>0. still'[w] = still[w] \cup {Later(l)} /\ ended' = ended /\ backlog' = backlog /\ Later(l).members = l.members
    BY <1>0, <1>2, RecordsTyped DEF StillNoRoom
  <2>1. \A k, x : Outside(q, k, x)' <=> Outside(q, k, x)
    BY <1>0, <2>0 DEF Outside
  <2>2. \A k, x : Inside(q, k, w, x)' <=>
            \/ Inside(q, k, w, x) /\ k # "claim"
            \/ k = "still" /\ x = Later(l) /\ q \in l.members
    BY <1>0, <2>0 DEF Inside
  <2>3. CASE q \in l.members
    <3>1. /\ Inside(q, "claim", w, Nothing)
          /\ \A k, x : ~Outside(q, k, x)
          /\ \A k, x : Inside(q, k, w, x) => k = "claim" /\ x = Nothing
      BY <1>0, <2>3, ClaimEnds
    <3>2. Inside(q, "still", w, Later(l))' BY <2>2, <2>3
    <3>3. \A k, x : Inside(q, k, w, x)' => k = "still" /\ x = Later(l) BY <2>2, <3>1
    <3> QED BY <2>1, <3>1, <3>2, <3>3, MovesInside
  <2>4. CASE q \notin l.members
    <3>1. \A x : ~Inside(q, "claim", w, x) BY <2>4 DEF Inside
    <3> QED BY <2>1, <2>2, <2>4, <3>1, StaysAt
  <2> QED BY <2>3, <2>4
<1>3. CASE StillNoRoom(w) /\ ~(l.retry < MaxRetries)
  <2>0. still' = still /\ ended' = ended \cup l.members /\ backlog' = backlog
    BY <1>3 DEF StillNoRoom
  <2>1. \A k, x : Outside(q, k, x)' <=> Outside(q, k, x) \/ (k = "ended" /\ x = Nothing /\ q \in l.members)
    BY <1>0, <2>0 DEF Outside
  <2>2. \A k, x : Inside(q, k, w, x)' <=> Inside(q, k, w, x) /\ k # "claim"
    BY <1>0, <2>0 DEF Inside
  <2>3. CASE q \in l.members
    <3>1. /\ Inside(q, "claim", w, Nothing)
          /\ \A k, x : ~Outside(q, k, x)
          /\ \A k, x : Inside(q, k, w, x) => k = "claim" /\ x = Nothing
      BY <1>0, <2>3, ClaimEnds
    <3>2. \A k, x : ~Inside(q, k, w, x)' BY <2>2, <3>1
    <3>3. Outside(q, "ended", Nothing)' BY <2>1, <2>3
    <3>4. \A k, x : Outside(q, k, x)' => k = "ended" /\ x = Nothing BY <2>1, <3>1
    <3> QED BY <3>1, <3>2, <3>3, <3>4, MovesOutside
  <2>4. CASE q \notin l.members
    <3>1. \A x : ~Inside(q, "claim", w, x) BY <2>4 DEF Inside
    <3> QED BY <2>1, <2>2, <2>4, <3>1, StaysAt
  <2> QED BY <2>3, <2>4
<1> QED BY <1>1, <1>2, <1>3

\* A lobby is announced.
LEMMA NotifyPlaces ==
    ASSUME MatchmakingTypeOK, NEW w \in Worker, Step(w), NEW q \in Request, OnePlace(q), q \notin lost', Notify(w),
           NEW l, l = claim[w].lobby, NEW told, told = [members |-> l.members, room |-> claim[w].room, by |-> w]
    PROVE  OnePlace(q)'
<1>t. LoopsOK /\ ClaimsOK BY TypeParts
<1> USE <1>t DEF consumer, loop, pool, Gets, Loses, NoFailure, LoopsOK, ClaimsOK
<1>0. /\ ~Idle(w) /\ Idle(w)'
      /\ UNCHANGED <<queue, unacked, pending, backlog, stage, todo, still, ended>>
  BY DEF Notify, Idle, NoClaim
<1>1. told.members = l.members OBVIOUS
<1>2. CASE q \in l.members
  <2>1. found' = found \cup {told} BY <1>2 DEF Notify, Failure, Announcement
  <2>2. /\ Inside(q, "claim", w, Nothing)
        /\ \A k, x : ~Outside(q, k, x)
        /\ \A k, x : Inside(q, k, w, x) => k = "claim" /\ x = Nothing
    BY <1>0, <1>2, ClaimEnds
  <2>3. \A k, x : ~Inside(q, k, w, x)'
    <3>1. \A k, x : Inside(q, k, w, x)' => Inside(q, k, w, x) /\ k # "claim" BY <1>0 DEF Inside
    <3> QED BY <2>2, <3>1
  <2>4. Outside(q, "found", told)' BY <1>1, <1>2, <2>1 DEF Outside
  <2>5. \A k, x : Outside(q, k, x)' => k = "found" /\ x = told
    <3>1. \A k, x : Outside(q, k, x)' => Outside(q, k, x) \/ (k = "found" /\ x = told)
      BY <1>0, <2>1 DEF Outside
    <3> QED BY <2>2, <3>1
  <2> QED BY <2>2, <2>3, <2>4, <2>5, MovesOutside
<1>3. CASE q \notin l.members
  <2>1. found' = found \cup {told} \/ found' = found BY DEF Notify, Announcement
  <2>2. \A k, x : Inside(q, k, w, x)' <=> Inside(q, k, w, x)
    BY <1>0, <1>3 DEF Inside
  <2>3. \A k, x : Outside(q, k, x)' <=> Outside(q, k, x)
    BY <1>0, <1>1, <1>3, <2>1 DEF Outside
  <2> QED BY <2>2, <2>3, StaysAt
<1> QED BY <1>2, <1>3

LEMMA EndTickPlaces ==
    ASSUME MatchmakingTypeOK, NEW w \in Worker, Step(w), NEW q \in Request, OnePlace(q), q \notin lost',
           EndTick(w) \/ WorkerCrash(w)
    PROVE  OnePlace(q)'
<1>t. LoopsOK /\ ClaimsOK /\ RequestsOK BY TypeParts
<1> USE <1>t DEF consumer, loop, pool, NoFailure, LoopsOK, ClaimsOK, RequestsOK
<1>1. CASE EndTick(w)
  <2>1. \A k, x : Outside(q, k, x)' <=> Outside(q, k, x)
    BY <1>1 DEF EndTick, Outside
  <2>2. \A k, x : Inside(q, k, w, x)' <=> Inside(q, k, w, x)
    BY <1>1 DEF EndTick, Inside, Idle
  <2> QED BY <2>1, <2>2, StaysAt
<1>2. CASE WorkerCrash(w)
  <2>1. q \notin pending[w] /\ \A l \in LobbiesOf(w) : q \notin l.members
    BY <1>2 DEF WorkerCrash, Failure, Members
  <2>2. \A k, x : Inside(q, k, w, x) => k = "unacked" /\ x = Nothing /\ q \in unacked[w]
    BY <2>1 DEF Inside, LobbiesOf
  <2>3. \A k, x : Outside(q, k, x)' <=> Outside(q, k, x) \/ (k = "queue" /\ x = Nothing /\ q \in unacked[w])
    BY <1>2 DEF WorkerCrash, Outside
  <2>4. \A k, x : ~Inside(q, k, w, x)'
    BY <1>2 DEF WorkerCrash, Inside, Idle
  <2>5. CASE q \in unacked[w]
    <3>1. Inside(q, "unacked", w, Nothing) BY <2>5 DEF Inside
    <3>2. \A k, x : ~Outside(q, k, x) BY <3>1, OnlyInside
    <3>3. Outside(q, "queue", Nothing)' BY <2>3, <2>5
    <3>4. \A k, x : Outside(q, k, x)' => k = "queue" /\ x = Nothing BY <2>3, <3>2
    <3> QED BY <2>4, <3>1, <3>3, <3>4, MovesOutside
  <2>6. CASE q \notin unacked[w]
    <3>1. \A k, x : Outside(q, k, x)' <=> Outside(q, k, x) BY <2>3, <2>6
    <3>2. \A k, x : ~Inside(q, k, w, x) BY <2>2, <2>6
    <3> QED BY <2>4, <3>1, <3>2, StaysAt
  <2> QED BY <2>5, <2>6
<1> QED BY <1>1, <1>2

\* A tick that fails while it retries starts again from the backlog: what it has
\* placed of it is doubled, and the rest is there.
LEMMA RaisePlaces ==
    ASSUME MatchmakingTypeOK, NEW w \in Worker, Step(w), NEW q \in Request, OnePlace(q), OneLobby(q), LoopSound(w),
           q \notin lost', q \notin doubled', NEW p \in todo[w], ListRaises(w, p)
    PROVE  OnePlace(q)'
<1>t. LoopsOK BY TypeParts
<1> USE <1>t DEF consumer, loop, pool, Gets, Loses, LoopsOK
<1>0. /\ UNCHANGED <<queue, unacked, pending, backlog, claim, found, ended>>
      /\ Idle(w) /\ stage'[w] = "sleep" /\ todo'[w] = {} /\ still'[w] = {}
  BY DEF ListRaises
<1>1. \A k, x : Outside(q, k, x)' <=> Outside(q, k, x)
  BY <1>0 DEF Outside
<1>2. \A k, x : Inside(q, k, w, x)' <=>
          \/ Inside(q, k, w, x) /\ k \notin {"todo", "still", "backlog"}
          \/ k = "backlog" /\ x \in backlog[w] /\ q \in x.members
  BY <1>0 DEF Inside, Idle
<1>3. CASE stage[w] # "retry"
  <2>1. stage[w] = "match" BY <1>3 DEF LoopSound
  <2>2. \A l \in todo[w] : q \notin l.members
    BY <2>1 DEF ListRaises, Failure, Members
  <2>3. still[w] = {} BY <1>3 DEF LoopSound
  <2>4. /\ \A x : ~Inside(q, "todo", w, x) /\ ~Inside(q, "still", w, x)
        /\ \A x : Inside(q, "backlog", w, x) <=> x \in backlog[w] /\ q \in x.members
    BY <1>3, <2>2, <2>3 DEF Inside
  <2>5. \A k, x : Inside(q, k, w, x)' <=> Inside(q, k, w, x)
    BY <1>2, <2>4
  <2> QED BY <1>1, <2>5, StaysAt
<1>4. CASE stage[w] = "retry"
  <2>1. ASSUME NEW l \in backlog[w], q \in l.members
        PROVE  \E b \in todo[w] \cup still[w] : q \in b.members
    BY <1>4, <2>1 DEF ListRaises, Failure, Members
  <2>2. \A a, b \in backlog[w] : q \in a.members /\ q \in b.members => a = b
    BY <1>4 DEF OneLobby
  <2>3. ASSUME NEW b \in todo[w] \cup still[w], q \in b.members PROVE OnePlace(q)'
    <3>1. PICK k \in {"todo", "still"} : Inside(q, k, w, b) BY <2>3 DEF Inside
    <3>2. /\ \A j, x : ~Outside(q, j, x)
          /\ \A j, x : Inside(q, j, w, x) => j = k
      BY <3>1, OnlyInside
    <3>3. PICK a \in backlog[w] : q \in a.members
      BY <1>4, <2>3 DEF LoopSound
    <3>4. Inside(q, "backlog", w, a)' BY <1>2, <3>3
    <3>5. \A j, x : Inside(q, j, w, x)' => j = "backlog" /\ x = a
      BY <1>2, <2>2, <3>2, <3>3
    <3> QED BY <1>1, <3>1, <3>2, <3>4, <3>5, MovesInside
  <2>4. CASE \A b \in todo[w] \cup still[w] : q \notin b.members
    <3>1. \A l \in backlog[w] : q \notin l.members BY <2>1, <2>4
    <3>2. \A k, x : Inside(q, k, w, x)' <=> Inside(q, k, w, x)
      BY <1>2, <2>4, <3>1 DEF Inside
    <3> QED BY <1>1, <3>2, StaysAt
  <2> QED BY <2>3, <2>4
<1> QED BY <1>3, <1>4

LEMMA EndRetryPlaces ==
    ASSUME Typed, NEW w \in Worker, Step(w), NEW q \in Request, OnePlace(q), LoopSound(w), EndRetry(w)
    PROVE  OnePlace(q)'
<1> MatchmakingTypeOK BY DEF Typed
<1>t. LoopsOK /\ RequestsOK BY TypeParts
<1> USE <1>t DEF consumer, loop, pool, Gets, Loses, LoopsOK, RequestsOK
<1>p. PICK order \in Sorted(pending[w]), waited \in [pending[w] -> Windows] :
            /\ todo' = [todo EXCEPT ![w] = {[members |-> m, retry |-> 0] : m \in MatchTick(order, waited)}]
            /\ pending' = Loses(pending, w, UNION MatchTick(order, waited))
  BY DEF EndRetry
<1> DEFINE T == MatchTick(order, waited)
<1>m. (\A m \in T : m \subseteq pending[w]) /\ Apart(T)
  BY TickLobbies DEF Typed, PendingFinite
<1> HIDE DEF T
<1>0. /\ UNCHANGED <<queue, unacked, claim, found, ended>>
      /\ Idle(w) /\ stage[w] = "retry" /\ stage'[w] = "match"
      /\ todo[w] = {} /\ todo'[w] = {[members |-> m, retry |-> 0] : m \in T}
      /\ still'[w] = {} /\ backlog'[w] = still[w] /\ pending'[w] = pending[w] \ UNION T
  BY <1>p DEF EndRetry, KeepPending, T
<1>1. \A k, x : Outside(q, k, x)' <=> Outside(q, k, x)
  BY <1>0 DEF Outside
<1>2. \A k, x : Inside(q, k, w, x)' <=>
          \/ Inside(q, k, w, x) /\ k \notin {"todo", "still", "pending"}
          \/ k = "pending" /\ Inside(q, k, w, x) /\ q \notin UNION T
          \/ k = "backlog" /\ Inside(q, "still", w, x)
          \/ k = "todo" /\ \E m \in T : x = [members |-> m, retry |-> 0] /\ q \in m
  <2>1. \A x : Inside(q, "todo", w, x)' <=> \E m \in T : x = [members |-> m, retry |-> 0] /\ q \in m
    BY <1>0 DEF Inside
  <2>2. \A x : Inside(q, "backlog", w, x)' <=> Inside(q, "still", w, x)
    BY <1>0 DEF Inside
  <2>3. \A x : Inside(q, "pending", w, x)' <=> Inside(q, "pending", w, x) /\ q \notin UNION T
    BY <1>0 DEF Inside
  <2>4. \A x : ~Inside(q, "still", w, x)' /\ ~Inside(q, "backlog", w, x)
    BY <1>0 DEF Inside
  <2>5. \A k, x : k \notin {"todo", "backlog", "pending", "still"} => (Inside(q, k, w, x)' <=> Inside(q, k, w, x))
    BY <1>0 DEF Inside, Idle
  <2> QED BY <2>1, <2>2, <2>3, <2>4, <2>5
<1>3. ASSUME NEW m \in T, q \in m PROVE OnePlace(q)'
  <2>1. Inside(q, "pending", w, Nothing) BY <1>3, <1>m DEF Inside
  <2>2. /\ \A k, x : ~Outside(q, k, x)
        /\ \A k, x : Inside(q, k, w, x) => k = "pending"
    BY <2>1, OnlyInside
  <2>3. \A n \in T : q \in n => n = m BY <1>3, <1>m DEF Apart
  <2> DEFINE l == [members |-> m, retry |-> 0]
  <2>4. Inside(q, "todo", w, l)' BY <1>2, <1>3
  <2>5. \A k, x : Inside(q, k, w, x)' => k = "todo" /\ x = l
    BY <1>2, <1>3, <2>2, <2>3
  <2> HIDE DEF l
  <2> QED BY <1>1, <2>1, <2>2, <2>4, <2>5, MovesInside
<1>4. ASSUME NEW l, Inside(q, "still", w, l) PROVE OnePlace(q)'
  <2>1. /\ \A k, x : ~Outside(q, k, x)
        /\ \A k, x : Inside(q, k, w, x) => k = "still" /\ x = l
    BY <1>4, OnlyInside
  <2>2. q \notin UNION T
    <3>1. ~Inside(q, "pending", w, Nothing) BY <2>1
    <3> QED BY <1>m, <3>1 DEF Inside
  <2>3. Inside(q, "backlog", w, l)' BY <1>2, <1>4
  <2>4. \A k, x : Inside(q, k, w, x)' => k = "backlog" /\ x = l BY <1>2, <2>1, <2>2
  <2> QED BY <1>1, <1>4, <2>1, <2>3, <2>4, MovesInside
<1>5. CASE q \notin UNION T /\ \A l : ~Inside(q, "still", w, l)
  <2>1. \A x : ~Inside(q, "todo", w, x) BY <1>0 DEF Inside
  <2>2. \A k, x : Inside(q, k, w, x)' <=> Inside(q, k, w, x)
    BY <1>2, <1>5, <2>1
  <2> QED BY <1>1, <2>2, StaysAt
<1> QED BY <1>3, <1>4, <1>5

\* Every step leaves a request where it is, or moves it to one other place.
LEMMA PlaceStep ==
    ASSUME Typed, NEW w \in Worker, Step(w), NEW q \in Request, OnePlace(q), OneLobby(q), LoopSound(w),
           q \notin lost', q \notin doubled'
    PROVE  OnePlace(q)'
<1> MatchmakingTypeOK BY DEF Typed
<1>1. CASE \E p \in Request : Deliver(w, p) \/ Refuse(w, p) \/ AddRequest(w, p) \/ Redeliver(w, p)
  BY <1>1, ConsumerPlaces
<1>2. CASE \E old \in SUBSET Request : BeginTick(w, old)
  BY <1>2, BeginPlaces
<1>3. CASE \/ \E l \in todo[w] : ListRooms(w, l)
           \/ \E r \in Room : TryRoom(w, r) \/ ClaimRaises(w, r)
  BY <1>3, ClaimPlaces
<1>4. CASE \E l \in todo[w] : ListRaises(w, l)
  BY <1>4, RaisePlaces
<1>5. CASE NoRoomYet(w) \/ StillNoRoom(w)
  BY <1>5, NoRoomPlaces
<1>6. CASE Notify(w)
  BY <1>6, NotifyPlaces
<1>7. CASE EndRetry(w)
  BY <1>7, EndRetryPlaces
<1>8. CASE EndTick(w) \/ WorkerCrash(w)
  BY <1>8, EndTickPlaces
<1> QED BY <1>1, <1>2, <1>3, <1>4, <1>5, <1>6, <1>7, <1>8 DEF Step

\* A failing call that loses a request leaves it nowhere.
LEMMA LossStep ==
    ASSUME MatchmakingTypeOK, NEW w \in Worker, Step(w), NEW q \in Request, OnePlace(q), LoopSound(w),
           q \notin lost, q \in lost'
    PROVE  Nowhere(q)'
<1>t. LoopsOK /\ ClaimsOK /\ RequestsOK BY TypeParts
<1>c. Idle(w) => claim[w].room = Nothing BY ClaimIs
<1>n. Nothing \notin Room BY NothingElse DEF NeverNothing
<1> USE <1>t DEF consumer, loop, pool, LoopsOK, ClaimsOK, RequestsOK
<1>1. ASSUME NEW k, NEW x, Inside(q, k, w, x), NowhereAt(q, w)',
             \A j, y : ~Outside(q, j, y) => ~Outside(q, j, y)'
      PROVE  Nowhere(q)'
  <2>1. /\ \A j, y : ~Outside(q, j, y)
        /\ \A j, y : \A v \in Worker \ {w} : ~Inside(q, j, v, y)
    BY <1>1, OnlyInside
  <2>2. q \notin queue' /\ q \notin ended' /\ \A f \in found' : q \notin f.members
    BY <1>1, <2>1 DEF Outside
  <2>3. ASSUME NEW v \in Worker, v # w PROVE NowhereAt(q, v)'
    <3>1. NowhereAt(q, v) BY <2>1, <2>3 DEF NowhereAt, LobbiesOf, Inside
    <3> QED BY <2>3, <3>1, OthersStay DEF SameAt, NowhereAt, LobbiesOf, Idle
  <2> QED BY <1>1, <2>2, <2>3 DEF Nowhere
<1>2. CASE Notify(w)
  <2>1. /\ ~Idle(w) /\ Idle(w)' /\ q \in claim[w].lobby.members
        /\ UNCHANGED <<queue, unacked, pending, backlog, stage, todo, still, found, ended>>
    <3>1. ~Idle(w) /\ Idle(w)' /\ UNCHANGED <<queue, unacked, pending, backlog, stage, todo, still, ended>>
      BY <1>2, <1>c DEF Notify, Idle
    <3>2. ~NoFailure /\ ~Failure({}, {})
      BY DEF NoFailure, Failure
    <3>3. found' = found /\ Failure(claim[w].lobby.members, {})
      BY <1>2, <3>2 DEF Notify
    <3>4. q \in claim[w].lobby.members
      BY <3>3 DEF Failure
    <3> QED BY <3>1, <3>3, <3>4
  <2>2. /\ Inside(q, "claim", w, Nothing)
        /\ \A k, x : Inside(q, k, w, x) => k = "claim" /\ x = Nothing
    BY <2>1, ClaimEnds
  <2>3. NowhereAt(q, w)'
    BY <2>1, <2>2 DEF NowhereAt, LobbiesOf, Inside
  <2>4. \A j, y : ~Outside(q, j, y) => ~Outside(q, j, y)' BY <2>1 DEF Outside
  <2> QED BY <1>1, <2>2, <2>3, <2>4
<1>3. ASSUME NEW p \in todo[w], ListRaises(w, p) PROVE Nowhere(q)'
  <2>1. /\ stage[w] = "match" /\ q \in Members(todo[w]) /\ Idle(w) /\ Idle(w)'
        /\ UNCHANGED <<queue, unacked, pending, backlog, found, ended>>
        /\ stage'[w] = "sleep" /\ todo'[w] = {} /\ still'[w] = {}
    BY <1>3 DEF ListRaises, Failure, Idle
  <2>2. PICK l \in todo[w] : q \in l.members BY <2>1 DEF Members
  <2>3. Inside(q, "todo", w, l) BY <2>2 DEF Inside
  <2>4. \A k, x : Inside(q, k, w, x) => k = "todo" BY <2>3, OnlyInside
  <2>5. NowhereAt(q, w)'
    BY <2>1, <2>4 DEF NowhereAt, LobbiesOf, Inside
  <2>6. \A j, y : ~Outside(q, j, y) => ~Outside(q, j, y)' BY <2>1 DEF Outside
  <2> QED BY <1>1, <2>3, <2>5, <2>6
<1>4. CASE WorkerCrash(w)
  <2>1. q \in pending[w] \/ \E l \in LobbiesOf(w) : q \in l.members
    BY <1>4 DEF WorkerCrash, Failure, Members
  <2>2. PICK k, x : Inside(q, k, w, x) /\ k # "unacked"
    <3>1. CASE q \in pending[w]
      <4>1. Inside(q, "pending", w, Nothing) BY <3>1 DEF Inside
      <4> QED BY <4>1
    <3>2. ASSUME NEW l \in LobbiesOf(w), q \in l.members PROVE \E k, x : Inside(q, k, w, x) /\ k # "unacked"
      <4>1. \/ Inside(q, "todo", w, l) \/ Inside(q, "still", w, l) \/ Inside(q, "backlog", w, l)
            \/ Inside(q, "claim", w, Nothing)
        BY <3>2 DEF LobbiesOf, Inside
      <4> QED BY <4>1
    <3> QED BY <2>1, <3>1, <3>2
  <2>3. q \notin unacked[w]
    <3>1. ~Inside(q, "unacked", w, Nothing) BY <2>2, OnlyInside
    <3> QED BY <3>1 DEF Inside
  <2>4. NowhereAt(q, w)'
    BY <1>4 DEF WorkerCrash, NowhereAt, LobbiesOf, Idle
  <2>5. \A j, y : ~Outside(q, j, y) => ~Outside(q, j, y)'
    BY <1>4, <2>3 DEF WorkerCrash, Outside
  <2> QED BY <1>1, <2>2, <2>4, <2>5
<1>5. ASSUME NEW r \in Request, Deliver(w, r) \/ Refuse(w, r) \/ AddRequest(w, r) \/ Redeliver(w, r) PROVE FALSE
  BY <1>5 DEF Deliver, Refuse, AddRequest, Redeliver, NoFailure, Failure
<1>6. ASSUME NEW old \in SUBSET Request, BeginTick(w, old) PROVE FALSE
  BY <1>6 DEF BeginTick, NoFailure
<1>7. ASSUME NEW l \in todo[w], ListRooms(w, l) PROVE FALSE
  BY <1>7 DEF ListRooms, NoFailure
<1>8. ASSUME NEW r \in Room, TryRoom(w, r) \/ ClaimRaises(w, r) PROVE FALSE
  BY <1>8 DEF TryRoom, ClaimRaises, NoFailure, Failure
<1>9. ASSUME NoRoomYet(w) \/ StillNoRoom(w) \/ EndTick(w) \/ EndRetry(w) PROVE FALSE
  BY <1>9 DEF NoRoomYet, StillNoRoom, EndTick, EndRetry, NoFailure
<1> QED BY <1>2, <1>3, <1>4, <1>5, <1>6, <1>7, <1>8, <1>9 DEF Step

\* What is nowhere stays nowhere: no step makes a request up.
LEMMA NowhereStep ==
    ASSUME Typed, NEW w \in Worker, Step(w), NEW q \in Request, Nowhere(q), LoopSound(w), q \notin doubled'
    PROVE  Nowhere(q)'
<1> MatchmakingTypeOK BY DEF Typed
<1>t. LoopsOK /\ ClaimsOK /\ RequestsOK BY TypeParts
<1>c. Idle(w) => claim[w].room = Nothing /\ claim[w].listed = {} /\ claim[w].lobby = Nothing
  BY ClaimIs
<1>i. ~Idle(w) => claim[w].lobby \in Lobby BY <1>t DEF ClaimsOK
<1>0. /\ q \notin queue /\ q \notin ended /\ \A f \in found : q \notin f.members
      /\ q \notin unacked[w] /\ q \notin pending[w]
      /\ \A l \in todo[w] \cup still[w] : q \notin l.members
      /\ stage[w] # "retry" => \A l \in backlog[w] : q \notin l.members
      /\ ~Idle(w) => q \notin claim[w].lobby.members
  BY DEF Nowhere, NowhereAt, LobbiesOf
<1> DEFINE Out == q \notin queue' /\ q \notin ended' /\ \A f \in found' : q \notin f.members
           In == /\ q \notin unacked'[w] /\ q \notin pending'[w]
                 /\ \A l \in todo'[w] \cup still'[w] : q \notin l.members
                 /\ stage'[w] # "retry" => \A l \in backlog'[w] : q \notin l.members
                 /\ ~Idle(w)' => q \notin claim'[w].lobby.members
<1> USE <1>t DEF consumer, loop, pool, Gets, Loses, LoopsOK, ClaimsOK, RequestsOK
<1>1. ASSUME Out, In PROVE Nowhere(q)'
  <2>1. ASSUME NEW v \in Worker, v # w PROVE NowhereAt(q, v)'
    <3>1. NowhereAt(q, v) BY <2>1 DEF Nowhere
    <3> QED BY <2>1, <3>1, OthersStay DEF SameAt, NowhereAt, LobbiesOf, Idle
  <2>2. NowhereAt(q, w)' BY <1>1 DEF NowhereAt, LobbiesOf
  <2> QED BY <1>1, <2>1, <2>2 DEF Nowhere
<1>2. ASSUME NEW p \in Request, Deliver(w, p) \/ Refuse(w, p) \/ AddRequest(w, p) \/ Redeliver(w, p)
      PROVE  Out /\ In
  <2>1. p # q BY <1>0, <1>2 DEF Deliver, Refuse, AddRequest, Redeliver
  <2> QED BY <1>0, <1>2, <2>1 DEF Deliver, Refuse, AddRequest, Redeliver, Idle
<1>3. ASSUME NEW old \in SUBSET Request, BeginTick(w, old) PROVE Out /\ In
  BY <1>0, <1>3 DEF BeginTick, Idle
<1>4. ASSUME NEW l \in todo[w], ListRooms(w, l) PROVE Out /\ In
  BY <1>0, <1>4 DEF ListRooms, Idle
<1>5. ASSUME NEW l \in todo[w], ListRaises(w, l) PROVE Out /\ In
  <2>1. /\ UNCHANGED <<queue, unacked, pending, backlog, claim, found, ended>>
        /\ stage'[w] = "sleep" /\ todo'[w] = {} /\ still'[w] = {} /\ Idle(w) /\ Idle(w)'
    BY <1>5 DEF ListRaises, Idle
  <2>2. \A b \in backlog[w] : q \notin b.members
    <3>1. CASE stage[w] # "retry" BY <1>0, <3>1
    <3>2. CASE stage[w] = "retry"
      <4>1. q \notin Members(backlog[w]) \ Members(todo[w] \cup still[w])
        BY <1>5, <3>2 DEF ListRaises, Failure
      <4> QED BY <1>0, <4>1 DEF Members
    <3> QED BY <3>1, <3>2
  <2> QED BY <1>0, <2>1, <2>2
<1>6. ASSUME NEW r \in Room, TryRoom(w, r) \/ ClaimRaises(w, r) PROVE Out /\ In
  <2>1. ~Idle(w) BY <1>c, <1>6 DEF TryRoom, ClaimRaises
  <2>2. claim'[w].lobby = claim[w].lobby BY <1>6 DEF TryRoom, ClaimRaises, Claim
  <2> QED BY <1>0, <1>6, <2>1, <2>2 DEF TryRoom, ClaimRaises
<1>7. ASSUME NoRoomYet(w) PROVE Out /\ In
  BY <1>0, <1>7 DEF NoRoomYet, Idle
<1>8. ASSUME StillNoRoom(w) PROVE Out /\ In
  <2>1. ~Idle(w) /\ q \notin claim[w].lobby.members /\ Idle(w)' BY <1>0, <1>8 DEF StillNoRoom, Idle
  <2>2. claim[w].lobby.retry < MaxRetries => Later(claim[w].lobby).members = claim[w].lobby.members
    BY <1>i, <2>1, RecordsTyped
  <2>3. /\ stage' = stage /\ todo' = todo /\ stage[w] = "retry"
        /\ UNCHANGED <<queue, unacked, pending, found>>
        /\ \/ /\ claim[w].lobby.retry < MaxRetries /\ ended' = ended
              /\ still'[w] = still[w] \cup {Later(claim[w].lobby)}
           \/ still' = still /\ ended' = ended \cup claim[w].lobby.members
    BY <1>8 DEF StillNoRoom
  <2> QED BY <1>0, <2>1, <2>2, <2>3
<1>9. ASSUME Notify(w) PROVE Out /\ In
  <2>1. ~Idle(w) /\ q \notin claim[w].lobby.members /\ Idle(w)' BY <1>0, <1>c, <1>9 DEF Notify, Idle
  <2>2. /\ UNCHANGED <<queue, unacked, pending, backlog, stage, todo, still, ended>>
        /\ found' = found \/ found' = found \cup {Announcement(w)}
    BY <1>9 DEF Notify
  <2>3. Announcement(w).members = claim[w].lobby.members BY DEF Announcement
  <2> QED BY <1>0, <2>1, <2>2, <2>3
<1>10. ASSUME EndRetry(w) PROVE Out /\ In
  <2>1. PICK order \in Sorted(pending[w]), waited \in [pending[w] -> Windows] :
            /\ todo' = [todo EXCEPT ![w] = {[members |-> m, retry |-> 0] : m \in MatchTick(order, waited)}]
            /\ pending' = Loses(pending, w, UNION MatchTick(order, waited))
    BY <1>10 DEF EndRetry
  <2>2. \A m \in MatchTick(order, waited) : q \notin m
    <3>1. \A m \in MatchTick(order, waited) : m \subseteq pending[w]
      BY TickLobbies DEF Typed, PendingFinite
    <3> QED BY <1>0, <3>1
  <2>3. \A l \in todo'[w] : q \notin l.members BY <2>1, <2>2
  <2>4. /\ UNCHANGED <<queue, unacked, claim, found, ended>> /\ Idle(w) /\ Idle(w)'
        /\ still'[w] = {} /\ backlog'[w] = still[w] /\ pending'[w] \subseteq pending[w]
    BY <1>10, <2>1 DEF EndRetry, KeepPending, Idle
  <2> QED BY <1>0, <2>3, <2>4
<1>11. ASSUME EndTick(w) PROVE Out /\ In
  BY <1>0, <1>11 DEF EndTick, Idle
<1>12. ASSUME WorkerCrash(w) PROVE Out /\ In
  BY <1>0, <1>12 DEF WorkerCrash, Idle
<1> HIDE DEF Out, In
<1> QED BY <1>1, <1>2, <1>3, <1>4, <1>5, <1>6, <1>7, <1>8, <1>9, <1>10, <1>11, <1>12 DEF Step

\* A tick begins with the backlog it retries, which is then left alone.
LEMMA BacklogStep ==
    ASSUME MatchmakingTypeOK, NEW w \in Worker, Step(w), stage'[w] = "retry"
    PROVE  backlog'[w] = backlog[w]
<1>t. LoopsOK BY TypeParts
<1> USE <1>t DEF consumer, loop, pool, Gets, LoopsOK
<1>1. CASE \E p \in Request : Deliver(w, p) \/ Refuse(w, p) \/ AddRequest(w, p) \/ Redeliver(w, p)
  BY <1>1 DEF Deliver, Refuse, AddRequest, Redeliver
<1>2. CASE \E old \in SUBSET Request : BeginTick(w, old)
  BY <1>2 DEF BeginTick
<1>3. CASE \E l \in todo[w] : ListRooms(w, l) \/ ListRaises(w, l)
  BY <1>3 DEF ListRooms, ListRaises
<1>4. CASE \E r \in Room : TryRoom(w, r) \/ ClaimRaises(w, r)
  BY <1>4 DEF TryRoom, ClaimRaises
<1>5. CASE NoRoomYet(w) \/ StillNoRoom(w) \/ Notify(w) \/ EndTick(w)
  BY <1>5 DEF NoRoomYet, StillNoRoom, Notify, EndTick
<1>6. CASE EndRetry(w) \/ WorkerCrash(w)
  BY <1>6 DEF EndRetry, WorkerCrash
<1> QED BY <1>1, <1>2, <1>3, <1>4, <1>5, <1>6 DEF Step

\* No step puts a request into a second lobby of what is retried.
LEMMA OneLobbyStep ==
    ASSUME MatchmakingTypeOK, NEW w \in Worker, Step(w), NEW q, OnePlace(q) \/ Nowhere(q), OneLobby(q)
    PROVE  OneLobby(q)'
<1> SUFFICES ASSUME NEW v \in Worker, stage'[v] = "retry",
                    NEW a \in backlog'[v], NEW b \in backlog'[v], q \in a.members, q \in b.members
             PROVE  a = b
  BY DEF OneLobby
<1>1. CASE v # w
  BY <1>1, OthersStay DEF SameAt, OneLobby
<1>2. CASE v = w
  <2>1. a \in backlog[v] /\ b \in backlog[v] BY <1>2, BacklogStep
  <2>2. CASE stage[v] = "retry" BY <2>1, <2>2 DEF OneLobby
  <2>3. CASE stage[v] # "retry"
    <3>1. Inside(q, "backlog", v, a) /\ Inside(q, "backlog", v, b) BY <2>1, <2>3 DEF Inside
    <3>2. ~Nowhere(q) BY <2>1, <2>3 DEF Nowhere, NowhereAt, LobbiesOf
    <3> QED BY <3>1, <3>2, OnlyInside
  <2> QED BY <2>2, <2>3
<1> QED BY <1>1, <1>2

\* What is lost or doubled stays so.
LEMMA FailuresStep ==
    ASSUME MatchmakingNext
    PROVE  lost \subseteq lost' /\ doubled \subseteq doubled'
<1>1. ASSUME NEW r \in Room, Register(r) \/ RemoveRoom(r) PROVE NoFailure
  BY <1>1 DEF Register, RemoveRoom
<1>2. ASSUME NEW w \in Worker, Step(w) PROVE NoFailure \/ \E S, D : Failure(S, D)
  <2>1. CASE \E p \in Request : Deliver(w, p) \/ Refuse(w, p) \/ AddRequest(w, p) \/ Redeliver(w, p)
    BY <2>1 DEF Deliver, Refuse, AddRequest, Redeliver
  <2>2. CASE \E old \in SUBSET Request : BeginTick(w, old)
    BY <2>2 DEF BeginTick
  <2>3. CASE \E l \in todo[w] : ListRooms(w, l) \/ ListRaises(w, l)
    BY <2>3 DEF ListRooms, ListRaises
  <2>4. CASE \E r \in Room : TryRoom(w, r) \/ ClaimRaises(w, r)
    BY <2>4 DEF TryRoom, ClaimRaises
  <2>5. CASE NoRoomYet(w) \/ StillNoRoom(w) \/ Notify(w) \/ EndTick(w)
    BY <2>5 DEF NoRoomYet, StillNoRoom, Notify, EndTick
  <2>6. CASE EndRetry(w) \/ WorkerCrash(w)
    BY <2>6 DEF EndRetry, WorkerCrash
  <2> QED BY <1>2, <2>1, <2>2, <2>3, <2>4, <2>5, <2>6 DEF Step
<1>3. NoFailure \/ \E S, D : Failure(S, D) BY <1>1, <1>2 DEF MatchmakingNext
<1> QED BY <1>3 DEF NoFailure, Failure

LEMMA PlacesStep == Typed /\ PlacesInv /\ [MatchmakingNext]_matchVars => PlacesInv'
<1> SUFFICES ASSUME Typed, PlacesInv, [MatchmakingNext]_matchVars PROVE PlacesInv'
  OBVIOUS
<1> MatchmakingTypeOK BY DEF Typed
<1>1. ASSUME UNCHANGED <<queue, unacked, pending, backlog, stage, todo, still, claim, found, ended, lost, doubled>>
      PROVE  PlacesInv'
  <2>1. LoopsSound' BY <1>1 DEF PlacesInv, LoopsSound, LoopSound, Idle
  <2>2. ASSUME NEW q \in Request \ doubled' PROVE WherePlaced(q)' /\ OneLobby(q)'
    <3>1. q \in Request \ doubled /\ WherePlaced(q) /\ OneLobby(q) BY <1>1 DEF PlacesInv
    <3>2. \A k, w, x : Holds(q, k, w, x)' <=> Holds(q, k, w, x)
      BY <1>1 DEF Holds, Inside, Outside, Idle
    <3>3. OnePlace(q) => OnePlace(q)' BY <3>2, Stays
    <3>4. Nowhere(q) => Nowhere(q)' BY <1>1 DEF Nowhere, NowhereAt, LobbiesOf, Idle
    <3> QED BY <1>1, <3>1, <3>3, <3>4 DEF OneLobby, WherePlaced
  <2> QED BY <2>1, <2>2 DEF PlacesInv
<1>2. CASE UNCHANGED matchVars BY <1>1, <1>2 DEF matchVars
<1>3. ASSUME NEW r \in Room, Register(r) \/ RemoveRoom(r) PROVE PlacesInv'
  BY <1>1, <1>3 DEF Register, RemoveRoom, consumer, loop, NoFailure
<1>4. ASSUME NEW w \in Worker, Step(w) PROVE PlacesInv'
  <2>1. ASSUME NEW v \in Worker PROVE LoopSound(v)'
    <3>1. LoopSound(v) BY DEF PlacesInv, LoopsSound
    <3>2. CASE v = w BY <1>4, <3>1, <3>2, LoopStep
    <3>3. CASE v # w BY <1>4, <3>1, <3>3, OthersStay DEF SameAt, LoopSound, Idle
    <3> QED BY <3>2, <3>3
  <2>2. ASSUME NEW q \in Request \ doubled' PROVE WherePlaced(q)' /\ OneLobby(q)'
    <3>1. q \notin doubled /\ lost \subseteq lost' BY <1>4, <2>2, FailuresStep DEF MatchmakingNext
    <3>2. WherePlaced(q) /\ OneLobby(q) /\ LoopSound(w) BY <2>2, <3>1 DEF PlacesInv, LoopsSound
    <3>3. OneLobby(q)' BY <1>4, <3>2, OneLobbyStep DEF WherePlaced
    <3>4. CASE q \in lost
      <4>1. Nowhere(q)' BY <1>4, <2>2, <3>2, <3>4, NowhereStep DEF WherePlaced
      <4> QED BY <3>1, <3>3, <3>4, <4>1 DEF WherePlaced
    <3>5. CASE q \notin lost /\ q \in lost'
      <4>1. Nowhere(q)' BY <1>4, <2>2, <3>2, <3>5, LossStep DEF WherePlaced
      <4> QED BY <3>3, <3>5, <4>1 DEF WherePlaced
    <3>6. CASE q \notin lost'
      <4>1. OnePlace(q) BY <3>1, <3>2, <3>6 DEF WherePlaced
      <4>2. OnePlace(q)' BY <1>4, <2>2, <3>2, <3>6, <4>1, PlaceStep
      <4> QED BY <3>3, <3>6, <4>2 DEF WherePlaced
    <3> QED BY <3>4, <3>5, <3>6
  <2> QED BY <2>1, <2>2 DEF PlacesInv, LoopsSound
<1> QED BY <1>2, <1>3, <1>4 DEF MatchmakingNext

LEMMA InitPlaces == MatchmakingInit => PlacesInv
<1> SUFFICES ASSUME MatchmakingInit PROVE PlacesInv
  OBVIOUS
<1>1. LoopsSound BY DEF MatchmakingInit, LoopsSound, LoopSound, Idle
<1>2. ASSUME NEW q \in Request PROVE OnePlace(q) /\ OneLobby(q)
  <2>1. \A k, w, x : Holds(q, k, w, x) <=> k = "queue" /\ w = Nothing /\ x = Nothing
    BY DEF MatchmakingInit, Holds, Outside, Inside, Idle
  <2> QED BY <2>1 DEF MatchmakingInit, OnePlace, OneLobby
<1>3. lost = {} BY DEF MatchmakingInit
<1> QED BY <1>1, <1>2, <1>3 DEF PlacesInv, WherePlaced

LEMMA AlwaysPlaced == MatchmakingSpec => []PlacesInv
  BY InitPlaces, PlacesStep, AlwaysTyped, PTL DEF MatchmakingSpec

\* To be in one place is to be counted once.
LEMMA CountedOnce == ASSUME MatchmakingTypeOK, NEW q, OnePlace(q) PROVE Places(q) = 1
<1> DEFINE A == {w \in Worker : q \in unacked[w]}
           B == {w \in Worker : q \in pending[w]}
           C == UNION {{<<w, l>> : l \in {l \in LobbiesOf(w) : q \in l.members}} : w \in Worker}
           D == {f \in found : q \in f.members}
           E == {S \in {queue} : q \in S}
           F == {S \in {ended} : q \in S}
<1>0. Places(q) = Cardinality(A) + Cardinality(B) + Cardinality(C) + Cardinality(D) + Cardinality(E) + Cardinality(F)
  BY DEF Places
<1>1. \A x : Cardinality({x}) = 1
  BY FS_Singleton
<1>2. Cardinality({}) = 0
  BY FS_EmptySet
<1>3. PICK k, w, x : \A j, v, y : Holds(q, j, v, y) <=> j = k /\ v = w /\ y = x
  BY DEF OnePlace
<1>4. \A v \in Worker : /\ v \in A <=> Holds(q, "unacked", v, Nothing)
                        /\ v \in B <=> Holds(q, "pending", v, Nothing)
  BY DEF Holds, Inside, Outside
<1>5. ASSUME NEW v \in Worker, NEW l
      PROVE  <<v, l>> \in C <=> \/ Holds(q, "todo", v, l) \/ Holds(q, "still", v, l)
                                \/ Holds(q, "backlog", v, l)
                                \/ Holds(q, "claim", v, Nothing) /\ l = claim[v].lobby
  <2>1. <<v, l>> \in C <=> l \in LobbiesOf(v) /\ q \in l.members
    OBVIOUS
  <2>2. l \in LobbiesOf(v) <=> \/ l \in todo[v] \/ l \in still[v]
                               \/ (stage[v] # "retry" /\ l \in backlog[v])
                               \/ (~Idle(v) /\ l = claim[v].lobby)
    BY DEF LobbiesOf
  <2>3. /\ Holds(q, "todo", v, l) <=> l \in todo[v] /\ q \in l.members
        /\ Holds(q, "still", v, l) <=> l \in still[v] /\ q \in l.members
        /\ Holds(q, "backlog", v, l) <=> stage[v] # "retry" /\ l \in backlog[v] /\ q \in l.members
        /\ Holds(q, "claim", v, Nothing) <=> ~Idle(v) /\ q \in claim[v].lobby.members
    BY DEF Holds, Inside, Outside
  <2> HIDE DEF C
  <2> QED BY <2>1, <2>2, <2>3
<1>6. /\ \A f : f \in D <=> Holds(q, "found", Nothing, f)
      /\ \A S : S \in E <=> S = queue /\ Holds(q, "queue", Nothing, Nothing)
      /\ \A S : S \in F <=> S = ended /\ Holds(q, "ended", Nothing, Nothing)
  BY DEF Holds, Inside, Outside
<1>7. /\ A \subseteq Worker /\ B \subseteq Worker
      /\ \A c \in C : \E v \in Worker : \E l : c = <<v, l>>
  OBVIOUS
<1>8. Holds(q, k, w, x) BY <1>3
<1>9. /\ k \in {"unacked", "pending", "claim", "todo", "still", "backlog"} => w \in Worker
      /\ k \in {"queue", "ended", "found"} => w = Nothing
      /\ k \in {"unacked", "pending", "claim", "queue", "ended"} => x = Nothing
      /\ k \in {"unacked", "pending", "claim", "todo", "still", "backlog", "queue", "ended", "found"}
  BY <1>8 DEF Holds, Inside, Outside
<1>o. \A j, v, y : Holds(q, j, v, y) => j = k /\ v = w /\ y = x BY <1>3
<1> HIDE DEF A, B, C, D, E, F
<1>A. k # "unacked" => Cardinality(A) = 0 BY <1>2, <1>4, <1>7, <1>o
<1>B. k # "pending" => Cardinality(B) = 0 BY <1>2, <1>4, <1>7, <1>o
<1>C. k \notin {"claim", "todo", "still", "backlog"} => Cardinality(C) = 0
  <2>1. k \notin {"claim", "todo", "still", "backlog"} => \A v \in Worker : \A l : <<v, l>> \notin C
    BY <1>5, <1>o
  <2>2. k \notin {"claim", "todo", "still", "backlog"} => C = {} BY <1>7, <2>1
  <2> QED BY <1>2, <2>2
<1>D. k # "found" => Cardinality(D) = 0 BY <1>2, <1>6, <1>o
<1>E. k # "queue" => Cardinality(E) = 0 BY <1>2, <1>6, <1>o
<1>F. k # "ended" => Cardinality(F) = 0 BY <1>2, <1>6, <1>o
<1> USE <1>A, <1>B, <1>C, <1>D, <1>E, <1>F
<1>a. CASE k = "unacked"
  <2>1. A = {w} BY <1>4, <1>7, <1>8, <1>9, <1>a, <1>o
  <2>2. Cardinality(A) = 1 BY <1>1, <2>1
  <2> QED BY <1>0, <1>a, <2>2
<1>b. CASE k = "pending"
  <2>1. B = {w} BY <1>4, <1>7, <1>8, <1>9, <1>b, <1>o
  <2>2. Cardinality(B) = 1 BY <1>1, <2>1
  <2> QED BY <1>0, <1>b, <2>2
<1>c. CASE k \in {"claim", "todo", "still", "backlog"}
  <2> DEFINE l == IF k = "claim" THEN claim[w].lobby ELSE x
  <2>1. w \in Worker BY <1>9, <1>c
  <2>2. <<w, l>> \in C
    <3>1. CASE k = "claim"
      <4>1. Holds(q, "claim", w, Nothing) BY <1>8, <1>9, <3>1
      <4> QED BY <1>5, <2>1, <3>1, <4>1
    <3>2. CASE k \in {"todo", "still", "backlog"} BY <1>5, <1>8, <2>1, <3>2
    <3> QED BY <1>c, <3>1, <3>2
  <2>3. \A v \in Worker : \A y : <<v, y>> \in C => v = w /\ y = l
    <3>1. CASE k = "claim" BY <1>5, <1>o, <3>1
    <3>2. CASE k \in {"todo", "still", "backlog"} BY <1>5, <1>o, <3>2
    <3> QED BY <1>c, <3>1, <3>2
  <2> HIDE DEF l
  <2>4. C = {<<w, l>>}
    <3>1. \A c \in C : c = <<w, l>> BY <1>7, <2>3
    <3> QED BY <2>2, <3>1
  <2>5. Cardinality(C) = 1 BY <1>1, <2>4
  <2> QED BY <1>0, <1>c, <2>5
<1>d. CASE k = "found"
  <2>1. D = {x} BY <1>6, <1>8, <1>9, <1>d, <1>o
  <2>2. Cardinality(D) = 1 BY <1>1, <2>1
  <2> QED BY <1>0, <1>d, <2>2
<1>e. CASE k = "queue"
  <2>1. E = {queue} BY <1>6, <1>8, <1>9, <1>e
  <2>2. Cardinality(E) = 1 BY <1>1, <2>1
  <2> QED BY <1>0, <1>e, <2>2
<1>f. CASE k = "ended"
  <2>1. F = {ended} BY <1>6, <1>8, <1>9, <1>f
  <2>2. Cardinality(F) = 1 BY <1>1, <2>1
  <2> QED BY <1>0, <1>f, <2>2
<1> QED BY <1>9, <1>a, <1>b, <1>c, <1>d, <1>e, <1>f

\* To be nowhere is not to be counted.
LEMMA CountedNever == ASSUME NEW q, Nowhere(q) PROVE Places(q) = 0
<1> DEFINE C == UNION {{<<w, l>> : l \in {l \in LobbiesOf(w) : q \in l.members}} : w \in Worker}
<1>1. /\ {w \in Worker : q \in unacked[w]} = {} /\ {w \in Worker : q \in pending[w]} = {}
      /\ {f \in found : q \in f.members} = {}
      /\ {S \in {queue} : q \in S} = {} /\ {S \in {ended} : q \in S} = {}
  BY DEF Nowhere, NowhereAt
<1>2. C = {}
  BY DEF Nowhere, NowhereAt
<1>3. Places(q) = Cardinality({}) + Cardinality({}) + Cardinality({}) + Cardinality({}) + Cardinality({}) + Cardinality({})
  BY <1>1, <1>2 DEF Places
<1> QED BY <1>3, FS_EmptySet

(***************************************************************************)
(* A request is in exactly one place, or nowhere if a failure lost it,     *)
(* unless one doubled it, for any number of workers, requests, rooms and   *)
(* failures: no lobby is lost or placed twice between a tick's stages,     *)
(* whatever is claimed, retried or given back.                             *)
(***************************************************************************)
THEOREM RequestsPlaced == MatchmakingSpec => []RequestInOnePlace
<1>1. Typed /\ PlacesInv => RequestInOnePlace
  BY CountedOnce, CountedNever DEF Typed, PlacesInv, RequestInOnePlace, WherePlaced
<1> QED BY <1>1, AlwaysTyped, AlwaysPlaced, PTL

-----------------------------------------------------------------------------
(* The deficit *)

\* The lobbies in hand are of somebody, and finitely many wait.
SomebodyIn(w) ==
    /\ \A l \in backlog[w] \cup todo[w] \cup still[w] : l.members # {}
    /\ ~Idle(w) => claim[w].lobby.members # {}
FewWait(w) == /\ IsFiniteSet(backlog[w])
              /\ stage[w] = "retry" => IsFiniteSet(todo[w]) /\ IsFiniteSet(still[w])

\* How many lobbies a worker has waiting: those of its backlog, or, while it
\* retries them, those it has not come to, those that wait on and the one in hand.
Waiting(w) == IF stage[w] # "retry" THEN Cardinality(backlog[w])
              ELSE Cardinality(todo[w]) + Cardinality(still[w]) + (IF Idle(w) THEN 0 ELSE 1)

DeficitInv == /\ \A w \in Worker : SomebodyIn(w) /\ FewWait(w)
              /\ doubled = {} => \A w \in Worker : deficit[w] = Waiting(w)

\* Every step keeps the lobbies in hand inhabited.
LEMMA SomebodyStep ==
    ASSUME Typed, NEW w \in Worker, Step(w), SomebodyIn(w) PROVE SomebodyIn(w)'
<1> MatchmakingTypeOK BY DEF Typed
<1>t. LoopsOK /\ ClaimsOK BY TypeParts
<1> USE <1>t DEF consumer, loop, pool, Gets, Loses, LoopsOK, ClaimsOK
<1>c. ~Idle(w) => claim[w].lobby \in Lobby BY ClaimIs
<1>n. NoClaim.lobby = Nothing /\ Nothing \notin Lobby BY NothingElse DEF NoClaim, NeverNothing
<1>1. CASE \E q \in Request : Deliver(w, q) \/ Refuse(w, q) \/ AddRequest(w, q) \/ Redeliver(w, q)
  BY <1>1 DEF Deliver, Refuse, AddRequest, Redeliver, SomebodyIn, Idle
<1>2. CASE \E old \in SUBSET Request : BeginTick(w, old)
  BY <1>2 DEF BeginTick, SomebodyIn, Idle
<1>3. ASSUME NEW l \in todo[w], ListRooms(w, l) PROVE SomebodyIn(w)'
  BY <1>3 DEF ListRooms, SomebodyIn, Idle
<1>4. ASSUME NEW l \in todo[w], ListRaises(w, l) PROVE SomebodyIn(w)'
  BY <1>4 DEF ListRaises, SomebodyIn, Idle
<1>5. ASSUME NEW r \in Room, TryRoom(w, r) \/ ClaimRaises(w, r) PROVE SomebodyIn(w)'
  <2>1. ~Idle(w) BY <1>5, ClaimIs DEF TryRoom, ClaimRaises
  <2>2. claim'[w].lobby = claim[w].lobby BY <1>5 DEF TryRoom, ClaimRaises, Claim
  <2> QED BY <1>5, <2>1, <2>2 DEF TryRoom, ClaimRaises, SomebodyIn
<1>6. CASE NoRoomYet(w)
  BY <1>6, <1>c DEF NoRoomYet, SomebodyIn, Idle
<1>7. CASE StillNoRoom(w)
  <2>1. ~Idle(w) BY <1>7 DEF StillNoRoom
  <2>2. claim[w].lobby.retry < MaxRetries => Later(claim[w].lobby).members = claim[w].lobby.members
    BY <1>c, <2>1, RecordsTyped
  <2>3. claim'[w] = NoClaim /\ backlog' = backlog /\ todo' = todo BY <1>7 DEF StillNoRoom
  <2>4. \/ still' = still
        \/ claim[w].lobby.retry < MaxRetries /\ still'[w] = still[w] \cup {Later(claim[w].lobby)}
    BY <1>7 DEF StillNoRoom
  <2> QED BY <2>1, <2>2, <2>3, <2>4 DEF SomebodyIn, Idle
<1>8. CASE Notify(w)
  BY <1>8 DEF Notify, SomebodyIn, Idle
<1>9. CASE EndRetry(w)
  <2>1. PICK order \in Sorted(pending[w]), waited \in [pending[w] -> Windows] :
             todo' = [todo EXCEPT ![w] = {[members |-> m, retry |-> 0] : m \in MatchTick(order, waited)}]
    BY <1>9 DEF EndRetry
  <2>2. \A m \in MatchTick(order, waited) : m # {}
    BY TickLobbies DEF Typed, PendingFinite
  <2>3. \A l \in todo'[w] : l.members # {} BY <2>1, <2>2
  <2>4. backlog'[w] = still[w] /\ still'[w] = {} /\ claim' = claim /\ Idle(w)
    BY <1>9 DEF EndRetry, KeepPending
  <2> QED BY <2>3, <2>4 DEF SomebodyIn, Idle
<1>10. CASE EndTick(w)
  BY <1>10 DEF EndTick, SomebodyIn, Idle
<1>11. CASE WorkerCrash(w)
  BY <1>11 DEF WorkerCrash, SomebodyIn, Idle
<1> QED BY <1>1, <1>2, <1>3, <1>4, <1>5, <1>6, <1>7, <1>8, <1>9, <1>10, <1>11 DEF Step

\* Every step keeps finitely many waiting.
LEMMA FewStep ==
    ASSUME MatchmakingTypeOK, NEW w \in Worker, Step(w), FewWait(w) PROVE FewWait(w)'
<1>t. LoopsOK /\ ClaimsOK BY TypeParts
<1> USE <1>t DEF consumer, loop, pool, Gets, Loses, LoopsOK, ClaimsOK
<1>e. IsFiniteSet({}) BY FS_EmptySet
<1>a. \A S, x : IsFiniteSet(S) => IsFiniteSet(S \cup {x}) /\ IsFiniteSet(S \ {x})
  BY FS_AddElement, FS_RemoveElement
<1>1. CASE \E q \in Request : Deliver(w, q) \/ Refuse(w, q) \/ AddRequest(w, q) \/ Redeliver(w, q)
  BY <1>1 DEF Deliver, Refuse, AddRequest, Redeliver, FewWait
<1>2. CASE \E old \in SUBSET Request : BeginTick(w, old)
  BY <1>2, <1>e DEF BeginTick, FewWait
<1>3. ASSUME NEW l \in todo[w], ListRooms(w, l) PROVE FewWait(w)'
  BY <1>3, <1>a DEF ListRooms, FewWait
<1>4. ASSUME NEW l \in todo[w], ListRaises(w, l) PROVE FewWait(w)'
  BY <1>4 DEF ListRaises, FewWait
<1>5. CASE \E r \in Room : TryRoom(w, r) \/ ClaimRaises(w, r)
  BY <1>5 DEF TryRoom, ClaimRaises, FewWait
<1>6. CASE NoRoomYet(w)
  BY <1>6, <1>a DEF NoRoomYet, FewWait
<1>7. CASE StillNoRoom(w)
  <2>1. still' = still \/ \E l : still'[w] = still[w] \cup {l} BY <1>7 DEF StillNoRoom
  <2>2. /\ backlog' = backlog /\ stage' = stage /\ todo' = todo /\ stage[w] = "retry"
        /\ IsFiniteSet(backlog[w]) /\ IsFiniteSet(todo[w]) /\ IsFiniteSet(still[w])
    BY <1>7 DEF StillNoRoom, FewWait
  <2>3. ASSUME NEW l, still'[w] = still[w] \cup {l} PROVE IsFiniteSet(still'[w])
    <3>1. IsFiniteSet(still[w] \cup {l}) BY <1>a, <2>2
    <3> QED BY <2>3, <3>1
  <2> QED BY <2>1, <2>2, <2>3 DEF FewWait
<1>8. CASE Notify(w)
  BY <1>8 DEF Notify, FewWait
<1>9. CASE EndRetry(w)
  <2>1. backlog'[w] = still[w] /\ stage'[w] = "match" /\ stage[w] = "retry"
    BY <1>9 DEF EndRetry, KeepPending
  <2> QED BY <2>1 DEF FewWait
<1>10. CASE EndTick(w)
  BY <1>10 DEF EndTick, FewWait
<1>11. CASE WorkerCrash(w)
  BY <1>11, <1>e DEF WorkerCrash, FewWait
<1> QED BY <1>1, <1>2, <1>3, <1>4, <1>5, <1>6, <1>7, <1>8, <1>9, <1>10, <1>11 DEF Step

\* A lobby that begins to wait was not among those that wait: its members
\* would be in two places.
LEMMA NewlyWaiting ==
    ASSUME MatchmakingTypeOK, NEW w \in Worker, SomebodyIn(w), ~Idle(w),
           \A q \in Request : OnePlace(q) \/ Nowhere(q), NEW l, l = claim[w].lobby
    PROVE  /\ stage[w] # "retry" => l \notin backlog[w]
           /\ l.retry < MaxRetries => Later(l) \notin still[w]
<1>1. l \in Lobby /\ l.members # {} BY ClaimIs DEF SomebodyIn
<1>2. PICK q \in Request : q \in l.members BY <1>1, RecordsTyped
<1>3. Inside(q, "claim", w, Nothing) /\ ~Nowhere(q)
  BY <1>2 DEF Inside, Nowhere, NowhereAt, LobbiesOf
<1>4. \A k, x : Inside(q, k, w, x) => k = "claim" /\ x = Nothing
  BY <1>3, OnlyInside
<1>5. ASSUME stage[w] # "retry", l \in backlog[w] PROVE FALSE
  <2>1. Inside(q, "backlog", w, l) BY <1>2, <1>5 DEF Inside
  <2> QED BY <1>4, <2>1
<1>6. ASSUME l.retry < MaxRetries, Later(l) \in still[w] PROVE FALSE
  <2>1. q \in Later(l).members BY <1>1, <1>2, <1>6, RecordsTyped
  <2>2. Inside(q, "still", w, Later(l)) BY <1>6, <2>1 DEF Inside
  <2> QED BY <1>4, <2>2
<1> QED BY <1>5, <1>6

\* As many lobbies are in the backlog as are to come or wait on, if each member of
\* the former is in one of the latter.
LEMMA SameLobbies ==
    ASSUME MatchmakingTypeOK, NEW w \in Worker, LoopSound(w), SomebodyIn(w), FewWait(w), stage[w] = "retry",
           \A q \in Request : (OnePlace(q) \/ Nowhere(q)) /\ OneLobby(q),
           Members(backlog[w]) \subseteq Members(todo[w] \cup still[w])
    PROVE  Cardinality(backlog[w]) = Cardinality(todo[w]) + Cardinality(still[w])
<1> DEFINE B == backlog[w]
           T == todo[w]
           S == still[w]
           From(l) == CHOOSE b \in B : b.members = l.members
<1>t. LoopsOK BY TypeParts
<1>1. T \subseteq B /\ \A l \in S : \E b \in B : l.members = b.members
  BY DEF LoopSound
<1>2. \A l \in S : From(l) \in B /\ From(l).members = l.members
  BY <1>1
<1>3. IsFiniteSet(B) /\ IsFiniteSet(T) /\ IsFiniteSet(S)
  BY DEF FewWait
<1>4. \A l \in B \cup S : l.members \subseteq Request /\ \E q \in Request : q \in l.members
  <2> TAKE l \in B \cup S
  <2>1. l \in Lobby BY <1>t DEF LoopsOK
  <2>2. l.members # {} BY DEF SomebodyIn
  <2>3. l.members \in SUBSET Request BY <2>1, RecordsTyped
  <2> QED BY <2>2, <2>3
<1>5. ASSUME NEW q \in Request, NEW a \in B, NEW b \in B, q \in a.members, q \in b.members PROVE a = b
  BY <1>5 DEF OneLobby
<1>6. ASSUME NEW q \in Request, NEW l \in S, q \in l.members
      PROVE  /\ \A m \in S : q \in m.members => m = l
             /\ \A m \in T : q \notin m.members
  <2>1. Inside(q, "still", w, l) /\ ~Nowhere(q) BY <1>6 DEF Inside, Nowhere, NowhereAt, LobbiesOf
  <2>2. \A k, x : Inside(q, k, w, x) => k = "still" /\ x = l BY <2>1, OnlyInside
  <2>3. \A m \in S : q \in m.members => Inside(q, "still", w, m) BY DEF Inside
  <2>4. \A m \in T : q \in m.members => Inside(q, "todo", w, m) BY DEF Inside
  <2> QED BY <2>2, <2>3, <2>4
<1> HIDE DEF B, T, S, From
<1> DEFINE f == [l \in S |-> From(l)]
<1>7. f \in Injection(S, B \ T)
  <2>1. ASSUME NEW l \in S PROVE From(l) \in B \ T
    BY <1>2, <1>4, <1>6
  <2>2. ASSUME NEW l \in S, NEW m \in S, From(l) = From(m) PROVE l = m
    BY <1>2, <1>4, <1>6, <2>2
  <2> QED BY <2>1, <2>2 DEF Injection, IsInjective
<1>8. f \in Surjection(S, B \ T)
  <2>1. ASSUME NEW b \in B \ T PROVE \E l \in S : From(l) = b
    <3>1. PICK q \in Request : q \in b.members BY <1>4
    <3>2. q \in Members(backlog[w]) BY <3>1 DEF Members, B
    <3>3. q \in Members(todo[w] \cup still[w]) BY <3>2
    <3>4. PICK l \in T \cup S : q \in l.members BY <3>3 DEF Members, T, S
    <3>5. l \notin T BY <1>1, <1>5, <2>1, <3>1, <3>4
    <3>6. From(l) = b BY <1>2, <1>5, <2>1, <3>1, <3>4, <3>5
    <3> QED BY <3>4, <3>5, <3>6
  <2> QED BY <2>1, <1>7 DEF Surjection, Injection
<1> HIDE DEF f
<1>9. Cardinality(S) = Cardinality(B \ T)
  BY <1>3, <1>7, <1>8, FS_Injection, FS_Surjection
<1>10. Cardinality(B \ T) = Cardinality(B) - Cardinality(T)
  <2>1. Cardinality(B \ T) = Cardinality(B) - Cardinality(B \cap T) BY <1>3, FS_Difference
  <2>2. B \cap T = T BY <1>1
  <2> QED BY <2>1, <2>2
<1>11. Cardinality(B) \in Nat /\ Cardinality(T) \in Nat /\ Cardinality(S) \in Nat
  BY <1>3, FS_CardinalityType
<1>12. Cardinality(B) = Cardinality(T) + Cardinality(S)
  BY <1>9, <1>10, <1>11
<1> QED BY <1>12 DEF B, T, S

\* While nothing is doubled, the deficit moves with the lobbies that wait.
LEMMA DeficitStep ==
    ASSUME MatchmakingTypeOK, NEW w \in Worker, Step(w), doubled' = {}, LoopSound(w), SomebodyIn(w), FewWait(w),
           \A q \in Request : (OnePlace(q) \/ Nowhere(q)) /\ OneLobby(q), deficit[w] = Waiting(w)
    PROVE  deficit'[w] = Waiting(w)'
<1>t. LoopsOK /\ ClaimsOK BY TypeParts
<1> USE <1>t DEF consumer, loop, pool, Gets, Loses, LoopsOK, ClaimsOK
<1>c. Idle(w) => claim[w].lobby = Nothing /\ claim[w].room = Nothing /\ claim[w].listed = {} BY ClaimIs
<1>i. Nothing \notin Lobby /\ NoClaim.lobby = Nothing /\ Nothing \notin Room
  BY NothingElse DEF NeverNothing, NoClaim
<1>k. /\ \A S : IsFiniteSet(S) => Cardinality(S) \in Nat
      /\ \A S, x : IsFiniteSet(S) /\ x \notin S => Cardinality(S \cup {x}) = Cardinality(S) + 1
      /\ \A S, x : IsFiniteSet(S) /\ x \in S => Cardinality(S \ {x}) = Cardinality(S) - 1
      /\ Cardinality({}) = 0
  BY FS_CardinalityType, FS_AddElement, FS_RemoveElement, FS_EmptySet
<1>s. stage[w] \in {"sleep", "retry", "match"} /\ deficit[w] \in Nat
  OBVIOUS
<1>w. /\ stage[w] # "retry" => deficit[w] = Cardinality(backlog[w])
      /\ stage[w] = "retry" => deficit[w] = Cardinality(todo[w]) + Cardinality(still[w]) + (IF Idle(w) THEN 0 ELSE 1)
  BY DEF Waiting
<1>q. /\ IsFiniteSet(backlog[w])
      /\ stage[w] = "retry" => IsFiniteSet(todo[w]) /\ IsFiniteSet(still[w])
  BY DEF FewWait
<1>1. CASE \E q \in Request : Deliver(w, q) \/ Refuse(w, q) \/ AddRequest(w, q) \/ Redeliver(w, q)
  BY <1>1 DEF Deliver, Refuse, AddRequest, Redeliver, Waiting, Idle
<1>2. CASE \E old \in SUBSET Request : BeginTick(w, old)
  <2>1. /\ stage[w] = "sleep" /\ Idle(w) /\ claim' = claim /\ deficit' = deficit
        /\ stage'[w] = "retry" /\ todo'[w] = backlog[w] /\ still'[w] = {}
    BY <1>2 DEF BeginTick, LoopSound
  <2>2. Idle(w)' BY <2>1 DEF Idle
  <2>3. Waiting(w)' = Cardinality(backlog[w]) + Cardinality({}) + 0 BY <2>1, <2>2 DEF Waiting
  <2> QED BY <1>k, <1>q, <1>w, <2>1, <2>3
<1>3. ASSUME NEW l \in todo[w], ListRooms(w, l) PROVE deficit'[w] = Waiting(w)'
  <2>1. /\ Idle(w) /\ todo'[w] = todo[w] \ {l} /\ claim'[w].lobby = l /\ l \in Lobby
        /\ stage' = stage /\ still' = still /\ backlog' = backlog /\ deficit' = deficit
    BY <1>3 DEF ListRooms
  <2>2. ~Idle(w)' BY <1>i, <2>1 DEF Idle
  <2>3. CASE stage[w] = "retry"
    <3>1. Waiting(w)' = Cardinality(todo[w] \ {l}) + Cardinality(still[w]) + 1 BY <2>1, <2>2, <2>3 DEF Waiting
    <3>2. /\ Cardinality(todo[w] \ {l}) = Cardinality(todo[w]) - 1
          /\ Cardinality(todo[w]) \in Nat /\ Cardinality(still[w]) \in Nat
      BY <1>k, <1>q, <2>3
    <3> QED BY <1>w, <2>1, <2>3, <3>1, <3>2
  <2>4. CASE stage[w] # "retry" BY <1>w, <2>1, <2>4 DEF Waiting
  <2> QED BY <2>3, <2>4
<1>4. ASSUME NEW r \in Room, TryRoom(w, r) \/ ClaimRaises(w, r) PROVE deficit'[w] = Waiting(w)'
  <2>1. ~Idle(w) BY <1>4, <1>c DEF TryRoom, ClaimRaises
  <2>2. claim'[w].lobby = claim[w].lobby BY <1>4 DEF TryRoom, ClaimRaises, Claim
  <2>3. ~Idle(w)' BY <1>i, <1>t, <2>1, <2>2 DEF Idle
  <2> QED BY <1>4, <2>1, <2>3 DEF TryRoom, ClaimRaises, Waiting
<1>5. CASE NoRoomYet(w)
  <2>1. /\ stage[w] = "match" /\ stage'[w] = "match" /\ ~Idle(w) /\ deficit'[w] = deficit[w] + 1
        /\ backlog'[w] = backlog[w] \cup {claim[w].lobby}
    BY <1>5 DEF NoRoomYet
  <2>2. claim[w].lobby \notin backlog[w] BY <2>1, NewlyWaiting
  <2>3. Waiting(w)' = Cardinality(backlog[w] \cup {claim[w].lobby}) BY <2>1 DEF Waiting
  <2> QED BY <1>k, <1>q, <1>w, <2>1, <2>2, <2>3
<1>6. CASE StillNoRoom(w)
  <2> DEFINE l == claim[w].lobby
  <2>1. /\ stage[w] = "retry" /\ stage'[w] = "retry" /\ ~Idle(w) /\ Idle(w)' /\ todo' = todo
    BY <1>6 DEF StillNoRoom, Idle
  <2>2. Waiting(w)' = Cardinality(todo[w]) + Cardinality(still'[w]) + 0 BY <2>1 DEF Waiting
  <2>3. /\ deficit[w] = Cardinality(todo[w]) + Cardinality(still[w]) + 1
        /\ Cardinality(todo[w]) \in Nat /\ Cardinality(still[w]) \in Nat
    BY <1>k, <1>q, <1>w, <2>1
  <2>4. CASE l.retry < MaxRetries /\ still' = [still EXCEPT ![w] = @ \cup {Later(l)}] /\ deficit' = deficit
    <3>1. still'[w] = still[w] \cup {Later(l)} /\ Later(l) \notin still[w] BY <2>1, <2>4, NewlyWaiting
    <3>2. Cardinality(still'[w]) = Cardinality(still[w]) + 1 BY <1>k, <1>q, <2>1, <3>1
    <3> QED BY <2>2, <2>3, <2>4, <3>2
  <2>5. CASE deficit' = [deficit EXCEPT ![w] = Less(@)] /\ still' = still
    <3>1. deficit'[w] = deficit[w] - 1 BY <2>3, <2>5 DEF Less
    <3> QED BY <2>2, <2>3, <2>5, <3>1
  <2> QED BY <1>6, <2>4, <2>5 DEF StillNoRoom
<1>7. CASE Notify(w)
  <2>1. /\ ~Idle(w) /\ Idle(w)' /\ deficit'[w] = DeficitAfter(w)
        /\ stage' = stage /\ todo' = todo /\ still' = still /\ backlog' = backlog
    BY <1>7, <1>c DEF Notify, Idle
  <2>2. CASE stage[w] = "retry"
    <3>1. Waiting(w)' = Cardinality(todo[w]) + Cardinality(still[w]) + 0 BY <2>1, <2>2 DEF Waiting
    <3>2. /\ deficit[w] = Cardinality(todo[w]) + Cardinality(still[w]) + 1
          /\ Cardinality(todo[w]) \in Nat /\ Cardinality(still[w]) \in Nat
      BY <1>k, <1>q, <1>w, <2>1, <2>2
    <3>3. deficit'[w] = deficit[w] - 1 BY <2>1, <2>2, <3>2 DEF DeficitAfter, Less
    <3> QED BY <3>1, <3>2, <3>3
  <2>3. CASE stage[w] # "retry" BY <1>w, <2>1, <2>3 DEF DeficitAfter, Waiting
  <2> QED BY <2>2, <2>3
<1>8. CASE EndRetry(w)
  <2>1. /\ stage[w] = "retry" /\ todo[w] = {} /\ Idle(w) /\ stage'[w] = "match"
        /\ backlog'[w] = still[w] /\ deficit' = deficit
    BY <1>8 DEF EndRetry, KeepPending
  <2>2. Waiting(w)' = Cardinality(still[w]) BY <2>1 DEF Waiting
  <2>3. deficit[w] = Cardinality({}) + Cardinality(still[w]) + 0 BY <1>w, <2>1
  <2> QED BY <1>k, <1>q, <2>1, <2>2, <2>3
<1>9. CASE EndTick(w)
  BY <1>9, <1>w DEF EndTick, Waiting
<1>10. ASSUME NEW l \in todo[w], ListRaises(w, l) PROVE deficit'[w] = Waiting(w)'
  <2>1. /\ Idle(w) /\ stage'[w] = "sleep" /\ backlog' = backlog /\ deficit' = deficit
    BY <1>10 DEF ListRaises
  <2>2. Waiting(w)' = Cardinality(backlog[w]) BY <2>1 DEF Waiting
  <2>3. CASE stage[w] # "retry" BY <1>w, <2>1, <2>2, <2>3
  <2>4. CASE stage[w] = "retry"
    <3>1. Members(backlog[w]) \subseteq Members(todo[w] \cup still[w])
      BY <1>10, <2>4 DEF ListRaises, Failure
    <3>2. Cardinality(backlog[w]) = Cardinality(todo[w]) + Cardinality(still[w])
      BY <2>4, <3>1, SameLobbies
    <3>3. /\ deficit[w] = Cardinality(todo[w]) + Cardinality(still[w]) + 0
          /\ Cardinality(todo[w]) \in Nat /\ Cardinality(still[w]) \in Nat
      BY <1>k, <1>q, <1>w, <2>1, <2>4
    <3> QED BY <2>1, <2>2, <3>2, <3>3
  <2> QED BY <2>3, <2>4
<1>11. CASE WorkerCrash(w)
  <2>1. stage'[w] = "sleep" /\ backlog'[w] = {} /\ deficit'[w] = 0
    BY <1>11 DEF WorkerCrash
  <2> QED BY <1>k, <2>1 DEF Waiting
<1> QED BY <1>11, <1>1, <1>2, <1>3, <1>4, <1>5, <1>6, <1>7, <1>8, <1>9, <1>10 DEF Step

LEMMA DeficitInvStep == Typed /\ PlacesInv /\ DeficitInv /\ [MatchmakingNext]_matchVars => DeficitInv'
<1> SUFFICES ASSUME Typed, PlacesInv, DeficitInv, [MatchmakingNext]_matchVars PROVE DeficitInv'
  OBVIOUS
<1> MatchmakingTypeOK BY DEF Typed
<1>1. ASSUME UNCHANGED <<backlog, stage, todo, still, claim, deficit, doubled>> PROVE DeficitInv'
  <2>1. \A w \in Worker : /\ SomebodyIn(w)' <=> SomebodyIn(w)
                          /\ FewWait(w)' <=> FewWait(w)
                          /\ Waiting(w)' = Waiting(w)
    BY <1>1 DEF SomebodyIn, FewWait, Waiting, Idle
  <2> QED BY <1>1, <2>1 DEF DeficitInv
<1>2. CASE UNCHANGED matchVars BY <1>1, <1>2 DEF matchVars
<1>3. ASSUME NEW r \in Room, Register(r) \/ RemoveRoom(r) PROVE DeficitInv'
  BY <1>1, <1>3 DEF Register, RemoveRoom, loop, NoFailure
<1>4. ASSUME NEW w \in Worker, Step(w) PROVE DeficitInv'
  <2>1. ASSUME NEW v \in Worker PROVE SomebodyIn(v)' /\ FewWait(v)'
    <3>1. SomebodyIn(v) /\ FewWait(v) BY DEF DeficitInv
    <3>2. CASE v = w BY <1>4, <3>1, <3>2, SomebodyStep, FewStep
    <3>3. CASE v # w BY <1>4, <3>1, <3>3, OthersStay DEF SameAt, SomebodyIn, FewWait, Idle
    <3> QED BY <3>2, <3>3
  <2>2. ASSUME doubled' = {} PROVE \A v \in Worker : deficit'[v] = Waiting(v)'
    <3>2. doubled = {} BY <1>4, <2>2, FailuresStep DEF MatchmakingNext
    <3>3. \A v \in Worker : deficit[v] = Waiting(v) BY <3>2 DEF DeficitInv
    <3>4. \A q \in Request : (OnePlace(q) \/ Nowhere(q)) /\ OneLobby(q) BY <3>2 DEF PlacesInv, WherePlaced
    <3>5. LoopSound(w) /\ SomebodyIn(w) /\ FewWait(w) BY DEF PlacesInv, LoopsSound, DeficitInv
    <3>6. ASSUME NEW v \in Worker, v # w PROVE deficit'[v] = Waiting(v)'
      <4>1. Waiting(v)' = Waiting(v) BY <1>4, <3>6, OthersStay DEF SameAt, Waiting, Idle
      <4> QED BY <1>4, <3>3, <3>6, <4>1, OthersStay DEF SameAt
    <3>7. deficit'[w] = Waiting(w)' BY <1>4, <2>2, <3>3, <3>4, <3>5, DeficitStep
    <3> QED BY <3>6, <3>7
  <2> QED BY <2>1, <2>2 DEF DeficitInv
<1> QED BY <1>2, <1>3, <1>4 DEF MatchmakingNext

LEMMA InitDeficit == MatchmakingInit => DeficitInv
  BY FS_EmptySet DEF MatchmakingInit, DeficitInv, SomebodyIn, FewWait, Waiting, Idle

(***************************************************************************)
(* Between ticks, and until a failure doubles a request, the rooms a       *)
(* worker asks for are as many as it has lobbies waiting, for any number   *)
(* of lobbies, workers, retries, failed announcements and crashes.         *)
(***************************************************************************)
THEOREM DeficitKept == MatchmakingSpec => []DeficitIsBacklog
<1>1. DeficitInv => DeficitIsBacklog
  BY DEF DeficitInv, Waiting, DeficitIsBacklog
<1> QED BY <1>1, InitDeficit, DeficitInvStep, AlwaysTyped, AlwaysPlaced, PTL DEF MatchmakingSpec

-----------------------------------------------------------------------------
(* The notifications *)

SocketsOK == /\ handler \in [Socket -> Handler]
             /\ home \in [Socket -> Replica \cup {None}]
             /\ up \in [Socket -> BOOLEAN]
             /\ table \in [Replica -> [Player -> Socket \cup {None}]]
MessagesOK == /\ place \in [Message -> Place]
              /\ owed \in [Message -> SUBSET Socket]
              /\ faults \in 0 .. MaxFaults
ConsumersOK == /\ taken \in [Replica -> Message \cup {None}]
               /\ consuming \in [Replica -> BOOLEAN]
               /\ next \in [Replica -> Nat \ {0}]
               /\ target \in [Replica -> Socket \cup {None}]
               /\ \A n \in Replica : target[n] # None => taken[n] # None

LEMMA NotificationTypeParts ==
    /\ SocketsOK /\ MessagesOK /\ ConsumersOK => TypeOK
    /\ SocketsOK' /\ MessagesOK' /\ ConsumersOK' => TypeOK'
  BY DEF TypeOK, SocketsOK, MessagesOK, ConsumersOK

Settled == {"receiving", "finished", "broken"}

(* A socket is known to the replica it is connected to, under its owner. *)
HomesAreReal == \A s \in Socket : handler[s] # "none" => home[s] \in Replica
TableIsOwn ==
    \A n \in Replica, p \in Player : table[n][p] # None =>
        /\ home[table[n][p]] = n /\ Owner[table[n][p]] = p
        /\ handler[table[n][p]] \in Settled
TargetIsOwn ==
    \A n \in Replica : target[n] # None => home[target[n]] = n /\ handler[target[n]] \in Settled

(* While it is the only socket of its player it is in the table. *)
LoneSocketIsListed ==
    \A s \in Socket : Steady(s) /\ Rivals(s) = {} => table[home[s]][Owner[s]] = s

(* A replica that has a message to acknowledge dispatches it. *)
HolderDispatches ==
    \A m \in Message, n \in Replica : place[m] = n => taken[n] = m /\ consuming[n]

(* Who has not heard is still to come. *)
Ahead(n, m, s) ==
    /\ target[n] # None
    /\ \E i \in Nat : /\ next[n] <= i /\ i <= Len(Names[m]) /\ Names[m][i] = Owner[s]
                      /\ i = next[n] => target[n] = s
OwedAreSettled == \A m \in Message : \A s \in owed[m] : handler[s] \in Settled
OwedAreAhead ==
    \A m \in Message, n \in Replica : place[m] = n =>
        \A s \in owed[m] : /\ home[s] = n
                           /\ Steady(s) /\ Rivals(s) = {} => Ahead(n, m, s)

IInv == /\ TypeOK /\ HomesAreReal /\ TableIsOwn /\ TargetIsOwn /\ LoneSocketIsListed
        /\ HolderDispatches /\ OwedAreSettled /\ OwedAreAhead /\ SteadySocketHears

-----------------------------------------------------------------------------
(* The loop of dispatch                                                     *)

LEMMA MinIsIn ==
    ASSUME NEW S \in SUBSET Nat, S # {} PROVE Min(S) \in S /\ \A x \in S : Min(S) <= x
  BY SmallestNat DEF Min

LEMMA NamesAreSequences ==
    ASSUME NEW m \in Message
    PROVE  /\ Names[m] \in Seq(Player) /\ Len(Names[m]) \in Nat
           /\ \A i \in 1 .. Len(Names[m]) : Names[m][i] \in Player
BY NamesAssumption

(* The loop stops at the first of those still to come, or is over. *)
LEMMA GoesOnStops ==
    ASSUME NEW n \in Replica, NEW m \in Message, NEW from \in Nat \ {0}, NEW clients,
           next \in [Replica -> Nat \ {0}], target \in [Replica -> Socket \cup {None}],
           GoesOn(n, m, from, clients)
    PROVE  /\ \A q \in Replica \ {n} : next'[q] = next[q] /\ target'[q] = target[q]
           /\ DOMAIN next' = Replica /\ DOMAIN target' = Replica
           /\ \/ /\ next'[n] \in Remaining(m, from, clients)
                 /\ next'[n] \in 1 .. Len(Names[m])
                 /\ \A i \in Remaining(m, from, clients) : next'[n] <= i
                 /\ target'[n] = clients[Names[m][next'[n]]] /\ target'[n] # None
              \/ /\ Remaining(m, from, clients) = {}
                 /\ next'[n] = 1 /\ target'[n] = None
<1> DEFINE ahead == Remaining(m, from, clients)
<1>1. ahead \subseteq 1 .. Len(Names[m]) /\ ahead \subseteq Nat
  BY NamesAreSequences DEF Remaining
<1>2. CASE ahead # {}
  <2>1. /\ next' = [next EXCEPT ![n] = Min(ahead)]
        /\ target' = [target EXCEPT ![n] = clients[Names[m][Min(ahead)]]]
    BY <1>2 DEF GoesOn, LoopEnds
  <2>2. Min(ahead) \in ahead /\ \A x \in ahead : Min(ahead) <= x
    <3> HIDE DEF ahead
    <3> QED
      BY <1>1, <1>2, MinIsIn
  <2>3. clients[Names[m][Min(ahead)]] # None
    BY <2>2 DEF Remaining
  <2>4. next'[n] = Min(ahead) /\ target'[n] = clients[Names[m][Min(ahead)]]
    BY <2>1
  <2> QED
    <3> HIDE DEF ahead
    <3>1. /\ next'[n] \in ahead /\ next'[n] \in 1 .. Len(Names[m])
          /\ \A i \in ahead : next'[n] <= i
          /\ target'[n] = clients[Names[m][next'[n]]] /\ target'[n] # None
      BY <1>1, <2>2, <2>3, <2>4
    <3> QED
      BY <2>1, <3>1 DEF ahead
<1>3. CASE ahead = {}
  BY <1>3 DEF GoesOn, LoopEnds
<1> QED
  BY <1>2, <1>3

(* Whoever the loop has still to come to is ahead of it. *)
LEMMA GoesOnReaches ==
    ASSUME NEW n \in Replica, NEW m \in Message, NEW from \in Nat \ {0}, NEW clients,
           next \in [Replica -> Nat \ {0}], target \in [Replica -> Socket \cup {None}],
           GoesOn(n, m, from, clients),
           NEW s \in Socket, clients[Owner[s]] = s,
           NEW i \in from .. Len(Names[m]), Names[m][i] = Owner[s]
    PROVE  Ahead(n, m, s)'
<1>1. s # None
  BY NoneAssumption
<1>2. i \in Remaining(m, from, clients) /\ i \in Nat
  BY <1>1 DEF Remaining
<1>3. /\ next'[n] <= i /\ target'[n] # None
      /\ target'[n] = clients[Names[m][next'[n]]]
  BY <1>2, GoesOnStops
<1> QED
  BY <1>2, <1>3 DEF Ahead

-----------------------------------------------------------------------------
(* Types                                                                    *)

LEMMA ForgetTyped ==
    ASSUME SocketsOK, NEW n \in Replica, NEW s \in Socket, Forget(n, Owner[s])
    PROVE  /\ table' \in [Replica -> [Player -> Socket \cup {None}]]
           /\ \A q \in Replica, p \in Player :
                 table'[q][p] = IF q = n /\ p = Owner[s] THEN None ELSE table[q][p]
<1>1. Owner[s] \in Player
  BY OwnerAssumption
<1>2. table' = [table EXCEPT ![n] = [table[n] EXCEPT ![Owner[s]] = None]]
  BY DEF Forget, SocketsOK
<1>3. [table[n] EXCEPT ![Owner[s]] = None] \in [Player -> Socket \cup {None}]
  BY <1>1 DEF SocketsOK
<1> QED
  BY <1>1, <1>2, <1>3 DEF SocketsOK

LEMMA EnterTyped ==
    ASSUME SocketsOK, NEW s \in Socket, home[s] \in Replica,
           table' = [table EXCEPT ![home[s]][Owner[s]] = s]
    PROVE  /\ table' \in [Replica -> [Player -> Socket \cup {None}]]
           /\ \A q \in Replica, p \in Player :
                 table'[q][p] = IF q = home[s] /\ p = Owner[s] THEN s ELSE table[q][p]
<1> DEFINE n == home[s]
<1>1. Owner[s] \in Player /\ n \in Replica
  BY OwnerAssumption
<1>2. table' = [table EXCEPT ![n] = [table[n] EXCEPT ![Owner[s]] = s]]
  BY DEF SocketsOK
<1>3. [table[n] EXCEPT ![Owner[s]] = s] \in [Player -> Socket \cup {None}]
  BY <1>1 DEF SocketsOK
<1> HIDE DEF n
<1>4. /\ table' \in [Replica -> [Player -> Socket \cup {None}]]
      /\ \A q \in Replica, p \in Player :
            table'[q][p] = IF q = n /\ p = Owner[s] THEN s ELSE table[q][p]
  BY <1>1, <1>2, <1>3 DEF SocketsOK
<1> QED
  BY <1>4 DEF n

LEMMA InitInvariant == Init => IInv
<1> SUFFICES ASSUME Init PROVE IInv
  OBVIOUS
<1> USE DEF Init
<1>1. TypeOK
  BY BoundAssumption DEF TypeOK, Handler, Place
<1>2. HomesAreReal /\ TableIsOwn /\ TargetIsOwn /\ LoneSocketIsListed
  BY DEF HomesAreReal, TableIsOwn, TargetIsOwn, LoneSocketIsListed, Steady
<1>3. HolderDispatches /\ OwedAreSettled /\ OwedAreAhead
  BY PlaceAssumption DEF HolderDispatches, OwedAreSettled, OwedAreAhead
<1>4. SteadySocketHears
  BY DEF SteadySocketHears
<1> QED
  BY <1>1, <1>2, <1>3, <1>4 DEF IInv

LEMMA NextSocketsOK == ASSUME IInv, [Next]_vars PROVE SocketsOK'
<1>0. SocketsOK /\ HomesAreReal
  BY DEF IInv, TypeOK, SocketsOK
<1>1. CASE UNCHANGED <<handler, home, up, table>>
  BY <1>0, <1>1 DEF SocketsOK
<1>2. ASSUME NEW s \in Socket, NEW n \in Replica, Accept(s, n) PROVE SocketsOK'
  BY <1>0, <1>2 DEF Accept, Moves, SocketsOK, Handler
<1>3. ASSUME NEW s \in Socket, Validate(s) PROVE SocketsOK'
  <2>1. home[s] \in Replica
    BY <1>0, <1>3 DEF Validate, HomesAreReal
  <2>2. table' \in [Replica -> [Player -> Socket \cup {None}]]
    BY <1>0, <1>3, <2>1, EnterTyped DEF Validate, SocketsOK
  <2>3. handler' \in [Socket -> Handler] /\ up' \in [Socket -> BOOLEAN] /\ home' = home
    BY <1>0, <1>3 DEF Validate, Moves, SocketsOK, Handler
  <2> QED
    BY <1>0, <2>2, <2>3 DEF SocketsOK
<1>4. ASSUME NEW s \in Socket, Leave(s) \/ Break(s) PROVE SocketsOK'
  BY <1>0, <1>4 DEF Leave, Break, Moves, SocketsOK, Handler
<1>5. ASSUME NEW s \in Socket, Disconnect(s) PROVE SocketsOK'
  <2>1. home[s] \in Replica
    BY <1>0, <1>5 DEF Disconnect, HomesAreReal
  <2>2. table' \in [Replica -> [Player -> Socket \cup {None}]]
    BY <1>0, <1>5, <2>1, ForgetTyped DEF Disconnect, ForgetOwner
  <2> QED
    BY <1>0, <1>5, <2>2 DEF Disconnect, Moves, SocketsOK, Handler
<1>6. ASSUME NEW n \in Replica, NEW m \in Message, Sent(n, m) PROVE SocketsOK'
  <2>1. target[n] \in Socket
    BY <1>6 DEF Sent, IInv, TypeOK
  <2>2. CASE Forget(n, Owner[target[n]])
    BY <1>0, <1>6, <2>1, <2>2, ForgetTyped DEF Sent, sockets, SocketsOK
  <2>3. CASE UNCHANGED table
    BY <1>0, <1>6, <2>3 DEF Sent, sockets, SocketsOK
  <2> QED
    BY <1>6, <2>2, <2>3 DEF Sent
<1>7. ASSUME NEW n \in Replica, Crash(n) PROVE SocketsOK'
  <2>1. handler' \in [Socket -> Handler] /\ up' \in [Socket -> BOOLEAN] /\ home' = home
    BY <1>0, <1>7 DEF Crash, SocketsOK, Handler
  <2>2. table' \in [Replica -> [Player -> Socket \cup {None}]]
    BY <1>0, <1>7 DEF Crash, SocketsOK
  <2> QED
    BY <1>0, <2>1, <2>2 DEF SocketsOK
<1>8. ASSUME NEW n \in Replica, NEW m \in Message,
             Take(n, m) \/ Handled(n, m) \/ Rejected(n, m) \/ TooLate(n, m)
      PROVE  SocketsOK'
  BY <1>1, <1>8 DEF Take, Handled, Rejected, TooLate, sockets
<1>9. ASSUME NEW n \in Replica, Reconnect(n) \/ ConnectionLost(n) PROVE SocketsOK'
  BY <1>1, <1>9 DEF Reconnect, ConnectionLost, sockets
<1>10. ASSUME NEW m \in Message, Publish(m) PROVE SocketsOK'
  BY <1>1, <1>10 DEF Publish, sockets
<1>11. CASE UNCHANGED vars
  BY <1>1, <1>11 DEF vars, sockets
<1> QED
  BY <1>2, <1>3, <1>4, <1>5, <1>6, <1>7, <1>8, <1>9, <1>10, <1>11 DEF Next, HandlerStep, ConsumerStep

LEMMA NextMessagesOK == ASSUME IInv, [Next]_vars PROVE MessagesOK'
<1>0. MessagesOK /\ SocketsOK
  BY DEF IInv, TypeOK, MessagesOK, SocketsOK
<1> USE BoundAssumption
<1>1. CASE UNCHANGED <<place, owed, faults>>
  BY <1>0, <1>1 DEF MessagesOK
<1>2. ASSUME NEW s \in Socket,
             Validate(s) \/ Disconnect(s) \/ Leave(s) \/ Break(s) \/ \E n \in Replica : Accept(s, n)
      PROVE  MessagesOK'
  <2>1. UNCHANGED <<place, owed>> /\ (faults' = faults \/ Fault)
    BY <1>2 DEF Validate, Disconnect, Leave, Break, Accept, NoFault
  <2> QED
    BY <1>0, <2>1 DEF MessagesOK, Fault
<1>3. ASSUME NEW n \in Replica, NEW m \in Message, Take(n, m) PROVE MessagesOK'
  <2>1. {s \in Socket : Steady(s) /\ home[s] = n /\ Owner[s] \in Range(Names[m])} \in SUBSET Socket
    OBVIOUS
  <2>2. owed' \in [Message -> SUBSET Socket]
    BY <1>0, <1>3, <2>1 DEF Take, MessagesOK
  <2> QED
    BY <1>0, <1>3, <2>2 DEF Take, NoFault, MessagesOK, Place
<1>4. ASSUME NEW n \in Replica, NEW m \in Message, Sent(n, m) PROVE MessagesOK'
  <2>1. owed' \in [Message -> SUBSET Socket]
    BY <1>0, <1>4 DEF Sent, MessagesOK
  <2> QED
    BY <1>0, <1>4, <2>1 DEF Sent, NoFault, MessagesOK
<1>5. ASSUME NEW n \in Replica, NEW m \in Message, Handled(n, m) \/ Rejected(n, m) \/ TooLate(n, m)
      PROVE  MessagesOK'
  BY <1>0, <1>5 DEF Handled, Rejected, TooLate, NoFault, Fault, MessagesOK, Place
<1>6. ASSUME NEW n \in Replica, GoesBack(n) PROVE place' \in [Message -> Place]
  BY <1>0, <1>6 DEF GoesBack, MessagesOK, Place
<1>7. ASSUME NEW n \in Replica, Reconnect(n) \/ ConnectionLost(n) \/ Crash(n) PROVE MessagesOK'
  BY <1>0, <1>6, <1>7 DEF Reconnect, ConnectionLost, Crash, NoFault, Fault, MessagesOK
<1>8. ASSUME NEW m \in Message, Publish(m) PROVE MessagesOK'
  BY <1>0, <1>8 DEF Publish, NoFault, MessagesOK, Place
<1>9. CASE UNCHANGED vars
  BY <1>1, <1>9 DEF vars
<1> QED
  BY <1>2, <1>3, <1>4, <1>5, <1>7, <1>8, <1>9 DEF Next, HandlerStep, ConsumerStep

LEMMA NextConsumersOK == ASSUME IInv, [Next]_vars PROVE ConsumersOK'
<1>0. ConsumersOK /\ SocketsOK
  BY DEF IInv, TypeOK, ConsumersOK, SocketsOK
<1>1. CASE UNCHANGED <<taken, consuming, next, target>>
  BY <1>0, <1>1 DEF ConsumersOK
<1>2. ASSUME NEW s \in Socket,
             Validate(s) \/ Disconnect(s) \/ Leave(s) \/ Break(s) \/ \E n \in Replica : Accept(s, n)
      PROVE  ConsumersOK'
  BY <1>1, <1>2 DEF Validate, Disconnect, Leave, Break, Accept, dispatching
<1>3. ASSUME NEW n \in Replica, NEW m \in Message, NEW from \in Nat \ {0}, NEW clients,
             clients \in [Player -> Socket \cup {None}], GoesOn(n, m, from, clients)
      PROVE  /\ next' \in [Replica -> Nat \ {0}] /\ target' \in [Replica -> Socket \cup {None}]
             /\ \A q \in Replica \ {n} : target'[q] = target[q]
  <2>1. /\ \A q \in Replica \ {n} : next'[q] = next[q] /\ target'[q] = target[q]
        /\ next'[n] \in Nat \ {0} /\ target'[n] \in Socket \cup {None}
    <3>1. /\ \A q \in Replica \ {n} : next'[q] = next[q] /\ target'[q] = target[q]
          /\ \/ next'[n] \in 1 .. Len(Names[m]) /\ target'[n] = clients[Names[m][next'[n]]]
             \/ next'[n] = 1 /\ target'[n] = None
      BY <1>0, <1>3, GoesOnStops DEF ConsumersOK
    <3>2. ASSUME NEW i \in 1 .. Len(Names[m])
          PROVE  i \in Nat \ {0} /\ clients[Names[m][i]] \in Socket \cup {None}
      BY <1>3, NamesAreSequences
    <3> QED
      BY <3>1, <3>2
  <2>2. /\ next' = [q \in Replica |-> next'[q]]
        /\ target' = [q \in Replica |-> target'[q]]
    BY <1>0, <1>3 DEF ConsumersOK, GoesOn, LoopEnds
  <2>3. \A q \in Replica : next'[q] \in Nat \ {0} /\ target'[q] \in Socket \cup {None}
    BY <1>0, <2>1 DEF ConsumersOK
  <2> QED
    BY <2>1, <2>2, <2>3
<1>4. ASSUME NEW n \in Replica, NEW m \in Message, Take(n, m) PROVE ConsumersOK'
  <2>1. /\ next' \in [Replica -> Nat \ {0}] /\ target' \in [Replica -> Socket \cup {None}]
        /\ \A q \in Replica \ {n} : target'[q] = target[q]
    <3>1. GoesOn(n, m, 1, table[n]) /\ table[n] \in [Player -> Socket \cup {None}]
      BY <1>0, <1>4 DEF Take, SocketsOK
    <3>2. 1 \in Nat \ {0}
      OBVIOUS
    <3> QED
      BY <1>3, <3>1, <3>2
  <2> QED
    BY <1>0, <1>4, <2>1, NoneAssumption DEF Take, ConsumersOK
<1>5. ASSUME NEW n \in Replica, NEW m \in Message, Sent(n, m) PROVE ConsumersOK'
  <2>1. table'[n] \in [Player -> Socket \cup {None}]
    BY NextSocketsOK DEF SocketsOK
  <2>2. next[n] + 1 \in Nat \ {0}
    BY <1>0 DEF ConsumersOK
  <2>3. /\ next' \in [Replica -> Nat \ {0}] /\ target' \in [Replica -> Socket \cup {None}]
        /\ \A q \in Replica \ {n} : target'[q] = target[q]
    BY <1>3, <1>5, <2>1, <2>2 DEF Sent
  <2> QED
    BY <1>0, <1>5, <2>3, NoneAssumption DEF Sent, ConsumersOK
<1>6. ASSUME NEW n \in Replica, Returns(n)
      PROVE  /\ taken' \in [Replica -> Message \cup {None}]
             /\ next' \in [Replica -> Nat \ {0}] /\ target' \in [Replica -> Socket \cup {None}]
             /\ \A q \in Replica : target'[q] # None => taken'[q] # None
  BY <1>0, <1>6 DEF Returns, LoopEnds, ConsumersOK
<1>7. ASSUME NEW n \in Replica, NEW m \in Message, Handled(n, m) \/ Rejected(n, m) \/ TooLate(n, m)
      PROVE  ConsumersOK'
  BY <1>0, <1>6, <1>7 DEF Handled, Rejected, TooLate, ConsumersOK
<1>8. ASSUME NEW n \in Replica, Reconnect(n) \/ ConnectionLost(n) PROVE ConsumersOK'
  BY <1>0, <1>8 DEF Reconnect, ConnectionLost, dispatching, ConsumersOK
<1>9. ASSUME NEW n \in Replica, Crash(n) PROVE ConsumersOK'
  BY <1>0, <1>6, <1>9 DEF Crash, ConsumersOK
<1>10. ASSUME NEW m \in Message, Publish(m) PROVE ConsumersOK'
  BY <1>1, <1>10 DEF Publish, dispatching
<1>11. CASE UNCHANGED vars
  BY <1>1, <1>11 DEF vars, dispatching
<1> QED
  BY <1>2, <1>4, <1>5, <1>7, <1>8, <1>9, <1>10, <1>11 DEF Next, HandlerStep, ConsumerStep

-----------------------------------------------------------------------------
(* Sockets                                                                  *)

(* A socket keeps its home, and what it was it will not be again. *)
LEMMA SocketsSettle ==
    ASSUME IInv, [Next]_vars, NEW s \in Socket
    PROVE  /\ handler[s] # "none" => home'[s] = home[s] /\ handler'[s] # "none"
           /\ handler[s] \in Settled => handler'[s] \in Settled /\ (up'[s] => up[s])
           /\ handler'[s] = "receiving" => handler[s] = "receiving" \/ Validate(s)
<1> USE DEF Settled
<1>0. /\ handler \in [Socket -> Handler] /\ home \in [Socket -> Replica \cup {None}]
      /\ up \in [Socket -> BOOLEAN]
  BY DEF IInv, TypeOK
<1>1. CASE UNCHANGED <<handler, home, up>>
  BY <1>0, <1>1
<1>2. ASSUME NEW r \in Socket, NEW n \in Replica, Accept(r, n)
      PROVE  UNCHANGED <<handler[s], home[s], up[s]>> \/ (handler[s] = "none" /\ handler'[s] = "validating")
  BY <1>0, <1>2 DEF Accept, Moves
<1>3. ASSUME NEW r \in Socket, Validate(r)
      PROVE  /\ home' = home
             /\ UNCHANGED <<handler[s], up[s]>>
                \/ (Validate(s) /\ handler[s] = "validating" /\ handler'[s] \in Settled)
  BY <1>0, <1>3 DEF Validate, Moves
<1>4. ASSUME NEW r \in Socket, Leave(r) \/ Break(r) \/ Disconnect(r)
      PROVE  /\ home' = home /\ (up'[s] => up[s])
             /\ handler'[s] = handler[s]
                \/ (handler[s] = "receiving" /\ handler'[s] \in {"finished", "broken"})
  BY <1>0, <1>4 DEF Leave, Break, Disconnect, Moves
<1>5. ASSUME NEW n \in Replica, Crash(n)
      PROVE  /\ home' = home /\ (up'[s] => up[s])
             /\ handler'[s] = handler[s] \/ (home[s] = n /\ handler'[s] = "finished")
  BY <1>0, <1>5 DEF Crash
<1>6. ASSUME NEW n \in Replica, NEW m \in Message,
             Take(n, m) \/ Sent(n, m) \/ Handled(n, m) \/ Rejected(n, m) \/ TooLate(n, m)
      PROVE  UNCHANGED <<handler, home, up>>
  BY <1>6 DEF Take, Sent, Handled, Rejected, TooLate, sockets
<1>7. ASSUME NEW n \in Replica, Reconnect(n) \/ ConnectionLost(n) PROVE UNCHANGED <<handler, home, up>>
  BY <1>7 DEF Reconnect, ConnectionLost, sockets
<1>8. ASSUME NEW m \in Message, Publish(m) PROVE UNCHANGED <<handler, home, up>>
  BY <1>8 DEF Publish, sockets
<1>9. CASE UNCHANGED vars
  BY <1>1, <1>9 DEF vars, sockets
<1> QED
  BY <1>1, <1>2, <1>3, <1>4, <1>5, <1>6, <1>7, <1>8, <1>9 DEF Next, HandlerStep, ConsumerStep

(* Who is steady was, and has no fewer rivals than it had. *)
LEMMA SteadyBefore ==
    ASSUME IInv, [Next]_vars, NEW s \in Socket, handler[s] \in Settled,
           Steady(s)', Rivals(s)' = {}
    PROVE  Steady(s) /\ Rivals(s) = {} /\ home'[s] = home[s]
<1>1. ~Validate(s) /\ handler[s] # "none"
  BY DEF Validate, Settled
<1>2. Steady(s) /\ home'[s] = home[s]
  BY <1>1, SocketsSettle DEF Steady
<1>3. ASSUME NEW r \in Rivals(s) PROVE r \in Rivals(s)'
  <2>1. r \in Socket \ {s} /\ Owner[r] = Owner[s] /\ home[r] = home[s] /\ handler[r] \in Settled
    BY <1>3 DEF Rivals, Settled
  <2>2. home'[r] = home[r] /\ handler'[r] \in Settled
    BY <2>1, SocketsSettle DEF Settled
  <2> QED
    BY <1>2, <2>1, <2>2 DEF Rivals, Settled
<1> QED
  BY <1>2, <1>3

LEMMA NextHomesAreReal == ASSUME IInv, [Next]_vars PROVE HomesAreReal'
<1>0. HomesAreReal /\ home \in [Socket -> Replica \cup {None}] /\ handler \in [Socket -> Handler]
  BY DEF IInv, TypeOK
<1>1. CASE UNCHANGED <<handler, home>>
  BY <1>0, <1>1 DEF HomesAreReal
<1>2. ASSUME NEW r \in Socket, NEW n \in Replica, Accept(r, n) PROVE HomesAreReal'
  BY <1>0, <1>2 DEF Accept, Moves, HomesAreReal
<1>3. ASSUME NEW r \in Socket, Validate(r) \/ Leave(r) \/ Break(r) \/ Disconnect(r) PROVE HomesAreReal'
  BY <1>0, <1>3 DEF Validate, Leave, Break, Disconnect, Moves, HomesAreReal
<1>4. ASSUME NEW n \in Replica, Crash(n) PROVE HomesAreReal'
  BY <1>0, <1>4 DEF Crash, HomesAreReal
<1>5. ASSUME NEW n \in Replica, NEW m \in Message,
             Take(n, m) \/ Sent(n, m) \/ Handled(n, m) \/ Rejected(n, m) \/ TooLate(n, m)
      PROVE  HomesAreReal'
  BY <1>1, <1>5 DEF Take, Sent, Handled, Rejected, TooLate, sockets
<1>6. ASSUME NEW n \in Replica, Reconnect(n) \/ ConnectionLost(n) PROVE HomesAreReal'
  BY <1>1, <1>6 DEF Reconnect, ConnectionLost, sockets
<1>7. ASSUME NEW m \in Message, Publish(m) PROVE HomesAreReal'
  BY <1>1, <1>7 DEF Publish, sockets
<1>8. CASE UNCHANGED vars
  BY <1>1, <1>8 DEF vars, sockets
<1> QED
  BY <1>2, <1>3, <1>4, <1>5, <1>6, <1>7, <1>8 DEF Next, HandlerStep, ConsumerStep

(* An entry of a table comes and goes one by one, or with its replica. *)
LEMMA TableSteps ==
    ASSUME IInv, [Next]_vars
    PROVE  \/ UNCHANGED table
           \/ \E s \in Socket :
                 /\ Validate(s) /\ home[s] \in Replica /\ handler'[s] = "receiving" /\ home'[s] = home[s]
                 /\ \A q \in Replica, p \in Player :
                       table'[q][p] = IF q = home[s] /\ p = Owner[s] THEN s ELSE table[q][p]
           \/ \E s \in Socket :
                 /\ handler[s] \in Settled /\ home[s] \in Replica /\ ~up'[s]
                 /\ \A q \in Replica, p \in Player :
                       table'[q][p] = IF q = home[s] /\ p = Owner[s] THEN None ELSE table[q][p]
           \/ \E n \in Replica :
                 /\ Crash(n)
                 /\ \A q \in Replica, p \in Player :
                       table'[q][p] = IF q = n THEN None ELSE table[q][p]
<1>0. SocketsOK /\ HomesAreReal /\ TargetIsOwn
  BY DEF IInv, TypeOK, SocketsOK
<1>1. ASSUME NEW s \in Socket, Validate(s) PROVE
         \/ UNCHANGED table
         \/ /\ home[s] \in Replica /\ handler'[s] = "receiving" /\ home'[s] = home[s]
            /\ \A q \in Replica, p \in Player :
                  table'[q][p] = IF q = home[s] /\ p = Owner[s] THEN s ELSE table[q][p]
  <2>1. home[s] \in Replica /\ UNCHANGED home
    BY <1>0, <1>1 DEF Validate, HomesAreReal
  <2>2. CASE UNCHANGED table
    BY <2>2
  <2>3. CASE table' = [table EXCEPT ![home[s]][Owner[s]] = s] /\ Moves(s, "receiving")
    <3>1. handler'[s] = "receiving"
      BY <1>0, <2>3 DEF Moves, SocketsOK
    <3> QED
      BY <1>0, <2>1, <2>3, <3>1, EnterTyped
  <2> QED
    BY <1>1, <2>2, <2>3 DEF Validate
<1>2. ASSUME NEW s \in Socket, Disconnect(s) PROVE
         /\ handler[s] \in Settled /\ home[s] \in Replica /\ ~up'[s]
         /\ \A q \in Replica, p \in Player :
               table'[q][p] = IF q = home[s] /\ p = Owner[s] THEN None ELSE table[q][p]
  <2>1. handler[s] \in Settled /\ home[s] \in Replica /\ ~up'[s] /\ Forget(home[s], Owner[s])
    BY <1>0, <1>2 DEF Disconnect, ForgetOwner, HomesAreReal, Settled
  <2> QED
    BY <1>0, <2>1, ForgetTyped
<1>3. ASSUME NEW n \in Replica, NEW m \in Message, Sent(n, m), ~UNCHANGED table PROVE
         LET s == target[n]
         IN  /\ s \in Socket /\ handler[s] \in Settled /\ home[s] \in Replica /\ ~up'[s]
             /\ \A q \in Replica, p \in Player :
                   table'[q][p] = IF q = home[s] /\ p = Owner[s] THEN None ELSE table[q][p]
  <2> DEFINE s == target[n]
  <2>1. s \in Socket /\ home[s] = n /\ handler[s] \in Settled
    BY <1>0, <1>3 DEF Sent, IInv, TypeOK, TargetIsOwn
  <2>2. ~up'[s] /\ Forget(n, Owner[s])
    BY <1>3 DEF Sent, sockets
  <2> HIDE DEF s
  <2>3. /\ s \in Socket /\ handler[s] \in Settled /\ home[s] \in Replica /\ ~up'[s]
        /\ \A q \in Replica, p \in Player :
              table'[q][p] = IF q = home[s] /\ p = Owner[s] THEN None ELSE table[q][p]
    BY <1>0, <2>1, <2>2, ForgetTyped
  <2> QED
    BY <2>3 DEF s
<1>4. ASSUME NEW n \in Replica, Crash(n) PROVE
         \A q \in Replica, p \in Player : table'[q][p] = IF q = n THEN None ELSE table[q][p]
  BY <1>0, <1>4 DEF Crash, SocketsOK
<1>5. ASSUME NEW s \in Socket, Leave(s) \/ Break(s) \/ \E n \in Replica : Accept(s, n)
      PROVE  UNCHANGED table
  BY <1>5 DEF Leave, Break, Accept
<1>6. ASSUME NEW n \in Replica, NEW m \in Message,
             Take(n, m) \/ Handled(n, m) \/ Rejected(n, m) \/ TooLate(n, m)
      PROVE  UNCHANGED table
  BY <1>6 DEF Take, Handled, Rejected, TooLate
<1>7. ASSUME NEW n \in Replica, Reconnect(n) \/ ConnectionLost(n) PROVE UNCHANGED table
  BY <1>7 DEF Reconnect, ConnectionLost
<1>8. ASSUME NEW m \in Message, Publish(m) PROVE UNCHANGED table
  BY <1>8 DEF Publish
<1>9. CASE UNCHANGED vars
  BY <1>9 DEF vars
<1>10. CASE \E s \in Socket : Validate(s)
  BY <1>1, <1>10
<1>11. CASE \E s \in Socket : Disconnect(s)
  BY <1>2, <1>11
<1>12. CASE \E n \in Replica, m \in Message : Sent(n, m)
  BY <1>3, <1>12
<1>13. CASE \E n \in Replica : Crash(n)
  BY <1>4, <1>13
<1> QED
  BY <1>5, <1>6, <1>7, <1>8, <1>9, <1>10, <1>11, <1>12, <1>13 DEF Next, HandlerStep, ConsumerStep

LEMMA NextTables == ASSUME IInv, [Next]_vars PROVE TableIsOwn' /\ LoneSocketIsListed'
<1> USE DEF Settled
<1>0. /\ table \in [Replica -> [Player -> Socket \cup {None}]]
      /\ handler \in [Socket -> Handler] /\ up \in [Socket -> BOOLEAN]
      /\ HomesAreReal /\ TableIsOwn /\ LoneSocketIsListed
      /\ \A s \in Socket : Owner[s] \in Player
  BY OwnerAssumption DEF IInv, TypeOK
<1>1. TableIsOwn'
  <2> SUFFICES ASSUME NEW n \in Replica, NEW p \in Player, table'[n][p] # None
               PROVE  LET e == table'[n][p] IN home'[e] = n /\ Owner[e] = p /\ handler'[e] \in Settled
    BY DEF TableIsOwn
  <2>1. CASE table'[n][p] = table[n][p]
    <3> DEFINE e == table[n][p]
    <3>1. e \in Socket /\ home[e] = n /\ Owner[e] = p /\ handler[e] \in Settled
      BY <1>0, <2>1 DEF TableIsOwn
    <3> HIDE DEF e
    <3>2. home'[e] = n /\ handler'[e] \in Settled
      BY <3>1, SocketsSettle
    <3> QED
      BY <2>1, <3>1, <3>2 DEF e
  <2>2. CASE table'[n][p] # table[n][p]
    <3>1. PICK s \in Socket : /\ handler'[s] = "receiving" /\ home'[s] = home[s]
                              /\ n = home[s] /\ p = Owner[s] /\ table'[n][p] = s
      BY <2>2, TableSteps
    <3> QED
      BY <3>1
  <2> QED
    BY <2>1, <2>2
<1>2. ASSUME NEW s \in Socket, Steady(s)', Rivals(s)' = {} PROVE table'[home'[s]][Owner[s]] = s
  <2>1. CASE Validate(s)
    <3>1. /\ home[s] \in Replica /\ home' = home
          /\ table' = [table EXCEPT ![home[s]][Owner[s]] = s]
      BY <1>0, <1>2, <2>1 DEF Validate, Moves, HomesAreReal, Steady
    <3>2. SocketsOK
      BY DEF IInv, TypeOK, SocketsOK
    <3> QED
      BY <1>0, <3>1, <3>2, EnterTyped
  <2>2. CASE ~Validate(s)
    <3>1. handler[s] = "receiving"
      BY <1>2, <2>2, SocketsSettle DEF Steady
    <3>2. Steady(s) /\ Rivals(s) = {} /\ home'[s] = home[s] /\ home[s] \in Replica
      BY <1>0, <1>2, <3>1, SteadyBefore DEF HomesAreReal
    <3>3. table[home[s]][Owner[s]] = s
      BY <1>0, <3>2 DEF LoneSocketIsListed
    <3>4. ASSUME NEW r \in Socket, Validate(r), handler'[r] = "receiving", home'[r] = home[r]
          PROVE  ~(home[r] = home[s] /\ Owner[r] = Owner[s])
      BY <1>2, <2>2, <3>2, <3>4 DEF Rivals
    <3>5. ASSUME NEW r \in Socket, handler[r] \in Settled, ~up'[r]
          PROVE  ~(home[r] = home[s] /\ Owner[r] = Owner[s])
      BY <1>2, <3>2, <3>5 DEF Rivals, Steady
    <3>6. ASSUME NEW n \in Replica, Crash(n) PROVE n # home[s]
      BY <1>2, <3>2, <3>6 DEF Crash, Steady
    <3>7. table'[home[s]][Owner[s]] = table[home[s]][Owner[s]]
      BY <1>0, <3>2, <3>4, <3>5, <3>6, TableSteps
    <3> QED
      BY <3>2, <3>3, <3>7
  <2> QED
    BY <2>1, <2>2
<1>3. LoneSocketIsListed'
  BY <1>2 DEF LoneSocketIsListed
<1> QED
  BY <1>1, <1>3

-----------------------------------------------------------------------------
(* Messages                                                                 *)

(* How a step changes who dispatches what. *)
LEMMA DispatchSteps ==
    ASSUME IInv, [Next]_vars, NEW n \in Replica
    PROVE  \/ UNCHANGED <<taken[n], next[n], target[n]>>
           \/ \E m \in Message : Take(n, m)
           \/ \E m \in Message : Sent(n, m) /\ taken'[n] = taken[n]
           \/ (\E m \in Message : Handled(n, m) \/ Rejected(n, m) \/ TooLate(n, m)) /\ target'[n] = None
           \/ Crash(n) /\ target'[n] = None
<1>0. ConsumersOK
  BY DEF IInv, TypeOK, ConsumersOK
<1>1. CASE UNCHANGED dispatching
  BY <1>1 DEF dispatching
<1>2. ASSUME NEW q \in Replica, NEW m \in Message, NEW from, NEW clients, GoesOn(q, m, from, clients), q # n
      PROVE  UNCHANGED <<next[n], target[n]>>
  BY <1>0, <1>2 DEF GoesOn, LoopEnds, ConsumersOK
<1>3. ASSUME NEW q \in Replica, NEW m \in Message, Take(q, m), q # n
      PROVE  UNCHANGED <<taken[n], next[n], target[n]>>
  BY <1>0, <1>2, <1>3 DEF Take, ConsumersOK
<1>4. ASSUME NEW q \in Replica, NEW m \in Message, Sent(q, m), q # n
      PROVE  UNCHANGED <<taken[n], next[n], target[n]>>
  BY <1>0, <1>2, <1>4 DEF Sent, ConsumersOK
<1>5. ASSUME NEW q \in Replica, Returns(q)
      PROVE  UNCHANGED <<taken[n], next[n], target[n]>> \/ (q = n /\ target'[n] = None)
  BY <1>0, <1>5 DEF Returns, LoopEnds, ConsumersOK
<1>6. ASSUME NEW q \in Replica, NEW m \in Message, Handled(q, m) \/ Rejected(q, m) \/ TooLate(q, m)
      PROVE  UNCHANGED <<taken[n], next[n], target[n]>> \/ (q = n /\ target'[n] = None)
  BY <1>5, <1>6 DEF Handled, Rejected, TooLate
<1>7. ASSUME NEW q \in Replica, Crash(q)
      PROVE  UNCHANGED <<taken[n], next[n], target[n]>> \/ (q = n /\ target'[n] = None)
  BY <1>5, <1>7 DEF Crash
<1>8. ASSUME NEW q \in Replica, Reconnect(q) \/ ConnectionLost(q) PROVE UNCHANGED dispatching
  BY <1>8 DEF Reconnect, ConnectionLost
<1>9. ASSUME NEW s \in Socket,
             Validate(s) \/ Disconnect(s) \/ Leave(s) \/ Break(s) \/ \E q \in Replica : Accept(s, q)
      PROVE  UNCHANGED dispatching
  BY <1>9 DEF Validate, Disconnect, Leave, Break, Accept
<1>10. ASSUME NEW m \in Message, Publish(m) PROVE UNCHANGED dispatching
  BY <1>10 DEF Publish
<1>11. ASSUME NEW m \in Message, Sent(n, m) PROVE taken'[n] = taken[n]
  BY <1>11 DEF Sent
<1>12. CASE UNCHANGED vars
  BY <1>1, <1>12 DEF vars
<1>13. CASE \E q \in Replica, m \in Message : Take(q, m)
  BY <1>3, <1>13
<1>14. CASE \E q \in Replica, m \in Message : Sent(q, m)
  BY <1>4, <1>11, <1>14
<1>15. CASE \E q \in Replica, m \in Message : Handled(q, m) \/ Rejected(q, m) \/ TooLate(q, m)
  BY <1>6, <1>15
<1>16. CASE \E q \in Replica : Crash(q)
  BY <1>7, <1>16
<1> QED
  BY <1>1, <1>8, <1>9, <1>10, <1>12, <1>13, <1>14, <1>15, <1>16 DEF Next, HandlerStep, ConsumerStep

(* How a step changes a message. *)
LEMMA MessageSteps ==
    ASSUME IInv, [Next]_vars, NEW m \in Message
    PROVE  \/ place'[m] = place[m] /\ owed'[m] \subseteq owed[m]
           \/ \E n \in Replica : Take(n, m)
           \/ place'[m] = "queued" /\ owed'[m] = owed[m]
           \/ \E n \in Replica : /\ Handled(n, m) \/ Rejected(n, m)
                                 /\ place'[m] \in {"handled", "rejected"} /\ owed'[m] = owed[m]
<1>0. MessagesOK
  BY DEF IInv, TypeOK, MessagesOK
<1>1. CASE UNCHANGED <<place, owed>>
  BY <1>1
<1>2. ASSUME NEW s \in Socket,
             Validate(s) \/ Disconnect(s) \/ Leave(s) \/ Break(s) \/ \E q \in Replica : Accept(s, q)
      PROVE  UNCHANGED <<place, owed>>
  BY <1>2 DEF Validate, Disconnect, Leave, Break, Accept
<1>3. ASSUME NEW n \in Replica, NEW k \in Message, Take(n, k), k # m
      PROVE  place'[m] = place[m] /\ owed'[m] = owed[m]
  BY <1>0, <1>3 DEF Take, MessagesOK
<1>4. ASSUME NEW n \in Replica, NEW k \in Message, Sent(n, k)
      PROVE  place'[m] = place[m] /\ owed'[m] \subseteq owed[m]
  BY <1>0, <1>4 DEF Sent, MessagesOK
<1>5. ASSUME NEW n \in Replica, NEW k \in Message, Handled(n, k) \/ Rejected(n, k)
      PROVE  /\ owed' = owed
             /\ (k # m /\ place'[m] = place[m]) \/ (k = m /\ place'[m] \in {"handled", "rejected"})
  BY <1>0, <1>5 DEF Handled, Rejected, MessagesOK
<1>6. ASSUME NEW n \in Replica, ConnectionLost(n) \/ Crash(n)
      PROVE  owed' = owed /\ (place'[m] = place[m] \/ place'[m] = "queued")
  BY <1>0, <1>6 DEF ConnectionLost, Crash, GoesBack, MessagesOK
<1>7. ASSUME NEW n \in Replica, NEW k \in Message, Reconnect(n) \/ TooLate(n, k)
      PROVE  UNCHANGED <<place, owed>>
  BY <1>7 DEF Reconnect, TooLate
<1>8. ASSUME NEW k \in Message, Publish(k) PROVE owed' = owed /\ (place'[m] = place[m] \/ place'[m] = "queued")
  BY <1>0, <1>8 DEF Publish, MessagesOK
<1>9. CASE UNCHANGED vars
  BY <1>1, <1>9 DEF vars
<1>10. CASE \E n \in Replica, k \in Message : Handled(n, k) \/ Rejected(n, k)
  BY <1>5, <1>10
<1>11. CASE \E n \in Replica : Reconnect(n)
  BY <1>7, <1>11, <1>1
<1>12. CASE \E n \in Replica, k \in Message : Take(n, k)
  BY <1>3, <1>12
<1>13. CASE \E n \in Replica, k \in Message : Sent(n, k)
  BY <1>4, <1>13
<1> QED
  BY <1>1, <1>2, <1>6, <1>7, <1>8, <1>9, <1>10, <1>11, <1>12, <1>13 DEF Next, HandlerStep, ConsumerStep

LEMMA ConsumingSteps ==
    ASSUME IInv, [Next]_vars, NEW n \in Replica
    PROVE  \/ consuming'[n] = consuming[n] \/ consuming'[n]
           \/ ConnectionLost(n) \/ Crash(n) \/ \E m \in Message : Rejected(n, m)
<1>0. consuming \in [Replica -> BOOLEAN]
  BY DEF IInv, TypeOK
<1>1. CASE UNCHANGED consuming
  BY <1>1
<1>2. ASSUME NEW s \in Socket,
             Validate(s) \/ Disconnect(s) \/ Leave(s) \/ Break(s) \/ \E q \in Replica : Accept(s, q)
      PROVE  UNCHANGED consuming
  BY <1>2 DEF Validate, Disconnect, Leave, Break, Accept
<1>3. ASSUME NEW q \in Replica, NEW m \in Message, Take(q, m) \/ Sent(q, m) \/ Handled(q, m) \/ TooLate(q, m)
      PROVE  UNCHANGED consuming
  BY <1>3 DEF Take, Sent, Handled, TooLate
<1>4. ASSUME NEW q \in Replica, NEW m \in Message, q # n,
             Rejected(q, m) \/ ConnectionLost(q) \/ Crash(q)
      PROVE  consuming'[n] = consuming[n]
  BY <1>0, <1>4 DEF Rejected, ConnectionLost, Crash
<1>5. ASSUME NEW q \in Replica, q # n, ConnectionLost(q) \/ Crash(q)
      PROVE  consuming'[n] = consuming[n]
  BY <1>0, <1>5 DEF ConnectionLost, Crash
<1>6. ASSUME NEW q \in Replica, Reconnect(q) PROVE consuming'[n] = consuming[n] \/ consuming'[n]
  BY <1>0, <1>6 DEF Reconnect
<1>7. ASSUME NEW m \in Message, Publish(m) PROVE UNCHANGED consuming
  BY <1>7 DEF Publish
<1>8. CASE UNCHANGED vars
  BY <1>8 DEF vars
<1> QED
  BY <1>1, <1>2, <1>3, <1>4, <1>5, <1>6, <1>7, <1>8 DEF Next, HandlerStep, ConsumerStep

(* The replica that holds a message goes on with it, and nothing takes it away. *)
LEMMA HolderGoesOn ==
    ASSUME IInv, [Next]_vars, NEW m \in Message, NEW n \in Replica,
           place[m] = n, place'[m] = n
    PROVE  /\ taken[n] = m /\ taken'[n] = m /\ consuming'[n]
           /\ UNCHANGED <<next[n], target[n]>> \/ Sent(n, m)
<1>0. MessagesOK /\ ConsumersOK /\ HolderDispatches
  BY DEF IInv, TypeOK, MessagesOK, ConsumersOK
<1>1. taken[n] = m /\ consuming[n] /\ m # None
  BY <1>0, NoneAssumption DEF HolderDispatches
<1>2. n \notin {"unsent", "queued", "handled", "rejected"}
  BY PlaceAssumption
<1>3. ASSUME NEW k \in Message PROVE ~Handled(n, k) /\ ~Rejected(n, k) /\ ~TooLate(n, k) /\ ~Take(n, k)
  BY <1>0, <1>1, <1>2 DEF Handled, Rejected, TooLate, Take, AllSent, MessagesOK
<1>4. ~Crash(n) /\ ~ConnectionLost(n)
  BY <1>0, <1>2 DEF Crash, ConnectionLost, GoesBack, MessagesOK
<1>5. consuming'[n]
  BY <1>1, <1>3, <1>4, ConsumingSteps
<1>6. ASSUME NEW k \in Message, Sent(n, k) PROVE k = m
  BY <1>1, <1>6 DEF Sent
<1> QED
  BY <1>1, <1>3, <1>4, <1>5, <1>6, DispatchSteps

LEMMA NextHolder == ASSUME IInv, [Next]_vars PROVE HolderDispatches'
<1> SUFFICES ASSUME NEW m \in Message, NEW n \in Replica, place'[m] = n
             PROVE  taken'[n] = m /\ consuming'[n]
  BY DEF HolderDispatches
<1>0. MessagesOK /\ ConsumersOK
  BY DEF IInv, TypeOK, MessagesOK, ConsumersOK
<1>1. CASE place[m] = n
  BY <1>1, HolderGoesOn
<1>2. CASE place[m] # n
  <2>1. n \notin {"unsent", "queued", "handled", "rejected"}
    BY PlaceAssumption
  <2>2. PICK k \in Replica : Take(k, m)
    BY <1>2, <2>1, MessageSteps
  <2> QED
    BY <1>0, <2>2 DEF Take, MessagesOK, ConsumersOK
<1> QED
  BY <1>1, <1>2

LEMMA NextTargets == ASSUME IInv, [Next]_vars PROVE TargetIsOwn'
<1> SUFFICES ASSUME NEW n \in Replica, target'[n] # None
             PROVE  home'[target'[n]] = n /\ handler'[target'[n]] \in Settled
  BY DEF TargetIsOwn
<1>0. /\ ConsumersOK /\ TargetIsOwn /\ TableIsOwn'
      /\ next \in [Replica -> Nat \ {0}] /\ target \in [Replica -> Socket \cup {None}]
  BY NextTables DEF IInv, TypeOK, ConsumersOK
<1>1. CASE target'[n] = target[n]
  <2> DEFINE s == target[n]
  <2>1. s \in Socket /\ home[s] = n /\ handler[s] \in Settled
    BY <1>0, <1>1 DEF TargetIsOwn
  <2> HIDE DEF s
  <2>2. home'[s] = n /\ handler'[s] \in Settled
    BY <2>1, SocketsSettle DEF Settled
  <2> QED
    BY <1>1, <2>2 DEF s
<1>2. ASSUME NEW m \in Message, NEW from \in Nat \ {0}, GoesOn(n, m, from, table'[n])
      PROVE  home'[target'[n]] = n /\ handler'[target'[n]] \in Settled
  <2>1. next'[n] \in 1 .. Len(Names[m]) /\ target'[n] = table'[n][Names[m][next'[n]]]
    BY <1>0, <1>2, GoesOnStops
  <2>2. Names[m][next'[n]] \in Player
    BY <2>1, NamesAreSequences
  <2> QED
    BY <1>0, <2>1, <2>2 DEF TableIsOwn
<1>3. CASE \E m \in Message : Take(n, m)
  <2>1. PICK m \in Message : GoesOn(n, m, 1, table'[n])
    BY <1>3 DEF Take
  <2>2. 1 \in Nat \ {0}
    OBVIOUS
  <2> QED
    BY <1>2, <2>1, <2>2
<1>4. CASE \E m \in Message : Sent(n, m)
  <2>1. PICK m \in Message : GoesOn(n, m, next[n] + 1, table'[n])
    BY <1>4 DEF Sent
  <2>2. next[n] + 1 \in Nat \ {0}
    BY <1>0
  <2> QED
    BY <1>2, <2>1, <2>2
<1> QED
  BY <1>1, <1>3, <1>4, DispatchSteps

LEMMA NextOwedAreSettled == ASSUME IInv, [Next]_vars PROVE OwedAreSettled'
<1> SUFFICES ASSUME NEW m \in Message, NEW s \in owed'[m] PROVE handler'[s] \in Settled
  BY DEF OwedAreSettled
<1>0. MessagesOK /\ OwedAreSettled
  BY DEF IInv, TypeOK, MessagesOK
<1>1. CASE s \in owed[m]
  <2>1. s \in Socket /\ handler[s] \in Settled
    BY <1>0, <1>1 DEF MessagesOK, OwedAreSettled
  <2> QED
    BY <2>1, SocketsSettle
<1>2. CASE \E n \in Replica : Take(n, m)
  <2>1. PICK n \in Replica : Take(n, m)
    BY <1>2
  <2>2. handler'[s] = "receiving"
    BY <1>0, <2>1 DEF Take, MessagesOK, Steady, sockets
  <2> QED
    BY <2>2 DEF Settled
<1> QED
  BY <1>1, <1>2, MessageSteps

LEMMA NextOwedAreAhead == ASSUME IInv, [Next]_vars PROVE OwedAreAhead'
<1> SUFFICES ASSUME NEW m \in Message, NEW n \in Replica, place'[m] = n, NEW s \in owed'[m]
             PROVE  /\ home'[s] = n
                    /\ Steady(s)' /\ Rivals(s)' = {} => Ahead(n, m, s)'
  BY DEF OwedAreAhead
<1>0. /\ MessagesOK /\ OwedAreSettled /\ OwedAreAhead /\ LoneSocketIsListed /\ LoneSocketIsListed'
      /\ next \in [Replica -> Nat \ {0}] /\ target \in [Replica -> Socket \cup {None}]
  BY NextTables DEF IInv, TypeOK, MessagesOK
<1>1. n \notin {"unsent", "queued", "handled", "rejected"}
  BY PlaceAssumption
<1>2. CASE place[m] = n /\ owed'[m] \subseteq owed[m]
  <2>1. s \in Socket /\ s \in owed[m] /\ handler[s] \in Settled /\ home[s] = n
    BY <1>0, <1>2 DEF MessagesOK, OwedAreSettled, OwedAreAhead
  <2>2. home'[s] = n
    BY <2>1, SocketsSettle DEF Settled
  <2>3. ASSUME Steady(s)', Rivals(s)' = {} PROVE Ahead(n, m, s)'
    <3>1. Ahead(n, m, s) /\ Steady(s)
      BY <1>0, <1>2, <2>1, <2>3, SteadyBefore DEF OwedAreAhead
    <3>2. CASE UNCHANGED <<next[n], target[n]>>
      BY <3>1, <3>2 DEF Ahead
    <3>3. CASE Sent(n, m)
      <4>1. PICK i \in Nat : /\ next[n] <= i /\ i <= Len(Names[m]) /\ Names[m][i] = Owner[s]
                             /\ i = next[n] => target[n] = s
        BY <3>1 DEF Ahead
      <4>2. i # next[n]
        BY <1>0, <3>1, <3>3, <4>1 DEF Sent, Steady, MessagesOK
      <4>3. next[n] + 1 \in Nat \ {0} /\ i \in (next[n] + 1) .. Len(Names[m])
        BY <1>0, <4>1, <4>2, NamesAreSequences
      <4>4. table'[n][Owner[s]] = s
        BY <1>0, <2>1, <2>2, <2>3 DEF LoneSocketIsListed
      <4>5. GoesOn(n, m, next[n] + 1, table'[n])
        BY <3>3 DEF Sent
      <4> QED
        BY <1>0, <2>1, <4>1, <4>3, <4>4, <4>5, GoesOnReaches
    <3> QED
      BY <1>2, <3>2, <3>3, HolderGoesOn
  <2> QED
    BY <2>2, <2>3
<1>3. CASE \E k \in Replica : Take(k, m)
  <2>1. PICK k \in Replica : Take(k, m)
    BY <1>3
  <2>2. /\ k = n /\ Take(n, m) /\ s \in Socket
        /\ Steady(s) /\ home[s] = n /\ Owner[s] \in Range(Names[m])
    BY <1>0, <2>1 DEF Take, MessagesOK
  <2>3. home'[s] = n
    BY <2>2 DEF Take, sockets
  <2>4. ASSUME Steady(s)', Rivals(s)' = {} PROVE Ahead(n, m, s)'
    <3>1. Rivals(s) = {}
      BY <2>2, <2>4, SteadyBefore DEF Steady, Settled
    <3>2. table[n][Owner[s]] = s
      BY <1>0, <2>2, <3>1 DEF LoneSocketIsListed
    <3>3. PICK i \in 1 .. Len(Names[m]) : Names[m][i] = Owner[s]
      BY <2>2, NamesAreSequences DEF Range
    <3>4. GoesOn(n, m, 1, table[n]) /\ 1 \in Nat \ {0}
      BY <2>2 DEF Take
    <3> QED
      BY <1>0, <2>2, <3>2, <3>3, <3>4, GoesOnReaches
  <2> QED
    BY <2>3, <2>4
<1> QED
  BY <1>1, <1>2, <1>3, MessageSteps

LEMMA NextSteadyHears == ASSUME IInv, [Next]_vars PROVE SteadySocketHears'
<1> SUFFICES ASSUME NEW m \in Message, place'[m] \in {"handled", "rejected"}, NEW s \in owed'[m],
                    Steady(s)', Rivals(s)' = {}
             PROVE  FALSE
  BY DEF SteadySocketHears
<1>0. MessagesOK /\ OwedAreSettled /\ OwedAreAhead /\ SteadySocketHears
  BY DEF IInv, TypeOK, MessagesOK
<1>1. ~\E n \in Replica : Take(n, m)
  BY <1>0, PlaceAssumption DEF Take, MessagesOK
<1>2. s \in owed[m]
  BY <1>1, MessageSteps
<1>3. Steady(s) /\ Rivals(s) = {}
  BY <1>0, <1>2, SteadyBefore DEF MessagesOK, OwedAreSettled
<1>4. CASE place'[m] = place[m]
  BY <1>0, <1>2, <1>3, <1>4 DEF SteadySocketHears
<1>5. CASE \E n \in Replica : Handled(n, m) \/ Rejected(n, m)
  <2>1. PICK n \in Replica : place[m] = n /\ target[n] = None
    BY <1>5 DEF Handled, Rejected, AllSent
  <2> QED
    BY <1>0, <1>2, <1>3, <2>1 DEF OwedAreAhead, Ahead
<1> QED
  BY <1>1, <1>4, <1>5, MessageSteps

-----------------------------------------------------------------------------
(* Results                                                                  *)

(* Tables, dispatches and messages agree: who has not heard, and is the     *)
(* only socket of its player, is listed and still to come.                  *)
THEOREM NotificationInvariant == Spec => []IInv
<1>1. ASSUME IInv, [Next]_vars PROVE IInv'
  <2>1. TypeOK'
    <3>1. SocketsOK' /\ MessagesOK' /\ ConsumersOK'
      BY <1>1, NextSocketsOK, NextMessagesOK, NextConsumersOK
    <3> QED
      BY <3>1, NotificationTypeParts
  <2>2. HomesAreReal' /\ TableIsOwn' /\ TargetIsOwn' /\ LoneSocketIsListed'
    BY <1>1, NextHomesAreReal, NextTables, NextTargets
  <2>3. HolderDispatches' /\ OwedAreSettled' /\ OwedAreAhead' /\ SteadySocketHears'
    BY <1>1, NextHolder, NextOwedAreSettled, NextOwedAreAhead, NextSteadyHears
  <2> QED
    BY <2>1, <2>2, <2>3 DEF IInv
<1> QED
  BY InitInvariant, <1>1, PTL DEF Spec

(* Handlers, tables, messages and consumers stay in their types.            *)
THEOREM NotificationTypeCorrect == Spec => []TypeOK
<1>1. IInv => TypeOK
  BY DEF IInv
<1> QED
  BY NotificationInvariant, <1>1, PTL

(* A client that was connected to the replica that took a message, and      *)
(* still is when the message is done with, has received it, unless another  *)
(* socket of its player came in its way; for any number of replicas,        *)
(* players, sockets, messages and faults.                                   *)
THEOREM SteadyHears == Spec => []SteadySocketHears
<1>1. IInv => SteadySocketHears
  BY DEF IInv
<1> QED
  BY NotificationInvariant, <1>1, PTL
=============================================================================
