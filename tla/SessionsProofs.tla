--------------------------- MODULE SessionsProofs ---------------------------
(* Proofs about Sessions: which token counts, and which joins are dropped. *)
EXTENDS Sessions, TLAPS

Issuing == {"register", "login", "refresh"}

(* A call carries what its operation needs. *)
CallsAreReal ==
    \A r \in Request :
        LET c == request[r]
        IN  /\ c.pc # "new" => c.player \in Player /\ c.op \in Op
            /\ c.pc = "begin" /\ c.op \in {"refresh", "logout", "join"} =>
                   c.token \in Token /\ c.token.player = c.player
            /\ c.pc \in {"issue", "store"} => c.op \in Issuing
            /\ c.pc = "store" => c.token \in Token /\ c.token.player = c.player /\ c.token.iat <= now
            /\ c.pc \in {"queued", "dropped"} => /\ c.op = "join"
                                                 /\ c.token \in Token /\ c.token.player = c.player

(* The key in Redis outlives the token in it. *)
SessionOutlivesToken ==
    \A p \in Player : current[p] # None => /\ current[p].token.player = p
                                           /\ current[p].until >= current[p].token.iat + Lifetime

(* What was settled is what Redis holds. *)
ExpectedIsCurrent ==
    \A p \in Player :
        /\ expected[p] = None => current[p] = None
        /\ expected[p] \in Token => /\ current[p] # None /\ current[p].token = expected[p]
                                    /\ expected[p] \in given

(* Nothing changes a session on which an undisturbed join relies. *)
JoinsStand ==
    /\ \A r \in alone : request[r].pc # "new"
    /\ \A r \in alone, p \in Player : request[r].op = "join" /\ request[r].player = p =>
           /\ request[r].pc \in {"begin", "queued"} => Changes(p) = {}
           /\ request[r].pc = "queued" => current[p] # None /\ current[p].token = request[r].token

Inv == /\ TypeOK /\ CallsAreReal /\ SessionOutlivesToken
       /\ ExpectedIsCurrent /\ JoinsStand /\ OnlyNewCallsRefuseJoins

-----------------------------------------------------------------------------
(* The initial states: no call, no session. *)
LEMMA InitInv == Init => Inv
<1> SUFFICES ASSUME Init PROVE Inv
  OBVIOUS
<1> USE NoneAssumption, TimeAssumption, RecordAssumption DEF Init
<1>1. TypeOK
  BY DEF TypeOK, Call, Op, Changing, PC
<1>2. CallsAreReal
  BY DEF CallsAreReal, Call
<1>3. SessionOutlivesToken /\ ExpectedIsCurrent
  BY DEF SessionOutlivesToken, ExpectedIsCurrent
<1>4. JoinsStand /\ OnlyNewCallsRefuseJoins
  BY DEF JoinsStand, OnlyNewCallsRefuseJoins, Call
<1> QED
  BY <1>1, <1>2, <1>3, <1>4 DEF Inv

(* Types. *)
LEMMA NextTypeOK == ASSUME TypeOK, CallsAreReal, [Next]_vars PROVE TypeOK'
<1> USE NoneAssumption, TimeAssumption, RecordAssumption
<1>1. CASE UNCHANGED vars
  BY <1>1 DEF TypeOK, vars, Token, Session
<1>2. CASE Tick
  BY <1>2 DEF Tick, TypeOK, Token, Session
<1>3. ASSUME NEW r \in Request, Arrive(r) PROVE TypeOK'
  <2>1. PICK op \in Op, p \in Player, t \in Token \cup {None} : Begin(r, op, p, t)
    BY <1>3 DEF Arrive, Op, Changing, TypeOK, Token
  <2>2. Call(op, p, t, "begin") \in [op : Op \cup {None}, player : Player \cup {None},
                                     token : Token \cup {None}, pc : PC]
    BY DEF Call, PC
  <2>3. request' \in [Request -> [op : Op \cup {None}, player : Player \cup {None},
                                  token : Token \cup {None}, pc : PC]]
    BY <2>1, <2>2 DEF Begin, TypeOK
  <2>4. alone' \subseteq Request
    BY <2>1 DEF Begin, TypeOK
  <2> QED
    BY <2>1, <2>3, <2>4 DEF Begin, TypeOK, NoFault, Token, Session
<1>4. ASSUME NEW r \in Request, Step(r) PROVE TypeOK'
  <2> DEFINE Requests == [op : Op \cup {None}, player : Player \cup {None},
                          token : Token \cup {None}, pc : PC]
  <2>0. ASSUME NEW x \in PC, To(r, x) PROVE request' \in [Request -> Requests]
    BY <2>0 DEF To, TypeOK
  <2>1. CASE CreatePlayer(r)
    <3>1. request' \in [Request -> Requests]
      BY <2>0, <2>1 DEF CreatePlayer, Refuse, PC
    <3>2. registered' \subseteq Player
      BY <2>1 DEF CreatePlayer, Refuse, TypeOK, CallsAreReal
    <3> QED
      BY <3>1, <3>2, <2>1 DEF CreatePlayer, Refuse, TypeOK, NoFault, Token, Session
  <2>2. CASE Check(r)
    <3>1. request' \in [Request -> Requests]
      BY <2>0, <2>2 DEF Check, Refuse, PC
    <3> QED
      BY <3>1, <2>2 DEF Check, Refuse, TypeOK, NoFault, Token, Session
  <2>3. CASE CreateToken(r)
    <3>1. [player |-> request[r].player, iat |-> now] \in Token
      BY <2>3 DEF CreateToken, CallsAreReal, TypeOK, Token
    <3>2. ASSUME NEW c \in Requests, NEW t \in Token
          PROVE  [c EXCEPT !.pc = "store", !.token = t] \in Requests
      BY DEF PC
    <3>3. request[r] \in Requests
      BY DEF TypeOK
    <3>4. request' = [request EXCEPT ![r] = [request[r] EXCEPT !.pc = "store",
                          !.token = [player |-> request[r].player, iat |-> now]]]
      BY <2>3, <3>3 DEF CreateToken, TypeOK
    <3>5. request' \in [Request -> Requests]
      BY <3>1, <3>2, <3>3, <3>4 DEF TypeOK
    <3> QED
      BY <3>5, <2>3 DEF CreateToken, TypeOK, NoFault, Token, Session
  <2>4. ASSUME SetSession(r), request[r].pc = "store" PROVE current' \in [Player -> Session \cup {None}]
    BY <2>4 DEF SetSession, Expiry, CallsAreReal, TypeOK, Session
  <2>5. ASSUME request[r].pc \in {"store", "begin"}, NEW x \in Token \cup {None},
               Expect(r, x)
        PROVE expected' \in [Player -> Token \cup {None, Unclear}]
    BY <2>5 DEF Expect, TypeOK
  <2>6. CASE StoreSession(r)
    <3>1. request' \in [Request -> Requests] /\ current' \in [Player -> Session \cup {None}]
      BY <2>0, <2>4, <2>6 DEF StoreSession, PC
    <3>2. request[r].token \in Token
      BY <2>6 DEF StoreSession, CallsAreReal
    <3>3. expected' \in [Player -> Token \cup {None, Unclear}] /\ given' \subseteq Token
      BY <3>2, <2>5, <2>6 DEF StoreSession, TypeOK
    <3> QED
      BY <3>1, <3>3, <2>6 DEF StoreSession, TypeOK, NoFault, Token, Session
  <2>7. CASE StoreFails(r)
    <3>1. request' \in [Request -> Requests]
      BY <2>0, <2>7 DEF StoreFails, PC
    <3>2. current' \in [Player -> Session \cup {None}]
      BY <2>4, <2>7 DEF StoreFails, TypeOK
    <3>3. expected' \in [Player -> Token \cup {None, Unclear}]
      BY <2>7 DEF StoreFails, TypeOK
    <3> QED
      BY <3>1, <3>2, <3>3, <2>7 DEF StoreFails, TypeOK, Fault, Token, Session
  <2>8. CASE Logout(r)
    <3>1. request' \in [Request -> Requests]
      BY <2>0, <2>8 DEF Logout, Refuse, PC
    <3>2. current' \in [Player -> Session \cup {None}]
      BY <2>8 DEF Logout, Refuse, TypeOK
    <3>3. expected' \in [Player -> Token \cup {None, Unclear}]
      BY <2>5, <2>8 DEF Logout, Refuse, TypeOK
    <3> QED
      BY <3>1, <3>2, <3>3, <2>8 DEF Logout, Refuse, TypeOK, NoFault, Token, Session
  <2>9. CASE Queue(r)
    <3>1. request' \in [Request -> Requests]
      BY <2>0, <2>9 DEF Queue, Refuse, PC
    <3>2. since' \in [Request -> 0 .. MaxTime]
      BY <2>9 DEF Queue, Refuse, TypeOK
    <3> QED
      BY <3>1, <3>2, <2>9 DEF Queue, Refuse, TypeOK, NoFault, Token, Session
  <2>10. CASE QueueLoses(r) \/ Expire(r) \/ Consume(r) \/ ConsumeFails(r) \/ BeginFails(r)
    <3>1. request' \in [Request -> Requests]
      BY <2>0, <2>10 DEF QueueLoses, Expire, Consume, ConsumeFails, BeginFails, PC
    <3> QED
      BY <3>1, <2>10 DEF QueueLoses, Expire, Consume, ConsumeFails, BeginFails, TypeOK, Fault, NoFault,
         Token, Session
  <2>11. CASE CreatePlayerFails(r)
    <3>1. request' \in [Request -> Requests]
      BY <2>0, <2>11 DEF CreatePlayerFails, PC
    <3>2. registered' \subseteq Player
      BY <2>11 DEF CreatePlayerFails, TypeOK, CallsAreReal
    <3> QED
      BY <3>1, <3>2, <2>11 DEF CreatePlayerFails, TypeOK, Fault, Token, Session
  <2>12. CASE LogoutFails(r)
    <3>1. request' \in [Request -> Requests]
      BY <2>0, <2>12 DEF LogoutFails, PC
    <3>2. current' \in [Player -> Session \cup {None}]
      BY <2>12 DEF LogoutFails, TypeOK
    <3>3. expected' \in [Player -> Token \cup {None, Unclear}]
      BY <2>12 DEF LogoutFails, TypeOK
    <3> QED
      BY <3>1, <3>2, <3>3, <2>12 DEF LogoutFails, TypeOK, Fault, Token, Session
  <2> QED
    BY <1>4, <2>1, <2>2, <2>3, <2>6, <2>7, <2>8, <2>9, <2>10, <2>11, <2>12 DEF Step
<1> QED
  BY <1>1, <1>2, <1>3, <1>4 DEF Next

-----------------------------------------------------------------------------
(* Calls: only the calls that a step is about move. *)
LEMMA NextCallsAreReal == ASSUME TypeOK, CallsAreReal, [Next]_vars PROVE CallsAreReal'
<1> USE NoneAssumption, TimeAssumption, RecordAssumption
<1>1. CASE UNCHANGED vars
  BY <1>1 DEF CallsAreReal, vars
<1>2. CASE Tick
  BY <1>2 DEF Tick, CallsAreReal, TypeOK, Token
<1>3. ASSUME NEW r \in Request, Arrive(r) PROVE CallsAreReal'
  <2>1. CASE \E p \in Player, op \in {"register", "login"} : Begin(r, op, p, None)
    <3>1. PICK p \in Player, op \in {"register", "login"} : Begin(r, op, p, None)
      BY <2>1
    <3> QED
      BY <3>1 DEF Begin, Call, CallsAreReal, TypeOK, Op, Changing
  <2>2. CASE \E t \in given, op \in {"refresh", "logout", "join"} : Begin(r, op, t.player, t)
    <3>1. PICK t \in given, op \in {"refresh", "logout", "join"} : Begin(r, op, t.player, t)
      BY <2>2
    <3>2. t \in Token /\ t.player \in Player
      BY DEF TypeOK, Token
    <3> QED
      BY <3>1, <3>2 DEF Begin, Call, CallsAreReal, TypeOK, Op, Changing
  <2> QED
    BY <1>3, <2>1, <2>2 DEF Arrive
<1>4. ASSUME NEW r \in Request, Step(r) PROVE CallsAreReal'
  <2>1. CASE CreatePlayer(r)
    BY <2>1 DEF CreatePlayer, Refuse, To, CallsAreReal, TypeOK, Issuing
  <2>2. CASE Check(r)
    BY <2>2 DEF Check, Refuse, To, CallsAreReal, TypeOK, Issuing
  <2>3. CASE CreateToken(r)
    <3>1. [player |-> request[r].player, iat |-> now] \in Token
      BY <2>3 DEF CreateToken, CallsAreReal, TypeOK, Token
    <3> QED
      BY <3>1, <2>3 DEF CreateToken, CallsAreReal, TypeOK
  <2>4. CASE StoreSession(r) \/ StoreFails(r) \/ Logout(r)
    BY <2>4 DEF StoreSession, StoreFails, Logout, Refuse, To, CallsAreReal, TypeOK
  <2>7. CASE LogoutFails(r) \/ CreatePlayerFails(r) \/ BeginFails(r)
    BY <2>7 DEF LogoutFails, CreatePlayerFails, BeginFails, To, CallsAreReal, TypeOK
  <2>5. CASE Queue(r)
    BY <2>5 DEF Queue, Refuse, To, CallsAreReal, TypeOK
  <2>6. CASE QueueLoses(r) \/ Expire(r) \/ Consume(r) \/ ConsumeFails(r)
    BY <2>6 DEF QueueLoses, Expire, Consume, ConsumeFails, To, CallsAreReal, TypeOK
  <2> QED
    BY <1>4, <2>1, <2>2, <2>3, <2>4, <2>5, <2>6, <2>7 DEF Step
<1> QED
  BY <1>1, <1>2, <1>3, <1>4 DEF Next

-----------------------------------------------------------------------------
(* Sessions: only the end of a store, or a logout, changes one.             *)

SessionStep(r) == StoreSession(r) \/ StoreFails(r) \/ Logout(r) \/ LogoutFails(r)

LEMMA OtherStepsKeepSessions ==
    ASSUME Next, \A r \in Request : ~SessionStep(r)
    PROVE  current' = current /\ expected' = expected /\ given' = given
BY DEF Next, Tick, Arrive, Begin, Step, SessionStep, CreatePlayer, CreatePlayerFails, BeginFails,
       Check, CreateToken, Queue, QueueLoses, Expire, Consume, ConsumeFails, Refuse

(* The session of a call is stored, whatever its client then expects of it. *)
LEMMA StoringKeepsSessions ==
    ASSUME Inv, NEW r \in Request, request[r].pc = "store", SetSession(r),
           NEW x, x = Unclear \/ x = request[r].token,
           expected' = [expected EXCEPT ![request[r].player] = x],
           given \subseteq given', x = Unclear \/ x \in given'
    PROVE  SessionOutlivesToken' /\ ExpectedIsCurrent'
<1> USE NoneAssumption, TimeAssumption, RecordAssumption DEF Inv
<1> DEFINE p == request[r].player
           t == request[r].token
           s == [token |-> t, until |-> now + Lifetime]
<1>1. p \in Player /\ t \in Token /\ t.player = p /\ t.iat <= now
  BY DEF CallsAreReal
<1>2. current' = [current EXCEPT ![p] = s]
  BY DEF SetSession, Expiry
<1>3. s \in Session /\ s # None
  BY <1>1 DEF Session, TypeOK
<1>4. s.token = t /\ s.until >= t.iat + Lifetime
  BY <1>1 DEF TypeOK, Token
<1>5. SessionOutlivesToken'
  BY <1>1, <1>2, <1>3, <1>4 DEF SessionOutlivesToken, TypeOK
<1>6. x # None /\ (x \in Token => x = t)
  BY <1>1
<1>7. ASSUME NEW q \in Player
      PROVE  /\ expected'[q] = None => current'[q] = None
             /\ expected'[q] \in Token => /\ current'[q] # None
                                          /\ current'[q].token = expected'[q]
                                          /\ expected'[q] \in given'
  <2>1. CASE q = p
    BY <1>1, <1>2, <1>3, <1>4, <1>6, <2>1 DEF TypeOK
  <2>2. CASE q # p
    BY <1>1, <1>2, <2>2 DEF TypeOK, ExpectedIsCurrent
  <2> QED
    BY <2>1, <2>2
<1>8. ExpectedIsCurrent'
  BY <1>7 DEF ExpectedIsCurrent
<1> HIDE DEF p, t, s
<1> QED
  BY <1>5, <1>8

LEMMA NextSessions ==
    ASSUME Inv, [Next]_vars PROVE SessionOutlivesToken' /\ ExpectedIsCurrent'
<1> USE NoneAssumption, TimeAssumption, RecordAssumption DEF Inv
<1>1. CASE UNCHANGED vars
  BY <1>1 DEF SessionOutlivesToken, ExpectedIsCurrent, vars
<1>2. CASE Next /\ \A r \in Request : ~SessionStep(r)
  BY <1>2, OtherStepsKeepSessions DEF SessionOutlivesToken, ExpectedIsCurrent
<1>3. ASSUME NEW r \in Request, StoreSession(r) PROVE SessionOutlivesToken' /\ ExpectedIsCurrent'
  <2> DEFINE x == IF r \in alone THEN request[r].token ELSE Unclear
  <2>1. /\ request[r].pc = "store" /\ SetSession(r)
        /\ expected' = [expected EXCEPT ![request[r].player] = x]
        /\ given \subseteq given' /\ request[r].token \in given'
    BY <1>3 DEF StoreSession, Expect
  <2>2. (x = Unclear \/ x = request[r].token) /\ (x = Unclear \/ x \in given')
    BY <2>1
  <2> HIDE DEF x
  <2> QED
    BY <2>1, <2>2, StoringKeepsSessions
<1>4. ASSUME NEW r \in Request, StoreFails(r) PROVE SessionOutlivesToken' /\ ExpectedIsCurrent'
  <2>1. CASE SetSession(r)
    <3>1. /\ request[r].pc = "store"
          /\ expected' = [expected EXCEPT ![request[r].player] = Unclear]
          /\ given \subseteq given'
      BY <1>4 DEF StoreFails
    <3> QED
      BY <2>1, <3>1, StoringKeepsSessions
  <2>2. CASE UNCHANGED current
    BY <1>4, <2>2 DEF StoreFails, SessionOutlivesToken, ExpectedIsCurrent, TypeOK
  <2> QED
    BY <1>4, <2>1, <2>2 DEF StoreFails
<1>5. ASSUME NEW r \in Request, Logout(r) PROVE SessionOutlivesToken' /\ ExpectedIsCurrent'
  <2>1. request[r].player \in Player
    BY <1>5 DEF Logout, CallsAreReal
  <2> QED
    BY <1>5, <2>1 DEF Logout, Refuse, Expect, SessionOutlivesToken, ExpectedIsCurrent, TypeOK
<1>6. ASSUME NEW r \in Request, LogoutFails(r) PROVE SessionOutlivesToken' /\ ExpectedIsCurrent'
  <2>1. request[r].player \in Player
    BY <1>6 DEF LogoutFails, CallsAreReal
  <2> QED
    BY <1>6, <2>1 DEF LogoutFails, SessionOutlivesToken, ExpectedIsCurrent, TypeOK
<1> QED
  BY <1>1, <1>2, <1>3, <1>4, <1>5, <1>6 DEF SessionStep

-----------------------------------------------------------------------------
(* Joins                                                                    *)

(* A step is of one call; if it changes a session, the call is among Changes. *)
LEMMA StepShape ==
    ASSUME Inv, NEW r \in Request, Step(r)
    PROVE  /\ alone' = alone /\ now' = now
           /\ \A q \in Request \ {r} : request'[q] = request[q]
           /\ request'[r].op = request[r].op /\ request'[r].player = request[r].player
           /\ request[r].op # "join" => /\ r \in Changes(request[r].player)
                                        /\ request'[r].pc \notin {"queued", "dropped", "new"}
           /\ request[r].op = "join" => /\ current' = current
                                        /\ request'[r].token = request[r].token
                                        /\ request'[r].pc \notin {"begin", "new"}
           /\ \A p \in Player \ {request[r].player} : current'[p] = current[p]
<1> USE DEF Inv
<1>0. request[r].op # "join" /\ request[r].op \in Op => request[r].op \in Changing
  BY DEF Op
<1>1. CASE CreatePlayer(r)
  BY <1>1 DEF CreatePlayer, Refuse, To, TypeOK, Changes, Changing
<1>2. CASE Check(r)
  BY <1>2 DEF Check, Refuse, To, TypeOK, Changes, Changing
<1>3. CASE CreateToken(r)
  BY <1>3 DEF CreateToken, TypeOK, Changes, Changing, CallsAreReal, Issuing
<1>4. CASE StoreSession(r) \/ StoreFails(r)
  BY <1>4 DEF StoreSession, StoreFails, SetSession, To, TypeOK, Changes, Changing, CallsAreReal, Issuing
<1>5. CASE Logout(r)
  BY <1>5 DEF Logout, Refuse, To, TypeOK, Changes, Changing
<1>6. CASE Queue(r)
  BY <1>6 DEF Queue, Refuse, To, TypeOK
<1>7. CASE QueueLoses(r) \/ Expire(r) \/ Consume(r) \/ ConsumeFails(r)
  BY <1>7 DEF QueueLoses, Expire, Consume, ConsumeFails, To, TypeOK, CallsAreReal
<1>8. CASE CreatePlayerFails(r) \/ LogoutFails(r)
  BY <1>8 DEF CreatePlayerFails, LogoutFails, To, TypeOK, Changes, Changing
<1>9. CASE BeginFails(r)
  BY <1>0, <1>9 DEF BeginFails, To, TypeOK, Changes, CallsAreReal
<1> QED
  BY <1>1, <1>2, <1>3, <1>4, <1>5, <1>6, <1>7, <1>8, <1>9 DEF Step

(* No step brings a call among Changes. *)
LEMMA StepEndsChanges ==
    ASSUME Inv, NEW r \in Request, Step(r), NEW p PROVE Changes(p)' \subseteq Changes(p)
<1>1. ASSUME NEW q \in Changes(p)' PROVE q \in Changes(p)
  <2>1. q \in Request /\ request'[q].player = p /\ request'[q].op \in Changing
        /\ request'[q].pc \in {"begin", "issue", "store"}
    BY <1>1 DEF Changes
  <2>2. CASE q = r
    <3>1. request[r].op # "join"
      BY <2>1, <2>2, StepShape DEF Changing
    <3> QED
      BY <2>1, <2>2, <3>1, StepShape
  <2>3. CASE q # r
    BY <2>1, <2>3, StepShape DEF Changes
  <2> QED
    BY <2>2, <2>3
<1> QED
  BY <1>1

(* Whoever joins with a token that is accepted has the session of that token. *)
LEMMA AcceptedIsCurrent ==
    ASSUME TypeOK, NEW t \in Token, Accepts(t)
    PROVE  current[t.player] # None /\ current[t.player].token = t
BY RecordAssumption DEF Accepts, CurrentToken

LEMMA NextJoinsStand == ASSUME Inv, [Next]_vars PROVE JoinsStand'
<1> USE NoneAssumption, TimeAssumption, RecordAssumption DEF Inv
<1>1. CASE UNCHANGED vars
  BY <1>1 DEF JoinsStand, Changes, vars
<1>2. CASE Tick
  BY <1>2 DEF Tick, JoinsStand, Changes
<1>3. ASSUME NEW q \in Request, NEW op \in Op, NEW o \in Player, NEW t, Begin(q, op, o, t)
      PROVE  JoinsStand'
  <2>1. /\ request[q].pc = "new" /\ q \notin alone
        /\ current' = current
        /\ request'[q] = Call(op, o, t, "begin")
        /\ \A x \in Request \ {q} : request'[x] = request[x]
    BY <1>3 DEF Begin, JoinsStand, TypeOK
  <2>2. ASSUME NEW r \in alone', r # q
        PROVE  r \in alone /\ r \in Request /\ (op \in Changing => r \notin Joins(o))
    BY <1>3, <2>2 DEF Begin, TypeOK
  <2>3. ASSUME q \in alone', op = "join" PROVE Changes(o) = {}
    BY <1>3, <2>1, <2>3 DEF Begin, Changing
  <2>4. ASSUME NEW x, op \notin Changing \/ x # o PROVE Changes(x)' \subseteq Changes(x)
    BY <2>1, <2>4 DEF Changes, Call
  <2>5. ASSUME NEW r \in alone' PROVE request'[r].pc # "new"
    BY <2>1, <2>2 DEF JoinsStand, Call
  <2>6. ASSUME NEW r \in alone', NEW p \in Player,
               request'[r].op = "join", request'[r].player = p, request'[r].pc \in {"begin", "queued"}
        PROVE  /\ Changes(p)' = {}
               /\ request'[r].pc = "queued" => current'[p] # None /\ current'[p].token = request'[r].token
    <3>1. CASE r = q
      BY <2>1, <2>3, <2>4, <2>6, <3>1 DEF Call, Changing
    <3>2. CASE r # q
      <4>1. r \in alone /\ r \in Request /\ (op \in Changing => r \notin Joins(o))
        BY <2>2, <2>6, <3>2
      <4>2. request'[r] = request[r]
        BY <2>1, <3>2, <4>1
      <4>3. op \notin Changing \/ p # o
        BY <2>6, <4>1, <4>2 DEF Joins
      <4>4. Changes(p) = {}
        BY <2>6, <4>1, <4>2 DEF JoinsStand
      <4>5. Changes(p)' = {}
        BY <2>4, <4>3, <4>4
      <4> QED
        BY <2>1, <2>6, <4>1, <4>2, <4>5 DEF JoinsStand
    <3> QED
      BY <3>1, <3>2
  <2> QED
    BY <2>5, <2>6 DEF JoinsStand
<1>4. ASSUME NEW q \in Request, Step(q) PROVE JoinsStand'
  <2>1. ASSUME NEW r \in alone' PROVE r \in alone /\ r \in Request /\ request'[r].pc # "new"
    BY <1>4, StepShape, <2>1 DEF TypeOK, JoinsStand
  <2>2. ASSUME NEW r \in alone', NEW p \in Player,
               request'[r].op = "join", request'[r].player = p, request'[r].pc \in {"begin", "queued"}
        PROVE  /\ Changes(p)' = {}
               /\ request'[r].pc = "queued" => current'[p] # None /\ current'[p].token = request'[r].token
    <3>1. r \in alone /\ r \in Request
      BY <2>1, <2>2
    <3>2. request[r].op = "join" /\ request[r].player = p
      BY <1>4, StepShape, <2>2, <3>1
    <3>3. CASE r = q
      <4>1. /\ request'[r].pc = "queued" /\ request'[r].token = request[r].token
            /\ current' = current
        BY <1>4, StepShape, <2>2, <3>2, <3>3
      <4>2. request[r].pc = "begin" /\ Accepts(request[r].token)
        BY <1>4, <3>3, <4>1 DEF Step, CreatePlayer, CreatePlayerFails, BeginFails,
           Check, CreateToken, StoreSession, StoreFails, Logout, LogoutFails,
           Queue, QueueLoses, Expire, Consume, ConsumeFails, Refuse, To, TypeOK
      <4>3. request[r].token \in Token /\ request[r].token.player = p
        BY <3>1, <3>2, <4>2 DEF CallsAreReal
      <4>4. current[p] # None /\ current[p].token = request[r].token
        BY <4>2, <4>3, AcceptedIsCurrent
      <4>5. Changes(p) = {}
        BY <3>1, <3>2, <4>2 DEF JoinsStand
      <4>6. Changes(p)' = {}
        BY <1>4, StepEndsChanges, <4>5
      <4> QED
        BY <4>1, <4>4, <4>6
    <3>4. CASE r # q
      <4>1. request'[r] = request[r]
        BY <1>4, StepShape, <3>1, <3>4
      <4>2. Changes(p) = {}
        BY <2>2, <3>1, <4>1 DEF JoinsStand
      <4>3. Changes(p)' = {}
        BY <1>4, StepEndsChanges, <4>2
      <4>4. request[q].op = "join" \/ request[q].player # p
        BY <1>4, StepShape, <4>2
      <4>5. current'[p] = current[p]
        BY <1>4, StepShape, <4>4
      <4> QED
        BY <2>2, <3>1, <4>1, <4>3, <4>5 DEF JoinsStand
    <3> QED
      BY <3>3, <3>4
  <2> QED
    BY <2>1, <2>2 DEF JoinsStand
<1>5. ASSUME NEW q \in Request, Arrive(q) PROVE JoinsStand'
  <2>1. PICK op \in Op, p \in Player, t \in Token \cup {None} : Begin(q, op, p, t)
    BY <1>5 DEF Arrive, Op, Changing, TypeOK, Token
  <2> QED
    BY <1>3, <2>1
<1> QED
  BY <1>1, <1>2, <1>4, <1>5 DEF Next

(* A join that nothing disturbed is dropped when its token has expired. *)
LEMMA NextOnlyNewCallsRefuse == ASSUME Inv, [Next]_vars PROVE OnlyNewCallsRefuseJoins'
<1> USE NoneAssumption, TimeAssumption, RecordAssumption DEF Inv
<1>1. CASE UNCHANGED vars
  BY <1>1 DEF OnlyNewCallsRefuseJoins, Decodes, vars
<1>2. CASE Tick
  <2>1. ASSUME NEW t \in Token, ~Decodes(t) PROVE ~Decodes(t)'
    BY <1>2, <2>1 DEF Tick, Decodes, TypeOK, Token
  <2>2. ASSUME NEW r \in alone, request[r].pc = "dropped" PROVE request[r].token \in Token
    BY <2>2 DEF CallsAreReal, TypeOK
  <2> QED
    BY <1>2, <2>1, <2>2 DEF Tick, OnlyNewCallsRefuseJoins, Decodes
<1>3. ASSUME NEW q \in Request, Arrive(q) PROVE OnlyNewCallsRefuseJoins'
  <2>1. PICK op \in Op, p \in Player, t \in Token \cup {None} : Begin(q, op, p, t)
    BY <1>3 DEF Arrive, Op, Changing, TypeOK, Token
  <2>2. now' = now /\ \A r \in alone' : r = q \/ r \in alone
    BY <2>1 DEF Begin
  <2>3. request'[q].pc = "begin" /\ \A r \in Request \ {q} : request'[r] = request[r]
    BY <2>1 DEF Begin, Call, TypeOK
  <2>4. alone' \subseteq Request
    BY <2>1 DEF Begin, TypeOK
  <2> QED
    BY <2>2, <2>3, <2>4 DEF OnlyNewCallsRefuseJoins, Decodes
<1>4. ASSUME NEW q \in Request, Step(q) PROVE OnlyNewCallsRefuseJoins'
  <2>1. ASSUME NEW r \in Request, request'[r].pc = "dropped", r \in alone'
        PROVE  ~(now' < request'[r].token.iat + Lifetime)
    <3>0. now' = now /\ r \in alone
      BY <1>4, StepShape, <2>1
    <3>1. CASE r # q
      <4>1. request'[r] = request[r]
        BY <1>4, StepShape, <3>1
      <4> QED
        BY <2>1, <3>0, <4>1 DEF OnlyNewCallsRefuseJoins, Decodes
    <3>2. CASE r = q
      <4>1. request[q].pc = "queued" /\ ~Accepts(request[q].token) /\ request'[q].token = request[q].token
        BY <1>4, <2>1, <3>2 DEF Step, CreatePlayer, CreatePlayerFails, BeginFails,
           Check, CreateToken, StoreSession, StoreFails, Logout, LogoutFails,
           Queue, QueueLoses, Expire, Consume, ConsumeFails, Refuse, To, TypeOK
      <4> DEFINE t == request[q].token
                 s == current[t.player]
      <4>2. t \in Token /\ t.player = request[q].player /\ t.player \in Player
        BY <4>1 DEF CallsAreReal, Token
      <4>3. s # None /\ s.token = t
        BY <3>0, <3>2, <4>1, <4>2 DEF JoinsStand, CallsAreReal
      <4>4. s.until >= t.iat + Lifetime /\ s.until \in Nat /\ t.iat \in Nat /\ now \in Nat
        BY <4>2, <4>3 DEF SessionOutlivesToken, TypeOK, Session, Token
      <4>5. ~(now < t.iat + Lifetime)
        BY <4>1, <4>2, <4>3, <4>4 DEF Accepts, Decodes, CurrentToken
      <4> HIDE DEF t, s
      <4> QED
        BY <3>0, <3>2, <4>1, <4>5 DEF t
    <3> QED
      BY <3>1, <3>2
  <2>2. alone' \subseteq Request
    BY <1>4, StepShape DEF TypeOK
  <2> QED
    BY <2>1, <2>2 DEF OnlyNewCallsRefuseJoins, Decodes
<1> QED
  BY <1>1, <1>2, <1>3, <1>4 DEF Next

-----------------------------------------------------------------------------
(* Results                                                                  *)

(* Calls carry what they need, a session outlives its token, what calls     *)
(* settled is what Redis holds, and undisturbed joins keep their session.   *)
THEOREM SessionsInvariant == Spec => []Inv
<1>1. ASSUME Inv, [Next]_vars PROVE Inv'
  <2>1. TypeOK' /\ CallsAreReal'
    BY <1>1, NextTypeOK, NextCallsAreReal DEF Inv
  <2>2. SessionOutlivesToken' /\ ExpectedIsCurrent'
    BY <1>1, NextSessions
  <2>3. JoinsStand' /\ OnlyNewCallsRefuseJoins'
    BY <1>1, NextJoinsStand, NextOnlyNewCallsRefuse
  <2> QED
    BY <2>1, <2>2, <2>3 DEF Inv
<1> QED
  BY InitInv, <1>1, PTL DEF Spec

(* Every variable stays in its type: calls are of known operations, at      *)
(* known places, with tokens of known players.                              *)
THEOREM SessionsTypeCorrect == Spec => []TypeOK
<1>1. Inv => TypeOK
  BY DEF Inv
<1> QED
  BY SessionsInvariant, <1>1, PTL

(* What Redis holds and what clients may expect decide which tokens count. *)
LEMMA SettledByInv == Inv => OneCallSettlesIt
<1> SUFFICES ASSUME Inv, NEW p \in Player, expected[p] # Unclear
             PROVE  {t \in given : t.player = p /\ Accepts(t)}
                    = {t \in {expected[p]} \ {None} : Decodes(t)}
  BY DEF OneCallSettlesIt
<1> USE NoneAssumption, TimeAssumption, RecordAssumption DEF Inv
<1>1. \A t \in given : t \in Token
  BY DEF TypeOK
<1>2. CASE expected[p] = None
  <2>1. ASSUME NEW t \in given, t.player = p PROVE ~Accepts(t)
    BY <1>1, <1>2, <2>1, AcceptedIsCurrent DEF ExpectedIsCurrent
  <2> QED
    BY <1>2, <2>1
<1>3. CASE expected[p] # None
  <2> DEFINE e == expected[p]
  <2>1. e \in Token /\ e \in given /\ current[p] # None /\ current[p].token = e
    BY <1>3 DEF TypeOK, ExpectedIsCurrent
  <2>2. e.player = p /\ current[p].until >= e.iat + Lifetime
    BY <2>1 DEF SessionOutlivesToken
  <2>3. current[p].until \in Nat /\ e.iat \in Nat /\ now \in Nat
    BY <2>1 DEF TypeOK, Session, Token
  <2>4. Decodes(e) => CurrentToken(e.player) = e
    BY <2>1, <2>2, <2>3 DEF Decodes, CurrentToken
  <2>5. Accepts(e) <=> Decodes(e)
    BY <2>4 DEF Accepts
  <2>6. ASSUME NEW t \in given, t.player = p, Accepts(t) PROVE t = e
    BY <1>1, <2>1, <2>6, AcceptedIsCurrent
  <2>7. {t \in given : t.player = p /\ Accepts(t)} = {t \in {e} \ {None} : Decodes(t)}
    <3> HIDE DEF e
    <3> QED
      BY <1>3, <2>1, <2>2, <2>5, <2>6 DEF e
  <2> QED
    BY <2>7
<1> QED
  BY <1>2, <1>3

(* After a call of /auth/register, /auth/login, /auth/refresh or            *)
(* /auth/logout that no other call of the player overlapped, exactly the    *)
(* token it returned is accepted, or none, until the next call, however     *)
(* many calls overlapped before it and for any lifetime of a session.       *)
THEOREM OneCallSettles == Spec => []OneCallSettlesIt
BY SessionsInvariant, SettledByInv, PTL

(* A join that the consumer of the matchmaking queue refuses, when auth      *)
(* answers it, has a token that expired on the way, or its player made      *)
(* another call on the session after sending it.                            *)
THEOREM OnlyNewCallsRefuse == Spec => []OnlyNewCallsRefuseJoins
<1>1. Inv => OnlyNewCallsRefuseJoins
  BY DEF Inv
<1> QED
  BY SessionsInvariant, <1>1, PTL
=============================================================================
